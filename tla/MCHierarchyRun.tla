--------------------------- MODULE MCHierarchyRun ---------------------------
(* Small instances of HierarchyRun. *)
EXTENDS HierarchyRun, TLC

CONSTANTS r1, r2

\* Two runs on the table of groups, or on that of themes, whose two routes
\* differ in nothing the model tells apart.
PairKinds ==
  {r1 :> "group" @@ r2 :> "group", r1 :> "group" @@ r2 :> "regroup",
   r1 :> "theme" @@ r2 :> "redo"}

\* A run that arranges the codes anew with the user's feedback.
RegroupOnly == [Run -> {"regroup"}]
=============================================================================
