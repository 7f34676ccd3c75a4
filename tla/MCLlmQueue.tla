----------------------------- MODULE MCLlmQueue -----------------------------
(* Small instances of LlmQueue. *)
EXTENDS LlmQueue, TLC

CONSTANTS m1, m2, j1, j2, f1, f2

\* Two managers sharing the table, one job each.
PairHome == j1 :> m1 @@ j2 :> m2
PairFunc == j1 :> f1 @@ j2 :> f2

\* One manager, two jobs of one function.
DuoHome == j1 :> m1 @@ j2 :> m1
DuoFunc == j1 :> f1 @@ j2 :> f1
=============================================================================
