---------------------------- MODULE MCCodingRun ----------------------------
(* Small instances of CodingRun. *)
EXTENDS CodingRun, TLC

CONSTANTS r1, r2, p1, p2, p3

\* Two posts on one page, the first of them long; two runs of one track.  The
\* kinds are closed under a swap of the runs, so Run is symmetric.
PairChunks == p1 :> 2 @@ p2 :> 1
PairBatch  == <<{p1, p2}>>
PairKinds  ==
  {k \in [Run -> Kind] :
     {k[r] : r \in Run} \in {{"initial"}, {"initial", "redoInitial"},
                              {"final"}, {"final", "remake"}}}
RunSymmetry == Permutations(Run)

\* A run alone, with a post more on a page of its own.
SoloChunks == p1 :> 2 @@ p2 :> 1 @@ p3 :> 1
SoloBatch  == <<{p1, p2}, {p3}>>
SoloKinds  == [Run -> Kind]
=============================================================================
