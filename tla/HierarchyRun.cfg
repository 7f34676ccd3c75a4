CONSTANTS
  r1 = r1
  r2 = r2
  Run = {r1, r2}
  N = 3
  ChunkSize = 2
  Kinds <- PairKinds
SPECIFICATION FairSpec
INVARIANT ChunksTile
INVARIANT EveryCodeKept
INVARIANT WholeOrNothing
INVARIANT GroupingAsksAll
PROPERTY RunEnds
CHECK_DEADLOCK FALSE
