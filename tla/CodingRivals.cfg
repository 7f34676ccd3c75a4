CONSTANTS
  r1 = r1  r2 = r2
  p1 = p1  p2 = p2  p3 = p3
  Run = {r1, r2}
  Post = {p1, p2}
  Chunks <- PairChunks
  Batch <- PairBatch
  Kinds <- PairKinds
  MaxCrash = 1
SYMMETRY RunSymmetry
SPECIFICATION Spec
CHECK_DEADLOCK FALSE
INVARIANTS CountExact LateIsLittle OkMeansCoded RowsCleaned
PROPERTY EndedStoresNothing
