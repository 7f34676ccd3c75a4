CONSTANTS
  r1 = r1  r2 = r2
  p1 = p1  p2 = p2  p3 = p3
  Run = {r1}
  Post = {p1, p2, p3}
  Chunks <- SoloChunks
  Batch <- SoloBatch
  Kinds <- SoloKinds
  MaxCrash = 2
SPECIFICATION FairSpec
CHECK_DEADLOCK FALSE
PROPERTY RunEnds
