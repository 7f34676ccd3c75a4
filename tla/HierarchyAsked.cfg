CONSTANTS
  r1 = r1
  r2 = r2
  Run = {r1}
  N = 3
  ChunkSize = 2
  Kinds <- RegroupOnly
SPECIFICATION Spec
INVARIANT EveryCodeAsked
CHECK_DEADLOCK FALSE
