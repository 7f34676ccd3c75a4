CONSTANTS
  c1 = c1
  Call = {c1}
  Retries = 3
  Foreign <- SecondForeign
  MaxFaults = 2
SPECIFICATION FairSpec
CHECK_DEADLOCK FALSE
INVARIANTS AnswerReady RetryAfterVerdict
PROPERTY CallEnds
