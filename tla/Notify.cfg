CONSTANTS
  Socket = {s1, s2}
  Loop = {l1, l2}
  None = None
  Attempts = 2
  MaxRetries = 1
  MaxMail = 3
  MaxUpsets = 2
SPECIFICATION FairSpec
CHECK_DEADLOCK FALSE
INVARIANTS ListedIsAlive AwaitedWillSettle SomebodyTries
PROPERTY Reconnects
