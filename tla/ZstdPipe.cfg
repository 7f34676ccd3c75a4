CONSTANTS
  MaxJobs = 3
  BufSize = 3
  MagicSize = 2
  HeaderSize = 3
  SmallFile = 9
  None = None
  Files <- SomeFiles
SPECIFICATION FairSpec
INVARIANTS NothingLost JobsSuffice ClosedWhenIdle SleepersAwaited
PROPERTIES KeepsPromise PipeEnds
