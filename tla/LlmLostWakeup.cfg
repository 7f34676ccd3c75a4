CONSTANTS
  m1 = m1  m2 = m2
  j1 = j1  j2 = j2
  f1 = f1  f2 = f2
  Mgr = {m1}
  Job = {j1, j2}
  Func = {f1}
  Home <- DuoHome
  FuncOf <- DuoFunc
  NumWorkers = 1
  QueueSize = 1
  MaxGen = 2
  MaxCrash = 0
  MaxFault = 0
  MaxUpset = 1
  Overlap = {m1}
  NoGen = NoGen
  NoJob = NoJob
SPECIFICATION Spec
CHECK_DEADLOCK FALSE
INVARIANT StopLeavesNoWork
