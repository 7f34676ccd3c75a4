CONSTANTS
  m1 = m1  m2 = m2
  u1 = u1  u2 = u2  u3 = u3
  Mgr = {m1, m2}
  User = {u1, u2, u3}
  Home <- TwoHome
  Daemon = {1, 2, 3}
  MaxCancel = 1
  MaxDeath = 1
  NoDaemon = NoDaemon
SPECIFICATION FairSpec
CHECK_DEADLOCK FALSE
INVARIANTS RefCountsUsers ServedInUse StoppedWhenUnused OneDaemon
PROPERTIES KeptInUse RequestsAnswered LeaversLeave
