CONSTANTS
  m1 = m1  m2 = m2
  u1 = u1  u2 = u2  u3 = u3
  Mgr = {m1, m2}
  User = {u1, u2, u3}
  Home <- TwoHome
  Daemon = {1, 2}
  MaxCancel = 0
  MaxDeath = 0
  NoDaemon = NoDaemon
SPECIFICATION Spec
CHECK_DEADLOCK FALSE
PROPERTY StartedIsOwn
