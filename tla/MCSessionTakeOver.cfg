SPECIFICATION Spec
CONSTANTS
  p1 = p1  g1 = g1  g2 = g2  f1 = f1  f2 = f2  mgr = mgr
  Player = {p1}
  Gate = {g1, g2}
  Fd = {f1, f2}
  MaxLogin = 2
  MaxData = 0
  CacheLimit = 0
  AgentMgr = mgr
  None = None
CHECK_DEADLOCK FALSE
INVARIANT OneClient
