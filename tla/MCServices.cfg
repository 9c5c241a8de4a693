SPECIFICATION ServicesSpec
CONSTANTS
  w1 = w1  w2 = w2  m1 = m1  m2 = m2
  Worker = {w1, w2}
  Socket = Socket
  Sid = {1, 2}
  Boot = {1}
  Msg = {m1, m2}
  Weight <- MCWeight
  Nobody = Nobody  Unsent = Unsent
  p1 = p1  g1 = g1  g2 = g2  f1 = f1  f2 = f2  mgr = mgr
  Player = {p1}
  Gate = {g1, g2}
  Fd = {f1, f2}
  MaxLogin = 2
  MaxData = 0
  CacheLimit = 0
  AgentMgr = mgr
  None = None
CHECK_DEADLOCK FALSE
INVARIANTS RefCounted QueueOwned NoSilentLoss InitFirst QuitMeansOver
PROPERTIES ImplementsMailbox QueueDrains LoginAnswered
