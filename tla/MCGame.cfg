SPECIFICATION GameSpec
CONSTANTS
  p1 = p1  g1 = g1  g2 = g2  f1 = f1  f2 = f2  mgr = mgr
  Player = {p1}
  Gate = {g1, g2}
  Fd = {f1, f2}
  MaxLogin = 2
  MaxData = 2
  CacheLimit = 0
  AgentMgr = mgr
  None = None
  X = X  Y = Y  a1 = a1  a2 = a2  b1 = b1  ann = ann  bob = bob
  Role = {ann, bob}
  Agent = {a1, a2, b1}
  RoleOf <- RoleOfAgent
  Logins = {{}, {a1, b1}, {a1, a2}, {b1}}
  Patient = {a1, b1}
  Scene = {X, Y}
  Slot = {1, 2}
  FoodLimit = 1
  MaxFood <- FoodIn
  MaxSends = 1
  Nobody = Nobody
CHECK_DEADLOCK FALSE
SYMMETRY Interchangeable
INVARIANTS
  TypesOK
  SavedBeforeLoad StatusAttended GameHasAgent AnswerComes AbortSaves
  ScenesAgree AgentTells FoodsCounted
