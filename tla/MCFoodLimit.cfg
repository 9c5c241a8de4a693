SPECIFICATION SceneSpec
CONSTANTS
  X = X  a1 = a1  ann = ann
  Role = {ann}
  Agent = {a1}
  RoleOf <- RoleOfAgent
  Logins = {{a1}}
  Patient = {a1}
  Scene = {X}
  Slot = {1}
  FoodLimit = 2
  MaxFood <- FoodIn
  MaxSends = 1
  Nobody = Nobody
CHECK_DEADLOCK FALSE
INVARIANT FoodsLimited
