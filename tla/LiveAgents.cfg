\* Two agents, two calls each, and one tql that may quit or crash
CONSTANTS
  t1 = t1
  t2 = t2
  a1 = a1
  a2 = a2
  shop = shop
  bank = bank
  Tqls = {t1}
  Agents = {a1, a2}
  Connections = {shop}
  ConnectionOf <- SameConnection
  FreshenEvery = 1
  MaxTime = 0
  MaxCalls = 2
  MayQuit = TRUE
  MayCrash = TRUE
SPECIFICATION Spec
SYMMETRY AgentSymmetry
CONSTRAINT ThreeCalls
INVARIANTS
  TypeOK
  AtMostOnce
  EditorFollowsCalls
  LostOnlyToOther
  PiecesTakeTwo
PROPERTIES
  ImplementsHandoff
CHECK_DEADLOCK FALSE
