\* The user quits while an agent waits for its SQL to be picked up
CONSTANTS
  t1 = t1
  t2 = t2
  a1 = a1
  a2 = a2
  shop = shop
  bank = bank
  Tqls = {t1}
  Agents = {a1}
  Connections = {shop}
  ConnectionOf <- SameConnection
  FreshenEvery = 1
  MaxTime = 0
  MaxCalls = 1
  MayQuit = TRUE
  MayCrash = FALSE
SPECIFICATION Spec
INVARIANTS
  InTheEditorIsTrue
CHECK_DEADLOCK FALSE
