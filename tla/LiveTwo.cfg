\* A tql on each of two connections under two agents, and two tqls on one connection under one
CONSTANTS
  t1 = t1
  t2 = t2
  a1 = a1
  a2 = a2
  shop = shop
  bank = bank
  Tqls = {t1, t2}
  Agents = {a1, a2}
  Connections = {shop, bank}
  ConnectionOf <- SameConnection
  FreshenEvery = 2
  MaxTime = 3
  MaxCalls = 2
  MayQuit = TRUE
  MayCrash = TRUE
SPECIFICATION SpecTwo
SYMMETRY AgentSymmetry
INVARIANTS
  OnlyTheDeadAreSwept
  ServingIsRegistered
  NotOpenIsTrue
PROPERTIES
  ChosenIsNearlyNewest
  AnswerFollowsRequest
CHECK_DEADLOCK FALSE
