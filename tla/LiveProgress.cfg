\* Calls return and mailboxes are emptied, under the fairness of the event loop
CONSTANTS
  t1 = t1
  t2 = t2
  a1 = a1
  a2 = a2
  shop = shop
  bank = bank
  Tqls = {t1}
  Agents = {a1, a2}
  Connections = {shop}
  ConnectionOf <- SameConnection
  FreshenEvery = 1
  MaxTime = 1
  MaxCalls = 1
  MayQuit = TRUE
  MayCrash = TRUE
SPECIFICATION FairSpec
PROPERTIES
  CallsReturn
  MailboxIsEmptied
CHECK_DEADLOCK FALSE
