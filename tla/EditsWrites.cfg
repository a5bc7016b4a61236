\* Two tables, one without a key, on a connection that may be read-only, under other
\* clients and a database that refuses statements or whose answers are lost
CONSTANTS
  people = people
  orders = orders
  Tables = {people, orders}
  Order <- TheOrder
  Keyed = {people}
  Keys = {1}
  Present = {1}
  Matching = {1}
  MaxChanges = 2
  MatchesRows = TRUE
  ReadOnly = {TRUE, FALSE}
  MayFilter = FALSE
  KeyEdits = TRUE
  LastColumn = 1
  MayTypeAhead = TRUE
  MayFail = TRUE
  MayChange = TRUE
  Vanishing = {}
SPECIFICATION Spec
CONSTRAINT DoubtAlone
INVARIANTS
  NothingLost
  WrittenOnce
  OnlyDoubtfulGoAstray
  ReadOnlyIsNeverWritten
PROPERTIES
  SaidIsWritten
