\* Keys typed ahead on two tables, one of which another client may drop, a filtered
\* sidebar and a database that refuses
CONSTANTS
  people = people
  orders = orders
  Tables = {people, orders}
  Order <- TheOrder
  Keyed = {people}
  Keys = {1}
  Present = {1}
  Matching = {1}
  MaxChanges = 2
  MatchesRows = FALSE
  ReadOnly = {FALSE}
  MayFilter = TRUE
  KeyEdits = TRUE
  LastColumn = 0
  MayTypeAhead = TRUE
  MayFail = TRUE
  MayChange = FALSE
  Vanishing = {people}
SPECIFICATION Spec
CONSTRAINT AddsTogether
INVARIANTS
  TypeOK
  AddedRowsOnTop
  CursorOnARow
  FormsAddedRow
  CommitsWhereOpened
