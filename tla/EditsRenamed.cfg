\* The key of a row and another of its columns are changed
CONSTANTS
  people = people
  orders = orders
  Tables = {people, orders}
  Order <- TheOrder
  Keyed = {people, orders}
  Keys = {1, 2, 3}
  Present = {1, 2}
  Matching = {1}
  MaxChanges = 2
  MatchesRows = FALSE
  ReadOnly = {FALSE}
  MayFilter = FALSE
  KeyEdits = TRUE
  LastColumn = 1
  MayTypeAhead = FALSE
  MayFail = FALSE
  MayChange = FALSE
  Vanishing = {}
SPECIFICATION Spec
INVARIANTS
  NothingWrittenIsTrue
