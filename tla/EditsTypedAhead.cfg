\* A key typed before the table just selected is loaded
CONSTANTS
  people = people
  orders = orders
  Tables = {people, orders}
  Order <- TheOrder
  Keyed = {people, orders}
  Keys = {1, 2}
  Present = {1, 2}
  Matching = {1}
  MaxChanges = 2
  MatchesRows = FALSE
  ReadOnly = {FALSE}
  MayFilter = FALSE
  KeyEdits = FALSE
  LastColumn = 1
  MayTypeAhead = TRUE
  MayFail = FALSE
  MayChange = FALSE
  Vanishing = {}
SPECIFICATION Spec
INVARIANTS
  WritesGoWhereMade
