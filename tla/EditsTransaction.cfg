\* Another client deletes a row with a change pending
CONSTANTS
  people = people
  orders = orders
  Tables = {people, orders}
  Order <- TheOrder
  Keyed = {people, orders}
  Keys = {1, 2}
  Present = {1, 2}
  Matching = {1}
  MaxChanges = 2
  MatchesRows = FALSE
  ReadOnly = {FALSE}
  MayFilter = FALSE
  KeyEdits = FALSE
  LastColumn = 1
  MayTypeAhead = FALSE
  MayFail = FALSE
  MayChange = TRUE
  Vanishing = {}
SPECIFICATION Spec
INVARIANTS
  AllOrNothing
