\* Two processes, releases that come out meanwhile, faults and overlaps
CONSTANTS
  p1 = p1
  p2 = p2
  Processes = {p1, p2}
  Newest = 4
  Kept = 3
  MaxFaults = 1
  MaxOverlaps = 1
SPECIFICATION FairSpec
INVARIANTS
  TypeOK
  LinkRuns
  ReadyIsKept
  ReadyIsTrue
PROPERTIES
  LatestIsUsed
\* The link may come to lead nowhere, and then there is no tql to start
CHECK_DEADLOCK FALSE
