SPECIFICATION Spec
CONSTANTS
  a = a
  b = b
  c = c
  d = d
  r1 = r1
  r2 = r2
  r3 = r3
  t1 = t1
  t2 = t2
  Rank <- MCRank
  Snapshots <- MCSnapshots
  Queries <- MCQueries
CHECK_DEADLOCK FALSE
INVARIANTS
  RealJourneys
  SameAsSearch
  CheapestFirst
  NothingBetterLeftOut
