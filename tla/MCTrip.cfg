SPECIFICATION TripSpec
CONSTANTS
  d1 = d1
  p1 = p1
  p2 = p2
  a = a
  b = b
  c = c
  r1 = r1
  r2 = r2
  i1 = i1
  q1 = q1
  t1 = t1
  t2 = t2
  Names = {d1, p1, p2}
  Cities = {a, b, c}
  Dates = {t1, t2}
  RideIds = {r1, r2}
  ResIds = {i1}
  RequestIds = {q1}
  None = None
  SeedUsers <- MCSeedUsers
  RegisterRequests = {}
  PublishRequests = {}
  LegRequests = {}
  Rank <- MCRank
  Queries <- MCQueries
  Forms <- MCForms
  MaxInt = 511
  Garbage = Garbage
  Rejected = Rejected
SYMMETRY MCSymmetry
INVARIANTS
  AnswersAreJourneys
  OnlySeatsGoStale
  BookedAsShown
  ListedStillThere
  PublishedAsTyped
PROPERTY
  FreshIsBookable
