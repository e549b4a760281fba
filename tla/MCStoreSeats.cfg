SPECIFICATION Spec
CONSTANTS
  d1 = d1
  d2 = d2
  p1 = p1
  p2 = p2
  a = a
  b = b
  c = c
  r1 = r1
  r2 = r2
  i1 = i1
  i2 = i2
  q1 = q1
  t1 = t1
  t2 = t2
  Names = {d1, d2, p1, p2}
  Cities = {a, b, c}
  Dates = {t1, t2}
  RideIds = {r1, r2}
  ResIds = {i1, i2}
  RequestIds = {q1}
  None = None
  SeedUsers <- SeatsSeedUsers
  RegisterRequests <- SeatsRegisterRequests
  PublishRequests <- SeatsPublishRequests
  LegRequests <- SeatsLegRequests
SYMMETRY SeatsSymmetry
INVARIANTS
  TypeOK
  SeatConservation
  SeatBounds
  NoPassengerLeftBehind
  Idempotent
  CrashLosesOnlyCancellations
  OneJourney
PROPERTY
  FileOnlyGrows
