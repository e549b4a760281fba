SPECIFICATION Spec
CONSTANTS
  p1 = p1
  d1 = d1
  Clients = {c1}
  Accounts <- MCAccounts
  Wishes = {w1}
  MaxConns = 2
  MaxCalls = 5
  ResendSameId = TRUE
  None = None
CHECK_DEADLOCK FALSE
INVARIANTS
  TypeOK
  OneBookingPerWish
  InStepUntilTimeout
  MirrorsUntilTimeout
  OkMeansBookedUntilTimeout
PROPERTY
  LetGo
