SPECIFICATION Spec
CONSTANTS
  Conns = {c1, c2, c3}
  None = None
INVARIANTS
  ConnsExact
  AtMostOneSurvives
PROPERTIES
  StopsWhenTold
  ForgetsTheGone
CHECK_DEADLOCK FALSE
