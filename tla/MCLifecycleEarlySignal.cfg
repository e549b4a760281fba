SPECIFICATION Spec
CONSTANTS
  Conns = {c1, c2, c3}
  None = None
INVARIANT
  CloseEndsListening
CHECK_DEADLOCK FALSE
