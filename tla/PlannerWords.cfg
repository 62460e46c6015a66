CONSTANT MaxMoves = 3
SPECIFICATION Spec
INVARIANTS
  PlannersAgree
  NeverSlower
CHECK_DEADLOCK FALSE
