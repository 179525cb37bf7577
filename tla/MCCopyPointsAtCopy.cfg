SPECIFICATION Spec
CONSTANTS
  Casters = {c1, c2, c3}
  MaxVectors = 2
INVARIANTS CopyPointsAtCopy
CHECK_DEADLOCK FALSE
