SPECIFICATION Spec
CONSTANTS
  Casters = {c1, c2, c3}
  MaxVectors = 2
INVARIANTS TypeOK SpanIsLive MutableSpanIsSource
CHECK_DEADLOCK FALSE
