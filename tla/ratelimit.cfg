\* Two replicas, each with what it found at its start.
SPECIFICATION Spec
CONSTANTS
  p1 = p1
  p2 = p2
  Processes = {p1, p2}
  Limit = 2
  Window = 2
  Backends = {"memory", "redis"}
  Faults = {"crash", "reply", "flush"}
  MaxTime = 3
  MaxRequests = 3
  MaxLosses = 1
SYMMETRY MCSymmetry
INVARIANTS LocalLimit SharedLimit RefusalJustified
\* Time ends at its bound.
CHECK_DEADLOCK FALSE
