\* Two recorders and a dashboard, each with what it found at its start.
SPECIFICATION SummarySpec
CONSTANTS
  r1 = r1
  r2 = r2
  Recorders = {r1, r2}
  Dashboards = {"dashboard"}
  Window = 2
  Grace = 1
  Minute = 1
  DropBelow = 1
  SpikeAbove = 1
  SpikeNow = 1
  Backends = {"memory", "redis"}
  Faults = {"fail", "crash", "flush"}
  MaxTime = 3
  MaxEvents = 2
SYMMETRY MCSymmetry
INVARIANTS NothingForgotten CountsDifferByCommits HalvesAgree
\* Time ends at its bound.
CHECK_DEADLOCK FALSE
