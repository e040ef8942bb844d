\* The secondary runbook is switched off.
SPECIFICATION Spec
CONSTANTS
  j1 = j1
  j2 = j2
  Jobs = {j1, j2}
  Incidents = {"i"}
  Faults = {}
  MaxToggles = 1
SYMMETRY MCSymmetry
PROPERTY DisabledNotStarted
\* The run ends when its bounded jobs are done.
CHECK_DEADLOCK FALSE
