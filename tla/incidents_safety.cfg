\* Four services of two processes each on one table, with failures.
SPECIFICATION Spec
CONSTANTS
  r1 = r1
  r2 = r2
  r3 = r3
  r4 = r4
  Requests = {r1, r2, r3, r4}
  Replicas = 2
  Ids = {1}
  PatchStatuses = {"resolved", "diagnosed"}
  Causes = {"operator"}
  Faults = {"db", "kafka", "crash"}
SYMMETRY MCSymmetry
INVARIANTS
  DiagnosedHasRootCause
  EventsFollowCommits
PROPERTIES
  ImplementsIncidentContract
\* The run ends when its bounded requests are answered.
CHECK_DEADLOCK FALSE
