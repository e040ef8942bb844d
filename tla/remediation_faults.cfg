\* Two jobs, everything fails, the fallback may be switched off.
SPECIFICATION FairSpec
CONSTANTS
  j1 = j1
  j2 = j2
  Jobs = {j1, j2}
  Incidents = {"i"}
  Faults = {"status", "timeout", "db", "crash"}
  MaxToggles = 1
INVARIANTS SuccessesHappened EscalatedBeforeGivingUp ClosedWasVerified UnrecordedEndsJob
PROPERTY EveryJobReported
\* The run ends when its bounded jobs are done.
CHECK_DEADLOCK FALSE
