\* Two processes start at once: runbook-executor, which docker-compose runs, and
\* one that Kubernetes restarts.
SPECIFICATION FairSpec
CONSTANTS
  Processes = {"executor", "dashboard"}
  Managed = {"dashboard"}
  Executors = {"executor"}
  Requests = {"a", "b"}
  Playbooks <- MCPlaybooks
  Actions <- MCActions
  Attempts = 2
  MaxOutages = 2
  MaxCrashes = 1
INVARIANTS
  ServingHasTables
  GivesUpAfterAttempts
  RaceLostOnce
  StoredRunsComplete
  StoredSuccessesHappened
  UnstoredWasCutShort
PROPERTIES
  EveryStartEnds
\* The run ends when its requests are answered.
CHECK_DEADLOCK FALSE
