\* The consumer loop under crashes, failed starts, handler exceptions and
\* commits that do not get through.
SPECIFICATION FairSpec
CONSTANTS
  MaxEvents = 4
  BatchSize = 2
  MaxFaults = 2
  MaxStops = 1
  Faults = {"start", "raise", "crash", "commit"}
INVARIANTS
  RedeliveryBounded
  LossBounded
  CleanRunsLoseNothing
PROPERTY
  EveryEventSettled
  ImplementsDelivery
\* The run ends when the bounded records and faults are used up.
CHECK_DEADLOCK FALSE
