\* One handler exception, no shutdown, no crash.
SPECIFICATION FairSpec
CONSTANTS
  MaxEvents = 3
  BatchSize = 2
  MaxFaults = 1
  MaxStops = 0
  Faults = {"raise"}
PROPERTY
  EveryEventHandled
CHECK_DEADLOCK FALSE
