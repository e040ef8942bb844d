\* orchestrator and two processes of replay-engine.
SPECIFICATION FairLoopSpec
CONSTANTS
  r1 = r1
  r2 = r2
  r3 = r3
  t1 = t1
  w1 = w1
  w2 = w2
  Workers = {w1, w2}
  Transactions = {t1}
  Flows = {"online_order"}
  Requests = {r1, r2, r3}
  Posts = {r1, r2, r3}
  Subject <- MCSubject
  Faults = {"db", "crash"}
  MaxEvents = 2
  BatchSize = 2
  MaxFaults = 1
  MaxStops = 0
  LoopFaults = {"raise", "crash"}
INVARIANTS
  OneRowPerKey
  HandledMeansQueued
  DiagnosesBounded
PROPERTY
  EveryAnomalySettled
\* The run ends when its bounded records and requests are used up.
CHECK_DEADLOCK FALSE
