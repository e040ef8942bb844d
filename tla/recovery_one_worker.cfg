\* replay-engine as docker-compose runs it: one process.
SPECIFICATION Spec
CONSTANTS
  r1 = r1
  r2 = r2
  r3 = r3
  r4 = r4
  t1 = t1
  t2 = t2
  w1 = w1
  w2 = w2
  Workers = {w1}
  Transactions = {t1, t2}
  Flows = {"online_order", "store_billing"}
  Requests = {r1, r2, r3, r4}
  Faults = {"db", "kafka", "crash"}
SYMMETRY MCSymmetry
INVARIANTS
  MessagesFollowCommits
  ReplayedAtMostOnce
  RetryCountExact
PROPERTIES
  OldestReplayedFirst
  ImplementsContract
\* The run ends when its bounded requests are answered.
CHECK_DEADLOCK FALSE
