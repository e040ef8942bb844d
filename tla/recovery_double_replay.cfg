\* replay-engine scaled out to two processes.
SPECIFICATION Spec
CONSTANTS
  r1 = r1
  r2 = r2
  r3 = r3
  r4 = r4
  t1 = t1
  t2 = t2
  w1 = w1
  w2 = w2
  Workers = {w1, w2}
  Transactions = {t1}
  Flows = {"online_order", "store_billing"}
  Requests = {r1, r2, r3}
  Faults = {"db", "kafka", "crash"}
SYMMETRY MCSymmetry
INVARIANT
  ReplayedAtMostOnce
\* The run ends when its bounded requests are answered.
CHECK_DEADLOCK FALSE
