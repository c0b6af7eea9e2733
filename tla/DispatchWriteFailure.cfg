\* A worker that ends before the master writes to it.  The master may end, so a
\* last state is allowed.
CONSTANTS
  Threads = {t1}
  Requests = {r1}
  r1 = r1
  w1 = w1
  w2 = w2
  Workers = {w1}
  Crashable = {w1}
  NULL = NULL
  MaxTasks <- OneTask
  Delays = {0}
  Estimate <- MCEstimate
  IntMax = 1000
SPECIFICATION Spec
INVARIANTS WriteFailureStops
CHECK_DEADLOCK FALSE
