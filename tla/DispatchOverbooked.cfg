\* Two client threads select at once for a worker with one slot.
CONSTANTS
  Threads = {t1, t2}
  Requests = {r1, r2}
  r1 = r1
  w1 = w1
  w2 = w2
  Workers = {w1}
  Crashable = {}
  NULL = NULL
  MaxTasks <- OneTask
  Delays = {0}
  Estimate <- MCEstimate
  IntMax = 1000
SPECIFICATION Spec
INVARIANTS NeverOverbooked
