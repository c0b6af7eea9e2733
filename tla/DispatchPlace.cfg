\* One client thread and two workers with one slot each, whose delays can swap which
\* of them is faster; sleepers may fail to be created, so slots leak.  Once both
\* requests are placed only rows are refreshed.
CONSTANTS
  Threads = {t1}
  Requests = {r1, r2}
  r1 = r1
  w1 = w1
  w2 = w2
  Workers = {w1, w2}
  Crashable = {}
  NULL = NULL
  MaxTasks <- OneTask
  Delays = {0, 1}
  Estimate <- MCEstimate
  IntMax = 1000
SPECIFICATION FairSpec
INVARIANTS ScanIsBest
PROPERTIES RequestPlaced
