\* Two client threads and four requests compete for the one slot of one worker, while
\* sleepers give it back.  Every request is of type 4: r1 is none of them.  The worker
\* may end, and then the master, so a last state is allowed.
CONSTANTS
  Threads = {t1, t2}
  Requests = {r2, r3, r4, r5}
  r1 = r1
  w1 = w1
  w2 = w2
  Workers = {w1}
  Crashable = {w1}
  NULL = NULL
  MaxTasks <- OneTask
  Delays = {0}
  Estimate <- MCEstimate
  IntMax = 1000
SPECIFICATION Spec
SYMMETRY Alike
INVARIANTS DispatchInv CapacityKept DriftBounded
CHECK_DEADLOCK FALSE
