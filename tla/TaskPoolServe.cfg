\* Two tasks, one with an unfit file that is sent back and one whose client may quit, one
\* hollow request, two threads, one connection waiting for an accept.  Clients may
\* listen late, the worker and the master may end, and all may be answered, so a last
\* state is allowed.
CONSTANTS
  Tasks = {c1, c2}
  Hollow = {h1}
  Upload = {c1}
  Echo = {c1}
  Unfit = {c1}
  Quitters = {c2}
  Threads = {t1, t2}
  Backlog = 1
  NULL = NULL
SPECIFICATION FairSpec
INVARIANTS TaskInv AssignedExact TaskOnce StaysUp
PROPERTIES ForwardedIsAnswered WorkerFollowsMaster
CHECK_DEADLOCK FALSE
