\* Three requests of two client processes, one with an unfit file that is sent back; two
\* workers of one thread each, the first perhaps in the master's process.  Any process
\* may be killed and any client may listen late; all may end, so a last state is allowed.
CONSTANTS
  r1 = r1
  r2 = r2
  r3 = r3
  c1 = c1
  c2 = c2
  Requests = {r1, r2, r3}
  Unfit = {r1}
  Echo = {r1}
  Owner <- MCOwner
  Workers = {w1, w2}
  Insiders = {w1}
  Slots = 1
  Master = master
  NULL = NULL
SPECIFICATION Spec
INVARIANTS MiddlewareInv CalmKeepsAll
PROPERTIES ServiceSpec RequestsEnd AllFollowMaster
CHECK_DEADLOCK FALSE
