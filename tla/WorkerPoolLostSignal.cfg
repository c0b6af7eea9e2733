\* One worker that connects before the only thread waits.
CONSTANTS
  Workers = {w1}
  Fit = {w1}
  Strays = {}
  Versions = {v1}
  Threads = {t1}
  Server = Server
  NULL = NULL
SPECIFICATION FairSpec
PROPERTIES QueuedIsGrabbed
CHECK_DEADLOCK FALSE
