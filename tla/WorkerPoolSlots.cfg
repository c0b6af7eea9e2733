\* One thread; the second worker connects, perhaps after the first has left.
CONSTANTS
  Workers = {w1, w2}
  Fit = {w1, w2}
  Strays = {}
  Versions = {v1}
  Threads = {t1}
  Server = Server
  NULL = NULL
SPECIFICATION FairSpec
PROPERTIES SlotsComeBack
CHECK_DEADLOCK FALSE
