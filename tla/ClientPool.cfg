\* Three connections in circulation and two threads: more connections than threads, and
\* every overlap of a dequeue with an enqueue of the same last node.
CONSTANTS
  Conns = {c1, c2, c3}
  Threads = {t1, t2}
  Server = Server
  NULL = NULL
SPECIFICATION FairSpec
INVARIANTS ListIsQueue NoEmptyDequeue PoolInv
PROPERTY FifoSafety FifoSpec EveryConnectionTaken
