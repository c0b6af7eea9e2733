\* Two workers and a stray uuid, two threads, two versions of the metadata: the list
\* with up to three nodes, under early connections, spurious wake-ups and
\* disconnections.  The accept loop waits for good once every worker has connected.
CONSTANTS
  Workers = {w1, w2}
  Fit = {w1, w2}
  Strays = {s1}
  Versions = {v1, v2}
  Threads = {t1, t2}
  Server = Server
  NULL = NULL
SPECIFICATION FairSpec
INVARIANTS PoolInv OneHandler SignalsBacked ListSound NoNodeLost RowsWhole
PROPERTIES ListSpec ReadIsListed StrandedByLoss
CHECK_DEADLOCK FALSE
