--------------------------- MODULE WorkerPoolProofs ---------------------------
(***************************************************************************)
(* Proofs about WorkerPool for any workers, messages and finite pool.      *)
(***************************************************************************)
EXTENDS WorkerPool, ListsProofs, FiniteSetTheorems, SequenceTheorems, TLAPS

USE WorkerPoolAssumption

\* The types, and which locals are set where.
LEMMA TypeStep ==
  ASSUME TypeOK, MutexOK, LocalsOK, Next
  PROVE  TypeOK' /\ LocalsOK'
<1> USE DEF TypeOK, LocalsOK, ServerPoints, ThreadPoints, Metadata, server, nodes, Goto
<1>1. ASSUME NEW w \in Workers, Accept(w) PROVE TypeOK' /\ LocalsOK'
  BY <1>1 DEF Accept, Uuids
<1>2. ASSUME NEW w \in Workers, Disconnect(w) PROVE TypeOK' /\ LocalsOK'
  BY <1>2 DEF Disconnect
<1>3. ASSUME ServerLock PROVE TypeOK' /\ LocalsOK'
  BY <1>3 DEF ServerLock
<1>4. ASSUME Enqueue PROVE TypeOK' /\ LocalsOK'
  BY <1>4 DEF Enqueue
<1>5. ASSUME Signal PROVE TypeOK' /\ LocalsOK'
  <2>1. pc' \in [Threads -> ThreadPoints] /\ lost' \in Nat
    BY <1>5 DEF Signal, Waiting
  <2>2. TypeOK'
    BY <1>5, <2>1 DEF Signal
  <2>3. LocalsOK'
    BY <1>5 DEF Signal, Waiting
  <2> QED
    BY <2>2, <2>3
<1>6. ASSUME ServerUnlock PROVE TypeOK' /\ LocalsOK'
  BY <1>6 DEF ServerUnlock
<1>7. ASSUME NEW t \in Threads, Lock(t) PROVE TypeOK' /\ LocalsOK'
  BY <1>7 DEF Lock
<1>8. ASSUME NEW t \in Threads, CondWait(t) PROVE TypeOK' /\ LocalsOK'
  BY <1>8 DEF CondWait
<1>9. ASSUME NEW t \in Threads, WakeSpuriously(t) PROVE TypeOK' /\ LocalsOK'
  BY <1>9 DEF WakeSpuriously
<1>10. ASSUME NEW t \in Threads, Relock(t) PROVE TypeOK' /\ LocalsOK'
  BY <1>10 DEF Relock
<1>11. ASSUME NEW t \in Threads, Dequeue(t) PROVE TypeOK' /\ LocalsOK'
  <2>1. queue' \in Seq(Workers) /\ conn' \in [Threads -> Workers \cup {NULL}]
    <3>1. CASE queue = <<>>
      BY <1>11, <3>1 DEF Dequeue
    <3>2. CASE queue # <<>>
      <4>1. Head(queue) \in Workers /\ Tail(queue) \in Seq(Workers)
        BY <3>2, HeadTailProperties
      <4> QED
        <5>1. queue' = Tail(queue)
          BY <1>11, <3>2 DEF Dequeue
        <5>2. conn' = [conn EXCEPT ![t] = Head(queue)]
          BY <1>11, <3>2 DEF Dequeue
        <5>3. conn' \in [Threads -> Workers \cup {NULL}]
          BY <4>1, <5>2
        <5> QED
          BY <4>1, <5>1, <5>3
    <3> QED
      BY <3>1, <3>2
  <2>2. TypeOK'
    BY <1>11, <2>1 DEF Dequeue
  <2>3. LocalsOK'
    BY <1>11 DEF Dequeue
  <2> QED
    BY <2>2, <2>3
<1>12. ASSUME NEW t \in Threads, Release(t) PROVE TypeOK' /\ LocalsOK'
  BY <1>12 DEF Release
<1>13. ASSUME NEW t \in Threads, Read(t) PROVE TypeOK' /\ LocalsOK'
  <2>1. PICK v \in Versions : msg' = [msg EXCEPT ![t] = [uuid |-> conn[t], version |-> v]]
    BY <1>13 DEF Read
  <2>2. conn[t] \in Workers /\ [uuid |-> conn[t], version |-> v] \in Metadata
    BY <1>13 DEF Read, Uuids
  <2>3. msg' \in [Threads -> Metadata \cup {NULL}] /\ pc' \in [Threads -> ThreadPoints]
    BY <1>13, <2>1, <2>2 DEF Read
  <2>4. TypeOK'
    BY <1>13, <2>3 DEF Read
  <2>5. msg'[t] # NULL
    BY <2>1, <2>2
  <2>6. LocalsOK'
    BY <1>13, <2>1, <2>5 DEF Read
  <2> QED
    BY <2>4, <2>6
<1>14. ASSUME NEW t \in Threads, ReadNothing(t) PROVE TypeOK' /\ LocalsOK'
  <2>1. PICK m \in ({msg[t]} \ {NULL}) \cup [uuid : Strays, version : Versions] :
           msg' = [msg EXCEPT ![t] = m]
    BY <1>14 DEF ReadNothing
  <2>2. m \in Metadata
    BY <2>1 DEF Uuids
  <2>3. msg' \in [Threads -> Metadata \cup {NULL}] /\ pc' \in [Threads -> ThreadPoints]
    BY <1>14, <2>1, <2>2 DEF ReadNothing
  <2>4. TypeOK'
    BY <1>14, <2>3 DEF ReadNothing
  <2>5. msg'[t] # NULL
    BY <2>1, <2>2
  <2>6. LocalsOK'
    BY <1>14, <2>1, <2>5 DEF ReadNothing
  <2> QED
    BY <2>4, <2>6
<1>15. ASSUME NEW t \in Threads, LockList(t) PROVE TypeOK' /\ LocalsOK'
  BY <1>15 DEF LockList
<1>16. ASSUME NEW t \in Threads, Search(t) PROVE TypeOK' /\ LocalsOK'
  <2>1. pc' \in [Threads -> ThreadPoints] /\ current' \in [Threads -> Uuids \cup {NULL}]
    BY <1>16 DEF Search, Uuids
  <2>2. TypeOK'
    BY <1>16, <2>1 DEF Search
  <2>3. LocalsOK'
    BY <1>16 DEF Search
  <2> QED
    BY <2>2, <2>3
<1>17. ASSUME NEW t \in Threads, UpdateUsage(t) PROVE TypeOK' /\ LocalsOK'
  BY <1>17 DEF UpdateUsage
<1>18. ASSUME NEW t \in Threads, UpdateDelay(t) PROVE TypeOK' /\ LocalsOK'
  BY <1>18 DEF UpdateDelay
<1>19. ASSUME NEW t \in Threads, Link(t) PROVE TypeOK' /\ LocalsOK'
  BY <1>19 DEF Link
<1>20. ASSUME NEW t \in Threads, Publish(t) PROVE TypeOK' /\ LocalsOK'
  BY <1>20 DEF Publish
<1>21. ASSUME NEW t \in Threads, UnlockList(t) PROVE TypeOK' /\ LocalsOK'
  BY <1>21 DEF UnlockList
<1> QED
  BY <1>1, <1>2, <1>3, <1>4, <1>5, <1>6, <1>7, <1>8, <1>9, <1>10, <1>11, <1>12, <1>13, <1>14, <1>15, <1>16, <1>17, <1>18, <1>19, <1>20, <1>21 DEF Next, Locking, PoolStep, ListStep

\* worker_pool_mutex is owned by whoever is inside.
LEMMA MutexStep ==
  ASSUME TypeOK, MutexOK, LocalsOK, Next
  PROVE  MutexOK'
<1> USE DEF TypeOK, MutexOK, ServerInside, ThreadInside, server, nodes, Goto
<1>1. ASSUME NEW w \in Workers, Accept(w) PROVE MutexOK'
  BY <1>1 DEF Accept
<1>2. ASSUME NEW w \in Workers, Disconnect(w) PROVE MutexOK'
  BY <1>2 DEF Disconnect
<1>3. ASSUME ServerLock PROVE MutexOK'
  BY <1>3 DEF ServerLock
<1>4. ASSUME Enqueue PROVE MutexOK'
  BY <1>4 DEF Enqueue
<1>5. ASSUME Signal PROVE MutexOK'
  BY <1>5 DEF Signal
<1>6. ASSUME ServerUnlock PROVE MutexOK'
  BY <1>6 DEF ServerUnlock
<1>7. ASSUME NEW t \in Threads, Lock(t) PROVE MutexOK'
  BY <1>7 DEF Lock
<1>8. ASSUME NEW t \in Threads, CondWait(t) PROVE MutexOK'
  BY <1>8 DEF CondWait
<1>9. ASSUME NEW t \in Threads, WakeSpuriously(t) PROVE MutexOK'
  BY <1>9 DEF WakeSpuriously
<1>10. ASSUME NEW t \in Threads, Relock(t) PROVE MutexOK'
  BY <1>10 DEF Relock
<1>11. ASSUME NEW t \in Threads, Dequeue(t) PROVE MutexOK'
  BY <1>11 DEF Dequeue
<1>12. ASSUME NEW t \in Threads, Release(t) PROVE MutexOK'
  BY <1>12 DEF Release
<1>13. ASSUME NEW t \in Threads, Read(t) PROVE MutexOK'
  BY <1>13 DEF Read
<1>14. ASSUME NEW t \in Threads, ReadNothing(t) PROVE MutexOK'
  BY <1>14 DEF ReadNothing
<1>15. ASSUME NEW t \in Threads, LockList(t) PROVE MutexOK'
  BY <1>15 DEF LockList
<1>16. ASSUME NEW t \in Threads, Search(t) PROVE MutexOK'
  BY <1>16 DEF Search
<1>17. ASSUME NEW t \in Threads, UpdateUsage(t) PROVE MutexOK'
  BY <1>17 DEF UpdateUsage
<1>18. ASSUME NEW t \in Threads, UpdateDelay(t) PROVE MutexOK'
  BY <1>18 DEF UpdateDelay
<1>19. ASSUME NEW t \in Threads, Link(t) PROVE MutexOK'
  BY <1>19 DEF Link
<1>20. ASSUME NEW t \in Threads, Publish(t) PROVE MutexOK'
  BY <1>20 DEF Publish
<1>21. ASSUME NEW t \in Threads, UnlockList(t) PROVE MutexOK'
  BY <1>21 DEF UnlockList
<1> QED
  BY <1>1, <1>2, <1>3, <1>4, <1>5, <1>6, <1>7, <1>8, <1>9, <1>10, <1>11, <1>12, <1>13, <1>14, <1>15, <1>16, <1>17, <1>18, <1>19, <1>20, <1>21 DEF Next, Locking, PoolStep, ListStep

\* Field updates of a node are paired.
LEMMA RowsStep ==
  ASSUME TypeOK, MutexOK, LocalsOK, RowsOK, Next
  PROVE  RowsOK'
<1> USE DEF TypeOK, MutexOK, LocalsOK, ServerInside, ThreadInside, RowsOK, Metadata, server, nodes, Goto
<1>1. ASSUME NEW w \in Workers, Accept(w) PROVE RowsOK'
  BY <1>1 DEF Accept
<1>2. ASSUME NEW w \in Workers, Disconnect(w) PROVE RowsOK'
  BY <1>2 DEF Disconnect
<1>3. ASSUME ServerLock PROVE RowsOK'
  BY <1>3 DEF ServerLock
<1>4. ASSUME Enqueue PROVE RowsOK'
  BY <1>4 DEF Enqueue
<1>5. ASSUME Signal PROVE RowsOK'
  BY <1>5 DEF Signal
<1>6. ASSUME ServerUnlock PROVE RowsOK'
  BY <1>6 DEF ServerUnlock
<1>7. ASSUME NEW t \in Threads, Lock(t) PROVE RowsOK'
  BY <1>7 DEF Lock
<1>8. ASSUME NEW t \in Threads, CondWait(t) PROVE RowsOK'
  BY <1>8 DEF CondWait
<1>9. ASSUME NEW t \in Threads, WakeSpuriously(t) PROVE RowsOK'
  BY <1>9 DEF WakeSpuriously
<1>10. ASSUME NEW t \in Threads, Relock(t) PROVE RowsOK'
  BY <1>10 DEF Relock
<1>11. ASSUME NEW t \in Threads, Dequeue(t) PROVE RowsOK'
  BY <1>11 DEF Dequeue
<1>12. ASSUME NEW t \in Threads, Release(t) PROVE RowsOK'
  BY <1>12 DEF Release
<1>13. ASSUME NEW t \in Threads, Read(t) PROVE RowsOK'
  BY <1>13 DEF Read
<1>14. ASSUME NEW t \in Threads, ReadNothing(t) PROVE RowsOK'
  BY <1>14 DEF ReadNothing
<1>15. ASSUME NEW t \in Threads, LockList(t) PROVE RowsOK'
  BY <1>15 DEF LockList
<1>16. ASSUME NEW t \in Threads, Search(t) PROVE RowsOK'
  BY <1>16 DEF Search
<1>17. ASSUME NEW t \in Threads, UpdateUsage(t) PROVE RowsOK'
  BY <1>17 DEF UpdateUsage
<1>18. ASSUME NEW t \in Threads, UpdateDelay(t) PROVE RowsOK'
  BY <1>18 DEF UpdateDelay
<1>19. ASSUME NEW t \in Threads, Link(t) PROVE RowsOK'
  BY <1>19 DEF Link
<1>20. ASSUME NEW t \in Threads, Publish(t) PROVE RowsOK'
  BY <1>20 DEF Publish
<1>21. ASSUME NEW t \in Threads, UnlockList(t) PROVE RowsOK'
  BY <1>21 DEF UnlockList
<1> QED
  BY <1>1, <1>2, <1>3, <1>4, <1>5, <1>6, <1>7, <1>8, <1>9, <1>10, <1>11, <1>12, <1>13, <1>14, <1>15, <1>16, <1>17, <1>18, <1>19, <1>20, <1>21 DEF Next, Locking, PoolStep, ListStep

\* A thread's step that leaves the connections alone keeps them in their places.
LEMMA PlaceFrame ==
  ASSUME OneHandler, UNCHANGED <<queue, conn, server>>
  PROVE  OneHandler'
<1>1. Queued' = Queued /\ Handled' = Handled
  BY DEF Queued, Handled
<1> QED
  BY <1>1 DEF OneHandler, server

\* A connection stays in one place: from the server to the queue's end, from its
\* front to a thread that held none.
LEMMA PlaceStep ==
  ASSUME TypeOK, MutexOK, LocalsOK, OneHandler, Next
  PROVE  OneHandler'
<1> USE DEF TypeOK, LocalsOK
<1>1. ASSUME NEW w \in Workers, Accept(w) PROVE OneHandler'
  <2>1. Queued' = Queued /\ Handled' = Handled
    BY <1>1 DEF Accept, Queued, Handled
  <2>2. accepted = Queued \cup Handled /\ w \notin Queued \cup Handled
    BY <1>1 DEF Accept, OneHandler
  <2> QED
    BY <1>1, <2>1, <2>2 DEF Accept, OneHandler
<1>2. ASSUME NEW w \in Workers, Disconnect(w) PROVE OneHandler'
  BY <1>2, PlaceFrame DEF Disconnect
<1>3. ASSUME ServerLock PROVE OneHandler'
  <2>1. Queued' = Queued /\ Handled' = Handled
    BY <1>3 DEF ServerLock, Queued, Handled
  <2> QED
    BY <1>3, <2>1 DEF ServerLock, OneHandler
<1>4. ASSUME Enqueue PROVE OneHandler'
  <2>1. /\ Len(queue') = Len(queue) + 1 /\ Len(queue) \in Nat
        /\ \A i \in 1..Len(queue) : queue'[i] = queue[i]
        /\ queue'[Len(queue) + 1] = incoming
    BY <1>4, AppendProperties, LenProperties DEF Enqueue
  <2>2. Queued' = Queued \cup {incoming} /\ Handled' = Handled
    <3>1. \A x : x \in Queued' => x \in Queued \cup {incoming}
      BY <2>1 DEF Queued
    <3>2. \A x \in Queued : x \in Queued'
      BY <2>1 DEF Queued
    <3>3. incoming \in Queued'
      BY <2>1 DEF Queued
    <3>4. Handled' = Handled
      BY <1>4 DEF Enqueue, Handled
    <3> QED
      BY <3>1, <3>2, <3>3, <3>4
  <2>3. incoming \notin Queued \cup Handled
    BY <1>4 DEF Enqueue, OneHandler
  <2>4. \A i, j \in 1..Len(queue') : queue'[i] = queue'[j] => i = j
    BY <2>1, <2>3 DEF OneHandler, Queued
  <2>5. accepted' = Queued' \cup Handled'
    BY <1>4, <2>2 DEF Enqueue, OneHandler, server
  <2> QED
    BY <1>4, <2>2, <2>3, <2>4, <2>5 DEF Enqueue, OneHandler
<1>5. ASSUME Signal PROVE OneHandler'
  <2>1. Queued' = Queued /\ Handled' = Handled
    BY <1>5 DEF Signal, Queued, Handled
  <2> QED
    BY <1>5, <2>1 DEF Signal, OneHandler
<1>6. ASSUME ServerUnlock PROVE OneHandler'
  <2>1. Queued' = Queued /\ Handled' = Handled
    BY <1>6 DEF ServerUnlock, Queued, Handled
  <2> QED
    BY <1>6, <2>1 DEF ServerUnlock, OneHandler
<1>7. ASSUME NEW t \in Threads, Lock(t) PROVE OneHandler'
  BY <1>7, PlaceFrame DEF Lock
<1>8. ASSUME NEW t \in Threads, CondWait(t) PROVE OneHandler'
  BY <1>8, PlaceFrame DEF CondWait
<1>9. ASSUME NEW t \in Threads, WakeSpuriously(t) PROVE OneHandler'
  BY <1>9, PlaceFrame DEF WakeSpuriously
<1>10. ASSUME NEW t \in Threads, Relock(t) PROVE OneHandler'
  BY <1>10, PlaceFrame DEF Relock
<1>11. ASSUME NEW t \in Threads, Dequeue(t) PROVE OneHandler'
  <2>1. CASE queue = <<>>
    BY <1>11, <2>1, PlaceFrame DEF Dequeue
  <2>2. CASE queue # <<>>
    <3>1. /\ Len(queue) \in Nat \ {0} /\ queue[1] \in Workers
          /\ Head(queue) = queue[1] /\ Len(queue') = Len(queue) - 1
          /\ \A i \in 1..Len(queue') : queue'[i] = queue[i + 1]
      <4>1. Len(queue) \in Nat \ {0}
        BY <2>2, EmptySeq, LenProperties
      <4>2. queue[1] \in Workers /\ Head(queue) = queue[1]
        BY <2>2, <4>1, HeadTailProperties, ElementOfSeq
      <4>3. /\ Len(queue') = Len(queue) - 1
            /\ \A i \in 1..Len(queue') : queue'[i] = queue[i + 1]
        <5>1. queue' = Tail(queue)
          BY <1>11, <2>2 DEF Dequeue
        <5> QED
          BY <2>2, <5>1, HeadTailProperties
      <4> QED
        BY <4>1, <4>2, <4>3
    <3>2. Queued' = Queued \ {queue[1]}
      <4>1. ASSUME NEW x \in Queued' PROVE x \in Queued \ {queue[1]}
        <5>1. PICK i \in 1..Len(queue') : queue'[i] = x
          BY DEF Queued
        <5>2. i + 1 \in 1..Len(queue) /\ i + 1 # 1 /\ 1 \in 1..Len(queue) /\ queue[i + 1] = x
          BY <3>1, <5>1
        <5>3. queue[i + 1] # queue[1]
          BY <5>2 DEF OneHandler
        <5> QED
          BY <5>2, <5>3 DEF Queued
      <4>2. ASSUME NEW x \in Queued \ {queue[1]} PROVE x \in Queued'
        <5>1. PICK i \in 1..Len(queue) : queue[i] = x
          BY DEF Queued
        <5>2. i - 1 \in 1..Len(queue') /\ queue'[i - 1] = x
          BY <3>1, <5>1, <4>2
        <5> QED
          BY <5>2 DEF Queued
      <4> QED
        BY <4>1, <4>2
    <3>3. queue[1] \in Queued /\ queue[1] \notin Handled
      BY <3>1 DEF Queued, OneHandler
    <3>4. conn' = [conn EXCEPT ![t] = queue[1]] /\ conn[t] = NULL
      BY <1>11, <2>2, <3>1 DEF Dequeue
    <3>5. Handled' = Handled \cup {queue[1]}
      <4>1. \A u \in Threads \ {t} : conn'[u] = conn[u]
        BY <3>4
      <4>2. conn'[t] = queue[1] /\ queue[1] # NULL
        BY <3>1, <3>4 DEF Uuids
      <4> QED
        BY <3>4, <4>1, <4>2 DEF Handled
    <3>6. \A i, j \in 1..Len(queue') : queue'[i] = queue'[j] => i = j
      BY <3>1 DEF OneHandler
    <3>7. \A u, v \in Threads : conn'[u] = conn'[v] /\ u # v => conn'[u] = NULL
      BY <3>3, <3>4 DEF OneHandler, Handled
    <3>8. Queued' \cap Handled' = {} /\ Queued' \cup Handled' = Queued \cup Handled
      BY <3>2, <3>3, <3>5 DEF OneHandler
    <3>9. UNCHANGED server
      BY <1>11 DEF Dequeue
    <3> QED
      BY <3>6, <3>7, <3>8, <3>9 DEF OneHandler, server
  <2> QED
    BY <2>1, <2>2
<1>12. ASSUME NEW t \in Threads, Release(t) PROVE OneHandler'
  BY <1>12, PlaceFrame DEF Release
<1>13. ASSUME NEW t \in Threads, Read(t) PROVE OneHandler'
  BY <1>13, PlaceFrame DEF Read
<1>14. ASSUME NEW t \in Threads, ReadNothing(t) PROVE OneHandler'
  BY <1>14, PlaceFrame DEF ReadNothing
<1>15. ASSUME NEW t \in Threads, LockList(t) PROVE OneHandler'
  BY <1>15, PlaceFrame DEF LockList
<1>16. ASSUME NEW t \in Threads, Search(t) PROVE OneHandler'
  BY <1>16, PlaceFrame DEF Search
<1>17. ASSUME NEW t \in Threads, UpdateUsage(t) PROVE OneHandler'
  BY <1>17, PlaceFrame DEF UpdateUsage
<1>18. ASSUME NEW t \in Threads, UpdateDelay(t) PROVE OneHandler'
  BY <1>18, PlaceFrame DEF UpdateDelay
<1>19. ASSUME NEW t \in Threads, Link(t) PROVE OneHandler'
  BY <1>19, PlaceFrame DEF Link
<1>20. ASSUME NEW t \in Threads, Publish(t) PROVE OneHandler'
  BY <1>20, PlaceFrame DEF Publish
<1>21. ASSUME NEW t \in Threads, UnlockList(t) PROVE OneHandler'
  BY <1>21, PlaceFrame DEF UnlockList
<1> QED
  BY <1>1, <1>2, <1>3, <1>4, <1>5, <1>6, <1>7, <1>8, <1>9, <1>10, <1>11, <1>12, <1>13, <1>14, <1>15, <1>16, <1>17, <1>18, <1>19, <1>20, <1>21 DEF Next, Locking, PoolStep, ListStep

\* The threads on their way to the queue are finitely many.
LEMMA WokenFinite == IsFiniteSet(Woken) /\ Cardinality(Woken) \in Nat
  BY FS_Subset, FS_CardinalityType DEF Woken

\* A signal adds a thread on its way to the queue or is counted as lost; a
\* dequeue takes one thread and one connection away, or one thread that came for
\* nothing.
LEMMA SignalStep ==
  ASSUME TypeOK, SignalsBacked, Next
  PROVE  SignalsBacked'
<1> USE WokenFinite DEF TypeOK, SignalsBacked, Backing, Goto
<1>1. ASSUME NEW w \in Workers, Accept(w) PROVE SignalsBacked'
  <2>1. Woken' = Woken
    BY <1>1 DEF Accept, Woken
  <2> QED
    BY <1>1, <2>1 DEF Accept, server
<1>2. ASSUME NEW w \in Workers, Disconnect(w) PROVE SignalsBacked'
  <2>1. Woken' = Woken
    BY <1>2 DEF Disconnect, Woken
  <2> QED
    BY <1>2, <2>1 DEF Disconnect, server
<1>3. ASSUME ServerLock PROVE SignalsBacked'
  <2>1. Woken' = Woken
    BY <1>3 DEF ServerLock, Woken
  <2> QED
    BY <1>3, <2>1 DEF ServerLock, server
<1>4. ASSUME Enqueue PROVE SignalsBacked'
  <2>1. Len(queue') = Len(queue) + 1 /\ Woken' = Woken
    BY <1>4, AppendProperties DEF Enqueue, Woken
  <2> QED
    BY <1>4, <2>1, LenProperties DEF Enqueue
<1>5. ASSUME Signal PROVE SignalsBacked'
  <2>1. CASE Waiting = {}
    <3>1. Woken' = Woken /\ lost' = lost + 1
      BY <1>5, <2>1 DEF Signal, Woken
    <3> QED
      BY <1>5, <3>1, LenProperties DEF Signal
  <2>2. CASE Waiting # {}
    <3>1. PICK t \in Waiting : pc' = [pc EXCEPT ![t] = "woken"] /\ UNCHANGED lost
      BY <1>5, <2>2 DEF Signal
    <3>2. Woken' = Woken \cup {t} /\ t \notin Woken
      BY <3>1 DEF Woken, Waiting
    <3>3. Cardinality(Woken') = Cardinality(Woken) + 1
      <4>1. Cardinality(Woken \cup {t}) = Cardinality(Woken) + 1
        BY <3>2, FS_AddElement
      <4> QED
        BY <3>2, <4>1
    <3> QED
      BY <1>5, <3>1, <3>3, LenProperties DEF Signal
  <2> QED
    BY <2>1, <2>2
<1>6. ASSUME ServerUnlock PROVE SignalsBacked'
  <2>1. Woken' = Woken
    BY <1>6 DEF ServerUnlock, Woken
  <2> QED
    BY <1>6, <2>1 DEF ServerUnlock, server
<1>7. ASSUME NEW t \in Threads, Lock(t) PROVE SignalsBacked'
  <2>1. Woken' = Woken
    BY <1>7 DEF Lock, Woken
  <2> QED
    BY <1>7, <2>1 DEF Lock, server
<1>8. ASSUME NEW t \in Threads, CondWait(t) PROVE SignalsBacked'
  <2>1. Woken' = Woken
    BY <1>8 DEF CondWait, Woken
  <2> QED
    BY <1>8, <2>1 DEF CondWait, server
<1>9. ASSUME NEW t \in Threads, WakeSpuriously(t) PROVE SignalsBacked'
  <2>1. Woken' = Woken \cup {t} /\ t \notin Woken
    BY <1>9 DEF WakeSpuriously, Woken
  <2>2. Cardinality(Woken') = Cardinality(Woken) + 1
    BY <2>1, FS_AddElement
  <2> QED
    BY <1>9, <2>2, LenProperties DEF WakeSpuriously, server
<1>10. ASSUME NEW t \in Threads, Relock(t) PROVE SignalsBacked'
  <2>1. Woken' = Woken
    BY <1>10 DEF Relock, Woken
  <2> QED
    BY <1>10, <2>1 DEF Relock, server
<1>11. ASSUME NEW t \in Threads, Dequeue(t) PROVE SignalsBacked'
  <2>1. t \in Woken /\ Woken' = Woken \ {t}
    BY <1>11 DEF Dequeue, Woken
  <2>2. Cardinality(Woken') = Cardinality(Woken) - 1
    BY <2>1, FS_RemoveElement
  <2>3. Cardinality(Woken') \in Nat /\ Len(queue) \in Nat /\ (queue = <<>> => Len(queue) = 0)
    BY <2>1, <2>2, FS_EmptySet, LenProperties
  <2>4. lost' = lost /\ spc' = spc
    BY <1>11 DEF Dequeue, server
  <2>5. CASE queue = <<>> /\ UNCHANGED queue
    BY <2>2, <2>3, <2>4, <2>5
  <2>6. CASE queue # <<>> /\ queue' = Tail(queue)
    <3>1. Len(queue') = Len(queue) - 1
      BY <2>6, HeadTailProperties
    <3> QED
      BY <2>2, <2>3, <2>4, <3>1
  <2> QED
    BY <1>11, <2>5, <2>6 DEF Dequeue
<1>12. ASSUME NEW t \in Threads, Release(t) PROVE SignalsBacked'
  <2>1. Woken' = Woken
    BY <1>12 DEF Release, Woken
  <2> QED
    BY <1>12, <2>1 DEF Release, server
<1>13. ASSUME NEW t \in Threads, Read(t) PROVE SignalsBacked'
  <2>1. Woken' = Woken
    BY <1>13 DEF Read, Woken
  <2> QED
    BY <1>13, <2>1 DEF Read, server
<1>14. ASSUME NEW t \in Threads, ReadNothing(t) PROVE SignalsBacked'
  <2>1. Woken' = Woken
    BY <1>14 DEF ReadNothing, Woken
  <2> QED
    BY <1>14, <2>1 DEF ReadNothing, server
<1>15. ASSUME NEW t \in Threads, LockList(t) PROVE SignalsBacked'
  <2>1. Woken' = Woken
    BY <1>15 DEF LockList, Woken
  <2> QED
    BY <1>15, <2>1 DEF LockList, server
<1>16. ASSUME NEW t \in Threads, Search(t) PROVE SignalsBacked'
  <2>1. Woken' = Woken
    BY <1>16 DEF Search, Woken
  <2> QED
    BY <1>16, <2>1 DEF Search, server
<1>17. ASSUME NEW t \in Threads, UpdateUsage(t) PROVE SignalsBacked'
  <2>1. Woken' = Woken
    BY <1>17 DEF UpdateUsage, Woken
  <2> QED
    BY <1>17, <2>1 DEF UpdateUsage, server
<1>18. ASSUME NEW t \in Threads, UpdateDelay(t) PROVE SignalsBacked'
  <2>1. Woken' = Woken
    BY <1>18 DEF UpdateDelay, Woken
  <2> QED
    BY <1>18, <2>1 DEF UpdateDelay, server
<1>19. ASSUME NEW t \in Threads, Link(t) PROVE SignalsBacked'
  <2>1. Woken' = Woken
    BY <1>19 DEF Link, Woken
  <2> QED
    BY <1>19, <2>1 DEF Link, server
<1>20. ASSUME NEW t \in Threads, Publish(t) PROVE SignalsBacked'
  <2>1. Woken' = Woken
    BY <1>20 DEF Publish, Woken
  <2> QED
    BY <1>20, <2>1 DEF Publish, server
<1>21. ASSUME NEW t \in Threads, UnlockList(t) PROVE SignalsBacked'
  <2>1. Woken' = Woken
    BY <1>21 DEF UnlockList, Woken
  <2> QED
    BY <1>21, <2>1 DEF UnlockList, server
<1> QED
  BY <1>1, <1>2, <1>3, <1>4, <1>5, <1>6, <1>7, <1>8, <1>9, <1>10, <1>11, <1>12, <1>13, <1>14, <1>15, <1>16, <1>17, <1>18, <1>19, <1>20, <1>21 DEF Next, Locking, PoolStep, ListStep

-------------------------------------------------------------------------------
(* The metadata list. *)

ListOK == ListSound /\ NoNodeLost /\ SearchOK
InList == {"search", "usage", "delay", "link", "publish"}

\* The links are a list as Lists has it.
LEMMA ListTypes ==
  ASSUME TypeOK
  PROVE  /\ NULL \notin Uuids
         /\ mnext \in [Uuids -> Uuids \cup {NULL}] /\ mhead \in Uuids \cup {NULL}
         /\ Reachable \subseteq Uuids /\ ClosedUnder(Reachable, mhead, mnext, NULL)
<1>1. NULL \notin Uuids /\ mnext \in [Uuids -> Uuids \cup {NULL}] /\ mhead \in Uuids \cup {NULL}
  BY DEF TypeOK
<1> QED
  BY <1>1, OnListClosed DEF Reachable

\* A step outside the list's code changes nothing of it.
LEMMA ListFrame ==
  ASSUME ListOK, UNCHANGED nodes,
         \A t \in Threads : pc'[t] \in InList =>
           pc'[t] = pc[t] /\ msg'[t] = msg[t] /\ current'[t] = current[t],
         \A t \in Threads : pc[t] = "publish" => pc'[t] = "publish"
  PROVE  ListOK' /\ Reachable' = Reachable
<1>1. Reachable' = Reachable
  BY DEF Reachable, nodes
<1>2. ListSound'
  BY <1>1 DEF ListOK, ListSound, nodes
<1>3. NoNodeLost'
  BY <1>1 DEF ListOK, NoNodeLost, nodes, InList
<1>4. SearchOK'
  <2>1. SUFFICES ASSUME NEW t \in Threads, pc'[t] \in InList
                 PROVE  SearchAt(t)'
    BY DEF SearchOK, SearchAt, InList
  <2> QED
    BY <1>1, <2>1 DEF ListOK, SearchOK, SearchAt, nodes, InList
<1> QED
  BY <1>1, <1>2, <1>3, <1>4 DEF ListOK

\* Nobody else is in the list's code while a thread is.
LEMMA OthersOutside ==
  ASSUME TypeOK, MutexOK, NEW t \in Threads, pc[t] \in InList
  PROVE  \A u \in Threads \ {t} : pc[u] \notin InList
BY DEF MutexOK, ThreadInside, InList, TypeOK

LEMMA SearchFromOne ==
  ASSUME NEW t \in Threads, SearchAt(t)', \A u \in Threads \ {t} : pc'[u] \notin InList
  PROVE  SearchOK'
BY DEF SearchAt, SearchOK, InList

\* The search moves from node to node and leaves the list alone.
LEMMA SearchStep ==
  ASSUME TypeOK, MutexOK, LocalsOK, ListOK, NEW t \in Threads, Search(t)
  PROVE  ListOK' /\ Reachable' = Reachable
<1> USE ListTypes DEF Search, nodes, Goto
<1>1. Reachable' = Reachable /\ UNCHANGED <<nodes, msg>>
  BY DEF Reachable
<1>2. pc \in [Threads -> ThreadPoints] /\ current \in [Threads -> Uuids \cup {NULL}]
  BY DEF TypeOK
<1>3. /\ current[t] \in Reachable \cup {NULL}
      /\ msg[t].uuid \in Reachable => msg[t].uuid \in OnList(current[t], mnext, NULL)
  BY DEF ListOK, SearchOK, SearchAt
<1>4. ListSound'
  BY <1>1 DEF ListOK, ListSound
<1>5. NoNodeLost'
  <2>1. \A u \in Threads : pc[u] = "publish" => pc'[u] = "publish"
    BY <1>2
  <2> QED
    BY <1>1, <2>1 DEF ListOK, NoNodeLost
<1>6. SearchOK'
  <2>1. \A u \in Threads \ {t} : pc'[u] \notin InList
    BY <1>2, OthersOutside DEF InList
  <2>2. SearchAt(t)'
    <3>1. CASE current[t] = NULL
      <4>1. OnList(current[t], mnext, NULL) = {}
        BY <3>1, OnListEnd
      <4> QED
        BY <1>1, <1>2, <1>3, <3>1, <4>1 DEF SearchAt
    <3>2. CASE current[t] = msg[t].uuid /\ current[t] # NULL
      BY <1>1, <1>2, <1>3, <3>2 DEF SearchAt
    <3>3. CASE current[t] \notin {NULL, msg[t].uuid}
      <4>1. current[t] \in Reachable /\ current'[t] = mnext[current[t]] /\ pc'[t] = "search"
        BY <1>2, <1>3, <3>3
      <4>2. OnList(current[t], mnext, NULL) = {current[t]} \cup OnList(mnext[current[t]], mnext, NULL)
        BY <4>1, OnListStep
      <4>3. mnext[current[t]] \in Reachable \cup {NULL}
        BY <4>1 DEF ClosedUnder
      <4> QED
        BY <1>1, <1>3, <3>3, <4>1, <4>2, <4>3 DEF SearchAt
    <3> QED
      BY <3>1, <3>2, <3>3
  <2> QED
    BY <2>1, <2>2, SearchFromOne
<1> QED
  BY <1>1, <1>4, <1>5, <1>6 DEF ListOK

\* An update fills in fields of a node that is on the list.
LEMMA UpdateStep ==
  ASSUME TypeOK, MutexOK, LocalsOK, ListOK, NEW t \in Threads, UpdateUsage(t) \/ UpdateDelay(t)
  PROVE  ListOK' /\ Reachable' = Reachable
<1> USE DEF UpdateUsage, UpdateDelay, Goto
<1>1. Reachable' = Reachable /\ UNCHANGED <<mhead, mnext, msg, current>>
  BY DEF Reachable
<1>2. /\ pc \in [Threads -> ThreadPoints]
      /\ usage \in [Uuids -> Versions \cup {NULL}] /\ delay \in [Uuids -> Versions \cup {NULL}]
  BY DEF TypeOK
<1>3. current[t] \in Reachable /\ msg[t].version # NULL
  BY DEF ListOK, SearchOK, SearchAt, LocalsOK, TypeOK, Metadata
<1>4. \A u \in Uuids : /\ usage[u] # NULL => usage'[u] # NULL
                       /\ delay[u] # NULL => delay'[u] # NULL
                       /\ usage'[u] # NULL => usage[u] # NULL \/ u \in Reachable
  BY <1>2, <1>3
<1>5. ListSound'
  BY <1>1, <1>4, ListTypes DEF ListOK, ListSound
<1>6. \A u \in Threads : pc[u] = "publish" => pc'[u] = "publish"
  BY <1>2
<1>7. NoNodeLost'
  BY <1>1, <1>4, <1>6 DEF ListOK, NoNodeLost
<1>8. SearchOK'
  <2>1. \A u \in Threads \ {t} : pc'[u] \notin InList
    BY <1>2, OthersOutside DEF InList
  <2>2. SearchAt(t)'
    BY <1>1, <1>2, <1>3 DEF SearchAt
  <2> QED
    BY <2>1, <2>2, SearchFromOne
<1> QED
  BY <1>1, <1>5, <1>7, <1>8 DEF ListOK

\* A new node is filled in and linked while nobody can meet it.
LEMMA LinkStep ==
  ASSUME TypeOK, MutexOK, LocalsOK, ListOK, NEW t \in Threads, Link(t)
  PROVE  ListOK' /\ Reachable' = Reachable
<1> USE DEF Link, Goto
<1> DEFINE u == msg[t].uuid
<1>1. /\ pc \in [Threads -> ThreadPoints] /\ u \in Uuids \ Reachable
      /\ msg[t].version \in Versions /\ msg[t].version # NULL
  BY DEF ListOK, SearchOK, SearchAt, LocalsOK, TypeOK, Metadata
<1>2. /\ usage' = [usage EXCEPT ![u] = msg[t].version] /\ usage \in [Uuids -> Versions \cup {NULL}]
      /\ delay' = [delay EXCEPT ![u] = msg[t].version] /\ delay \in [Uuids -> Versions \cup {NULL}]
      /\ mnext' = [mnext EXCEPT ![u] = mhead]
      /\ UNCHANGED <<mhead, msg, current>> /\ pc' = [pc EXCEPT ![t] = "publish"]
  BY DEF TypeOK
<1> HIDE DEF Link
<1>3. /\ Reachable' = Reachable
      /\ ComesToEnd(mhead, mnext, NULL) => ComesToEnd(mhead, mnext', NULL)
  <2>1. mnext' \in [Uuids -> Uuids \cup {NULL}] /\ \A v \in Reachable : mnext'[v] = mnext[v]
    BY <1>1, <1>2, ListTypes
  <2>2. /\ OnList(mhead, mnext', NULL) = OnList(mhead, mnext, NULL)
        /\ ComesToEnd(mhead, mnext, NULL) => ComesToEnd(mhead, mnext', NULL)
    BY <2>1, ListTypes, OnListFrame DEF Reachable
  <2> QED
    BY <1>2, <2>2 DEF Reachable
<1>4. \A v \in Uuids : v # u => usage'[v] = usage[v] /\ delay'[v] = delay[v]
  BY <1>2
<1>5. ListSound'
  BY <1>1, <1>2, <1>3, <1>4, ListTypes DEF ListOK, ListSound
<1>6. NoNodeLost'
  <2>1. pc'[t] = "publish" /\ msg'[t].uuid = u
    BY <1>1, <1>2
  <2>2. \A v \in Threads \ {t} : pc[v] # "publish"
    BY OthersOutside DEF InList, Link
  <2>3. pc[t] = "link"
    BY DEF Link
  <2> QED
    BY <1>3, <1>4, <2>1, <2>2, <2>3 DEF ListOK, NoNodeLost
<1>7. SearchOK'
  <2>1. \A v \in Threads \ {t} : pc'[v] \notin InList
    BY <1>1, <1>2, OthersOutside DEF InList, Link
  <2>2. mnext'[u] = mhead /\ usage'[u] # NULL /\ delay'[u] # NULL /\ pc'[t] = "publish"
    BY <1>1, <1>2, ListTypes
  <2>3. SearchAt(t)'
    BY <1>1, <1>2, <1>3, <2>2 DEF SearchAt
  <2> QED
    BY <2>1, <2>3, SearchFromOne
<1> QED
  BY <1>3, <1>5, <1>6, <1>7 DEF ListOK

\* Publishing it puts it on the list, in front of all others.
LEMMA PublishStep ==
  ASSUME TypeOK, MutexOK, LocalsOK, ListOK, NEW t \in Threads, Publish(t)
  PROVE  ListOK' /\ Reachable' = {msg[t].uuid} \cup Reachable
<1> USE DEF Publish, Goto
<1> DEFINE u == msg[t].uuid
<1>1. /\ pc \in [Threads -> ThreadPoints] /\ u \in Uuids \ Reachable
      /\ mnext[u] = mhead /\ usage[u] # NULL /\ delay[u] # NULL
  BY DEF ListOK, SearchOK, SearchAt, LocalsOK, TypeOK, Metadata
<1>2. mhead' = u /\ UNCHANGED <<mnext, usage, delay, msg, current>> /\ pc' = [pc EXCEPT ![t] = "unlock"]
  OBVIOUS
<1>3. /\ Reachable' = {u} \cup Reachable
      /\ ComesToEnd(mhead, mnext, NULL) => ComesToEnd(u, mnext, NULL)
  BY <1>1, <1>2, ListTypes, OnListPush DEF Reachable
<1>4. ListSound'
  BY <1>1, <1>2, <1>3 DEF ListOK, ListSound
<1>5. NoNodeLost'
  <2>1. \A v \in Threads \ {t} : pc[v] # "publish"
    BY OthersOutside DEF InList
  <2> QED
    BY <1>2, <1>3, <2>1 DEF ListOK, NoNodeLost
<1>6. SearchOK'
  <2>1. \A v \in Threads : pc'[v] \notin InList
    BY <1>1, OthersOutside DEF InList
  <2> QED
    BY <2>1 DEF SearchOK, SearchAt, InList
<1> QED
  BY <1>3, <1>4, <1>5, <1>6 DEF ListOK

\* Every step keeps the list sound, and no step takes a node off it.
LEMMA ListKept ==
  ASSUME TypeOK, MutexOK, LocalsOK, ListOK, Next
  PROVE  ListOK' /\ Reachable \subseteq Reachable'
<1>1. pc \in [Threads -> ThreadPoints]
  BY DEF TypeOK
<1>2. ASSUME NEW w \in Workers, Accept(w) \/ Disconnect(w) PROVE ListOK' /\ Reachable' = Reachable
  BY <1>2, ListFrame DEF Accept, Disconnect
<1>3. ASSUME ServerLock \/ Enqueue \/ Signal \/ ServerUnlock PROVE ListOK' /\ Reachable' = Reachable
  <2>1. \A t \in Threads : pc'[t] = pc[t] \/ (pc[t] = "waiting" /\ pc'[t] = "woken")
    BY <1>1, <1>3 DEF ServerLock, Enqueue, Signal, ServerUnlock, Waiting
  <2> QED
    BY <1>3, <2>1, ListFrame DEF ServerLock, Enqueue, Signal, ServerUnlock, InList
<1>4. ASSUME NEW t \in Threads,
             \/ Lock(t) \/ CondWait(t) \/ WakeSpuriously(t) \/ Relock(t) \/ Dequeue(t)
             \/ Release(t) \/ UnlockList(t) \/ Read(t) \/ ReadNothing(t)
      PROVE  ListOK' /\ Reachable' = Reachable
  <2>1. pc[t] # "publish" /\ pc'[t] \notin InList
    BY <1>1, <1>4 DEF Lock, CondWait, WakeSpuriously, Relock, Dequeue, Release, UnlockList,
                      Read, ReadNothing, InList, Goto
  <2>2. UNCHANGED nodes
    BY <1>4 DEF Lock, CondWait, WakeSpuriously, Relock, Dequeue, Release, UnlockList,
                Read, ReadNothing
  <2>3. ASSUME NEW u \in Threads, u # t
        PROVE  pc'[u] = pc[u] /\ msg'[u] = msg[u] /\ current'[u] = current[u]
    BY <1>1, <1>4, <2>3 DEF Lock, CondWait, WakeSpuriously, Relock, Dequeue, Release, UnlockList,
                      Read, ReadNothing, Goto, TypeOK
  <2> QED
    BY <2>1, <2>2, <2>3, ListFrame
<1>5. ASSUME NEW t \in Threads, LockList(t) PROVE ListOK' /\ Reachable' = Reachable
  <2>1. Reachable' = Reachable /\ UNCHANGED <<nodes, msg>>
    BY <1>5 DEF LockList, Reachable, nodes
  <2>2. pc' = [pc EXCEPT ![t] = "search"] /\ pc[t] = "lock" /\ current'[t] = mhead /\ mutex = NULL
    BY <1>5 DEF LockList, Goto, TypeOK
  <2>3. \A u \in Threads \ {t} : pc'[u] \notin InList
    BY <1>1, <2>2 DEF MutexOK, ThreadInside, InList
  <2>4. SearchAt(t)'
    BY <1>1, <2>1, <2>2, ListTypes DEF SearchAt, Reachable, nodes, ClosedUnder
  <2>5. ListSound' /\ NoNodeLost'
    BY <1>1, <2>1, <2>2 DEF ListOK, ListSound, NoNodeLost, nodes
  <2> QED
    BY <2>1, <2>3, <2>4, <2>5, SearchFromOne DEF ListOK
<1> QED
  BY <1>2, <1>3, <1>4, <1>5, SearchStep, UpdateStep, LinkStep, PublishStep
  DEF Next, Locking, PoolStep, ListStep

-------------------------------------------------------------------------------
\* In the initial state nothing is queued and nobody is inside.
LEMMA InitInv == Init => PoolInv
<1> SUFFICES ASSUME Init PROVE PoolInv
  OBVIOUS
<1> USE DEF Init
<1>1. TypeOK
  BY DEF TypeOK, ServerPoints, ThreadPoints
<1>2. MutexOK /\ LocalsOK /\ RowsOK
  BY DEF MutexOK, LocalsOK, RowsOK, ServerInside, ThreadInside
<1>3. OneHandler
  <2>1. Queued = {} /\ Handled = {}
    BY DEF Queued, Handled
  <2> QED
    BY <2>1 DEF OneHandler
<1>4. SignalsBacked
  <2>1. Woken = {}
    BY DEF Woken
  <2> QED
    BY <2>1, FS_EmptySet DEF SignalsBacked, Backing
<1>5. ListSound /\ NoNodeLost /\ SearchOK
  <2>1. Reachable = {}
    BY OnListEnd DEF Reachable
  <2> QED
    BY <2>1 DEF ListSound, NoNodeLost, SearchOK, SearchAt, ComesToEnd, Reachable
<1> QED
  BY <1>1, <1>2, <1>3, <1>4, <1>5 DEF PoolInv

\* The invariant of the pool and of the list's rows is inductive.
THEOREM PoolInvariance == Spec => []PoolInv
<1>1. ASSUME PoolInv, [Next]_vars PROVE PoolInv'
  <2>1. CASE Next
    <3> USE <1>1, <2>1 DEF PoolInv
    <3>1. TypeOK' /\ LocalsOK'
      BY TypeStep
    <3>2. MutexOK'
      BY MutexStep
    <3>3. OneHandler'
      BY PlaceStep
    <3>4. SignalsBacked'
      BY SignalStep
    <3>5. RowsOK'
      BY RowsStep
    <3>6. ListOK'
      BY ListKept DEF ListOK
    <3> QED
      BY <3>1, <3>2, <3>3, <3>4, <3>5, <3>6 DEF ListOK
  <2>2. CASE UNCHANGED vars
    <3> USE <2>2 DEF vars
    <3>1. TypeOK => TypeOK'
      BY DEF TypeOK
    <3>2. MutexOK /\ LocalsOK /\ RowsOK => MutexOK' /\ LocalsOK' /\ RowsOK'
      BY DEF MutexOK, LocalsOK, RowsOK
    <3>3. OneHandler => OneHandler'
      BY PlaceFrame DEF server
    <3>4. SignalsBacked => SignalsBacked'
      BY DEF SignalsBacked, Backing, Woken
    <3>5. ListOK => ListOK'
      BY ListFrame DEF nodes, InList
    <3> QED
      BY <1>1, <3>1, <3>2, <3>3, <3>4, <3>5 DEF PoolInv, ListOK
  <2> QED
    BY <1>1, <2>1, <2>2
<1> QED
  BY <1>1, InitInv, PTL DEF Spec

\* A worker's connection is with the server, queued once, or with one handler
\* that keeps it (master_utils.c 102-107, 197-200).
THEOREM ConnectionsHaveOneHandler == Spec => []OneHandler
<1>1. PoolInv => OneHandler
  BY DEF PoolInv
<1> QED
  BY <1>1, PoolInvariance, PTL

\* Every queued connection is answered by a woken thread or was stranded by a
\* signal nobody waited for (master_utils.c 102, 199).
THEOREM SignalsAreBacked == Spec => []SignalsBacked
<1>1. PoolInv => SignalsBacked
  BY DEF PoolInv
<1> QED
  BY <1>1, PoolInvariance, PTL

\* worker_pool_mutex keeps the two stores of a node's update together.
THEOREM RowsAreWhole == Spec => []RowsWhole
<1>1. PoolInv => RowsWhole
  BY DEF PoolInv, MutexOK, RowsOK, RowsWhole, ThreadInside, TypeOK
<1> QED
  BY <1>1, PoolInvariance, PTL

\* Whoever follows the list comes to its end and meets only nodes that are filled in:
\* add_to_list publishes a node after it is complete (metadata_utils.c 291-306), so
\* select_worker may read without the mutex.
THEOREM ListIsSound == Spec => []ListSound
<1>1. PoolInv => ListSound
  BY DEF PoolInv
<1> QED
  BY <1>1, PoolInvariance, PTL

\* Two handlers that insert at the same time do not lose each other's node.
THEOREM InsertionsAreKept == Spec => []NoNodeLost
<1>1. PoolInv => NoNodeLost
  BY DEF PoolInv
<1> QED
  BY <1>1, PoolInvariance, PTL

\* A node stays on the list for ever, also when its worker is gone.
THEOREM ListedForGood == Spec => NodesStay
<1>1. PoolInv /\ [Next]_vars => [Reachable \subseteq Reachable']_vars
  BY ListKept DEF PoolInv, ListOK
<1> QED
  BY <1>1, PoolInvariance, PTL DEF Spec, NodesStay

-------------------------------------------------------------------------------
(* The refinement of MetadataList. *)

\* The update in progress is that of the thread between its two stores.
LEMMA RefreshingIs ==
  ASSUME TypeOK, MutexOK
  PROVE  /\ \A t \in Threads : pc[t] = "delay" =>
              Refreshing = [worker |-> current[t], delay |-> msg[t].version]
         /\ (\A t \in Threads : pc[t] # "delay") => Refreshing = NULL
BY DEF MutexOK, ThreadInside, Refreshing

\* A step that fills in nobody's second field, and no row of the list, is a stutter.
LEMMA RowsFrame ==
  ASSUME TypeOK, MutexOK, TypeOK', MutexOK',
         \A t \in Threads : pc'[t] = "delay" <=> pc[t] = "delay",
         \A t \in Threads : pc[t] = "delay" => current'[t] = current[t] /\ msg'[t] = msg[t],
         mhead' = mhead, Reachable' = Reachable,
         \A u \in Reachable : mnext'[u] = mnext[u] /\ usage'[u] = usage[u] /\ delay'[u] = delay[u]
  PROVE  UNCHANGED M!vars
<1>1. Rows' = Rows
  BY DEF Rows
<1>2. Refreshing' = Refreshing
  <2>1. CASE \A t \in Threads : pc[t] # "delay"
    <3>1. Refreshing = NULL
      BY <2>1, RefreshingIs
    <3>2. \A t \in Threads : pc'[t] # "delay"
      BY <2>1
    <3>3. Refreshing' = NULL
      BY <3>2 DEF Refreshing
    <3> QED
      BY <3>1, <3>3
  <2>2. ASSUME NEW t \in Threads, pc[t] = "delay" PROVE Refreshing' = Refreshing
    <3>1. Refreshing = [worker |-> current[t], delay |-> msg[t].version]
      BY <2>2, RefreshingIs
    <3>2. mutex' = t /\ pc'[t] = "delay"
      BY <2>2 DEF MutexOK, ThreadInside
    <3>3. Refreshing' = [worker |-> current'[t], delay |-> msg'[t].version]
      BY <3>2 DEF Refreshing
    <3> QED
      BY <2>2, <3>1, <3>3
  <2> QED
    BY <2>1, <2>2
<1> QED
  BY <1>1, <1>2 DEF M!vars

\* No thread is between the two stores of an update while another is in the list.
LEMMA NotRefreshing ==
  ASSUME TypeOK, MutexOK, NEW t \in Threads, pc[t] \in ThreadInside \ {"delay"}
  PROVE  Refreshing = NULL
BY DEF MutexOK, Refreshing

LEMMA UpdateUsageRefines ==
  ASSUME PoolInv, PoolInv', NEW t \in Threads, UpdateUsage(t)
  PROVE  M!RefreshUsage(current[t], msg[t].version, msg[t].version)
<1> USE DEF PoolInv
<1> DEFINE c == current[t]
           v == msg[t].version
<1>1. /\ pc[t] = "usage" /\ pc' = [pc EXCEPT ![t] = "delay"] /\ usage' = [usage EXCEPT ![c] = v]
      /\ UNCHANGED <<mutex, msg, current, mhead, mnext, delay>>
  BY DEF UpdateUsage, Goto
<1>2. c \in Reachable /\ usage \in [Uuids -> Versions \cup {NULL}] /\ Reachable \subseteq Uuids
  BY <1>1, ListTypes DEF SearchOK, SearchAt, LocalsOK, TypeOK
<1>3. Reachable' = Reachable
  BY UpdateStep DEF ListOK
<1>4. Refreshing = NULL
  BY <1>1, NotRefreshing DEF ThreadInside
<1>5. pc'[t] = "delay" /\ mutex' = t
  BY <1>1 DEF MutexOK, ThreadInside, TypeOK
<1>6. Refreshing' = [worker |-> c, delay |-> v]
  BY <1>1, <1>5 DEF Refreshing
<1>7. Rows' = [Rows EXCEPT ![c] = [@ EXCEPT !.usage = v]]
  BY <1>1, <1>2, <1>3 DEF Rows
<1>8. c \in DOMAIN Rows
  BY <1>2 DEF Rows
<1> QED
  BY <1>1, <1>4, <1>6, <1>7, <1>8 DEF M!RefreshUsage

LEMMA UpdateDelayRefines ==
  ASSUME PoolInv, PoolInv', NEW t \in Threads, UpdateDelay(t)
  PROVE  M!RefreshDelay
<1> USE DEF PoolInv
<1> DEFINE c == current[t]
           v == msg[t].version
<1>1. /\ pc[t] = "delay" /\ pc' = [pc EXCEPT ![t] = "unlock"] /\ delay' = [delay EXCEPT ![c] = v]
      /\ UNCHANGED <<mutex, msg, current, mhead, mnext, usage>>
  BY DEF UpdateDelay, Goto
<1>2. c \in Reachable /\ delay \in [Uuids -> Versions \cup {NULL}] /\ Reachable \subseteq Uuids
  BY <1>1, ListTypes DEF SearchOK, SearchAt, LocalsOK, TypeOK
<1>3. Reachable' = Reachable
  BY UpdateStep DEF ListOK
<1>4. Refreshing = [worker |-> c, delay |-> v]
  BY <1>1, RefreshingIs
<1>5. pc'[t] = "unlock" /\ mutex' = t
  BY <1>1 DEF MutexOK, ThreadInside, TypeOK
<1>6. Refreshing' = NULL
  BY <1>5 DEF Refreshing
<1>7. Rows' = [Rows EXCEPT ![c] = [@ EXCEPT !.delay = v]]
  BY <1>1, <1>2, <1>3 DEF Rows
<1>8. Refreshing # NULL
  <2>1. c \in Uuids
    BY <1>2
  <2>2. v \in Versions
    BY <1>1 DEF LocalsOK, TypeOK, Metadata
  <2>3. Refreshing \in Updates
    BY <1>4, <2>1, <2>2 DEF Updates
  <2> QED
    BY <2>3
<1> QED
  BY <1>1, <1>4, <1>6, <1>7, <1>8 DEF M!RefreshDelay

LEMMA PublishRefines ==
  ASSUME PoolInv, PoolInv', NEW t \in Threads, Publish(t)
  PROVE  M!Register(msg[t].uuid, usage[msg[t].uuid], delay[msg[t].uuid])
<1> USE DEF PoolInv
<1> DEFINE u == msg[t].uuid
<1>1. /\ pc[t] = "publish" /\ pc' = [pc EXCEPT ![t] = "unlock"] /\ mhead' = u
      /\ UNCHANGED <<mutex, mnext, usage, delay>>
  BY DEF Publish, Goto
<1>2. u \notin Reachable /\ mnext[u] = mhead
  BY <1>1 DEF SearchOK, SearchAt
<1>3. Reachable' = {u} \cup Reachable
  BY PublishStep DEF ListOK
<1>4. Refreshing = NULL
  BY <1>1, NotRefreshing DEF ThreadInside
<1>5. pc'[t] = "unlock" /\ mutex' = t
  BY <1>1 DEF MutexOK, ThreadInside, TypeOK
<1>6. Refreshing' = NULL
  BY <1>5 DEF Refreshing
<1>7. DOMAIN Rows = Reachable
  BY DEF Rows
<1>8. Rows' = [x \in Reachable \cup {u} |->
                 IF x = u THEN [next |-> mhead, usage |-> usage[u], delay |-> delay[u]] ELSE Rows[x]]
  BY <1>1, <1>2, <1>3 DEF Rows
<1> QED
  BY <1>1, <1>2, <1>4, <1>6, <1>7, <1>8 DEF M!Register

\* Every step of the pool is one of the list's, or leaves the list as it is.
LEMMA ListRefines ==
  ASSUME PoolInv, PoolInv', [Next]_vars
  PROVE  [M!Next]_(M!vars)
<1> USE DEF PoolInv
<1>0. pc \in [Threads -> ThreadPoints] /\ TypeOK' /\ MutexOK'
  BY DEF TypeOK
<1>1. ASSUME NEW t \in Threads, UpdateUsage(t) PROVE M!Next
  <2>1. current[t] \in Uuids /\ msg[t].version \in Versions
    BY <1>1 DEF UpdateUsage, LocalsOK, TypeOK, Metadata
  <2> QED
    BY <1>1, <2>1, UpdateUsageRefines DEF M!Next
<1>2. ASSUME NEW t \in Threads, UpdateDelay(t) PROVE M!Next
  BY <1>2, UpdateDelayRefines DEF M!Next
<1>3. ASSUME NEW t \in Threads, Publish(t) PROVE M!Next
  <2>1. msg[t].uuid \in Uuids
    BY <1>3 DEF Publish, LocalsOK, TypeOK, Metadata
  <2>2. usage[msg[t].uuid] \in Versions /\ delay[msg[t].uuid] \in Versions
    BY <1>3, <2>1 DEF Publish, SearchOK, SearchAt, TypeOK
  <2> QED
    BY <1>3, <2>1, <2>2, PublishRefines DEF M!Next
<1>4. ASSUME NEW t \in Threads, Link(t) PROVE UNCHANGED M!vars
  <2>1. /\ Reachable' = Reachable /\ msg[t].uuid \notin Reachable /\ Reachable \subseteq Uuids
        /\ msg[t].uuid \in Uuids
    <3>1. Reachable' = Reachable
      BY <1>4, LinkStep DEF ListOK
    <3>2. msg[t].uuid \notin Reachable
      BY <1>4 DEF Link, SearchOK, SearchAt
    <3>3. msg[t].uuid \in Uuids
      BY <1>4 DEF Link, LocalsOK, TypeOK, Metadata
    <3> QED
      BY <3>1, <3>2, <3>3, ListTypes
  <2>2. /\ pc[t] = "link" /\ pc' = [pc EXCEPT ![t] = "publish"] /\ UNCHANGED <<mhead, msg, current>>
        /\ \A u \in Reachable : mnext'[u] = mnext[u] /\ usage'[u] = usage[u] /\ delay'[u] = delay[u]
    BY <1>4, <2>1 DEF Link, Goto, TypeOK
  <2> QED
    BY <1>0, <2>1, <2>2, RowsFrame
<1>5. ASSUME UNCHANGED nodes,
             \A t \in Threads : pc'[t] = "delay" <=> pc[t] = "delay",
             \A t \in Threads : pc[t] = "delay" => current'[t] = current[t] /\ msg'[t] = msg[t]
      PROVE  UNCHANGED M!vars
  <2>1. Reachable' = Reachable
    BY <1>5 DEF nodes, Reachable
  <2> QED
    BY <1>0, <1>5, <2>1, RowsFrame DEF nodes
<1>6. ASSUME NEW w \in Workers, Accept(w) \/ Disconnect(w) PROVE UNCHANGED M!vars
  BY <1>5, <1>6 DEF Accept, Disconnect
<1>7. ASSUME ServerLock \/ Enqueue \/ Signal \/ ServerUnlock PROVE UNCHANGED M!vars
  <2>1. \A t \in Threads : pc'[t] = pc[t] \/ (pc[t] = "waiting" /\ pc'[t] = "woken")
    BY <1>0, <1>7 DEF ServerLock, Enqueue, Signal, ServerUnlock, Waiting
  <2>2. UNCHANGED <<nodes, msg, current>>
    BY <1>7 DEF ServerLock, Enqueue, Signal, ServerUnlock
  <2> QED
    BY <1>5, <2>1, <2>2
<1>8. ASSUME NEW t \in Threads,
             \/ Lock(t) \/ CondWait(t) \/ WakeSpuriously(t) \/ Relock(t) \/ Dequeue(t) \/ Release(t)
             \/ Read(t) \/ ReadNothing(t) \/ LockList(t) \/ Search(t) \/ UnlockList(t)
      PROVE  UNCHANGED M!vars
  <2>1. UNCHANGED nodes /\ pc[t] # "delay" /\ pc'[t] # "delay"
    <3>1. CASE Lock(t) \/ CondWait(t) \/ WakeSpuriously(t) \/ Relock(t) \/ Dequeue(t) \/ Release(t)
      BY <1>0, <3>1 DEF Lock, CondWait, WakeSpuriously, Relock, Dequeue, Release, Goto
    <3>2. CASE Read(t) \/ ReadNothing(t) \/ LockList(t) \/ Search(t) \/ UnlockList(t)
      BY <1>0, <3>2 DEF Read, ReadNothing, LockList, Search, UnlockList, Goto
    <3> QED
      BY <1>8, <3>1, <3>2
  <2>2. ASSUME NEW u \in Threads, u # t
        PROVE  pc'[u] = pc[u] /\ msg'[u] = msg[u] /\ current'[u] = current[u]
    BY <1>8, <2>2 DEF Lock, CondWait, WakeSpuriously, Relock, Dequeue, Release, Read, ReadNothing,
                      LockList, Search, UnlockList, Goto, TypeOK
  <2> QED
    BY <1>5, <2>1, <2>2
<1>9. CASE UNCHANGED vars
  BY <1>5, <1>9 DEF vars, nodes
<1> QED
  BY <1>1, <1>2, <1>3, <1>4, <1>6, <1>7, <1>8, <1>9 DEF Next, Locking, PoolStep, ListStep

\* The handlers' stores are, together, what MetadataList promises whoever reads the list
\* without worker_pool_mutex (add_to_list, metadata_utils.c 278-307): nodes appear whole
\* and in front, fields of a known node change one by one and one update after the other.
THEOREM ListIsServed == Spec => ListSpec
<1>1. Init => M!Init
  <2> SUFFICES ASSUME Init PROVE M!Init
    OBVIOUS
  <2>1. Reachable = {}
    <3>1. mnext \in [Uuids -> Uuids \cup {NULL}] /\ mhead = NULL
      BY DEF Init
    <3> QED
      BY <3>1, OnListEnd DEF Reachable
  <2>2. Refreshing = NULL
    BY DEF Init, Refreshing
  <2>3. Rows = [w \in {} |-> NULL]
    BY <2>1 DEF Rows
  <2> QED
    BY <2>2, <2>3 DEF Init, M!Init
<1> QED
  BY <1>1, PoolInvariance, ListRefines, PTL DEF Spec, ListSpec, M!Spec
===============================================================================
