--------------------------- MODULE ClientPoolProofs ---------------------------
(***************************************************************************)
(* Proofs about ClientPool for any set of connections and any finite set   *)
(* of threads: PoolInv is inductive, so the linked list always spells out  *)
(* the queue and the semaphore's claims are always backed; and every step  *)
(* of the pool is a step of FifoPool or leaves it unchanged.               *)
(***************************************************************************)
EXTENDS ClientPool, FiniteSetTheorems, SequenceTheorems, TLAPS

USE PoolAssumption

\* In the initial state the pool is idle and the list empty.
LEMMA InitInv == Init => PoolInv
<1> SUFFICES ASSUME Init PROVE PoolInv
  OBVIOUS
<1>1. TypeOK
  BY DEF Init, TypeOK, ServerPoints, ThreadPoints
<1>2. MutexOK
  BY DEF Init, MutexOK, ServerInside, ThreadInside
<1>3. ListIsQueue
  BY DEF Init, ListIsQueue, HeadOK, LinksOK, TailOK, HeapOK, Queued
<1>4. OnePlace
  BY DEF Init, OnePlace, Queued, Held, Holding, AfterTake
<1>5. ClaimsBacked
  <2>1. Claimants = {}
    BY DEF Init, Claimants
  <2>2. Cardinality(Claimants) = 0
    BY <2>1, FS_EmptySet
  <2> QED
    BY <2>2 DEF Init, ClaimsBacked, Unposted
<1> QED
  BY <1>1, <1>2, <1>3, <1>4, <1>5 DEF PoolInv

\* The threads that hold a claim on a queued connection are finitely many.
LEMMA ClaimantsFinite == IsFiniteSet(Claimants) /\ Cardinality(Claimants) \in Nat
  BY FS_Subset, FS_CardinalityType DEF Claimants

\* The accept loop keeps the invariant: what it links it posts, under the mutex.
LEMMA ServerSteps ==
  ASSUME PoolInv, (\E c \in Conns : Accept(c)) \/ ServerStep
  PROVE  PoolInv'
<1> USE DEF PoolInv
<1>1. ASSUME NEW c \in Conns, Accept(c) PROVE PoolInv'
  <2>1. TypeOK'
    BY <1>1 DEF TypeOK, Accept, ServerPoints, list
  <2>2. MutexOK'
    BY <1>1 DEF MutexOK, Accept, ServerInside, list
  <2>3. ListIsQueue'
    BY <1>1 DEF ListIsQueue, HeadOK, LinksOK, TailOK, HeapOK, Queued, Accept, list
  <2>4. OnePlace'
    BY <1>1 DEF OnePlace, Queued, Held, Holding, AfterTake, Accept, list
  <2>5. ClaimsBacked'
    BY <1>1 DEF ClaimsBacked, Claimants, Unposted, Accept, list
  <2> QED
    BY <2>1, <2>2, <2>3, <2>4, <2>5
<1>2. ASSUME ServerLock PROVE PoolInv'
  <2>1. TypeOK'
    BY <1>2 DEF TypeOK, ServerLock, ServerPoints, list
  <2>2. MutexOK'
    BY <1>2 DEF MutexOK, ServerLock, ServerInside, list, TypeOK
  <2>3. ListIsQueue'
    BY <1>2 DEF ListIsQueue, HeadOK, LinksOK, TailOK, HeapOK, Queued, ServerLock, list
  <2>4. OnePlace'
    BY <1>2 DEF OnePlace, Queued, Held, Holding, AfterTake, ServerLock, list
  <2>5. ClaimsBacked'
    BY <1>2 DEF ClaimsBacked, Claimants, Unposted, ServerLock, list
  <2> QED
    BY <2>1, <2>2, <2>3, <2>4, <2>5
<1>3. ASSUME Link PROVE PoolInv'
  <2>1. /\ incoming \in Conns \ (Queued \cup Held)
        /\ contents' = Append(contents, incoming)
        /\ contents' \in Seq(Conns)
        /\ Len(contents') = Len(contents) + 1
        /\ contents'[Len(contents')] = incoming
        /\ \A i \in 1..Len(contents) : contents'[i] = contents[i]
        /\ Len(contents) \in Nat
    BY <1>3, AppendProperties, LenProperties DEF Link, OnePlace, TypeOK
  <2>2. Queued' = Queued \cup {incoming}
    <3>1. ASSUME NEW x \in Queued' PROVE x \in Queued \cup {incoming}
      BY <2>1, <3>1 DEF Queued
    <3>2. ASSUME NEW x \in Queued PROVE x \in Queued'
      BY <2>1, <3>2 DEF Queued
    <3>3. incoming \in Queued'
      BY <2>1 DEF Queued
    <3> QED
      BY <3>1, <3>2, <3>3
  \* The server owns the mutex, so no thread is inside dequeue.
  <2>3. \A t \in Threads : pc[t] \notin ThreadInside
    BY <1>3 DEF Link, MutexOK, ServerInside
  <2>4. TypeOK'
    BY <1>3, <2>1 DEF TypeOK, Link, ServerPoints
  <2>5. MutexOK'
    BY <1>3 DEF MutexOK, Link, ServerInside
  <2>6. tail = IF contents = <<>> THEN NULL ELSE contents[Len(contents)]
    BY <1>3, <2>3 DEF Link, ListIsQueue, TailOK, ThreadInside
  <2>7. ListIsQueue'
    <3>1. HeadOK'
      BY <1>3, <2>1, <2>6, ElementOfSeq DEF Link, ListIsQueue, HeadOK, TypeOK
    <3>2. LinksOK'
      <4> SUFFICES ASSUME NEW i \in 1..Len(contents')
                   PROVE  next'[contents'[i]] =
                            IF i = Len(contents') THEN NULL ELSE contents'[i + 1]
        BY DEF LinksOK
      <4>1. CASE i = Len(contents')
        BY <1>3, <2>1, <2>6, <4>1, ElementOfSeq DEF Link, TypeOK, Queued
      <4>2. CASE i = Len(contents)
        BY <1>3, <2>1, <2>6, <4>2, ElementOfSeq DEF Link, TypeOK, Queued
      <4>3. CASE i < Len(contents)
        <5>1. contents[i] \in Conns /\ contents[i] # contents[Len(contents)]
              /\ contents[i] # incoming
          BY <2>1, <4>3, ElementOfSeq DEF OnePlace, Queued, TypeOK
        <5>2. tail = contents[Len(contents)] /\ tail \in Conns
          BY <2>1, <2>6, <4>3, ElementOfSeq DEF TypeOK
        <5>3. next'[contents[i]] = next[contents[i]]
          BY <1>3, <5>1, <5>2 DEF Link, TypeOK
        <5>4. next[contents[i]] = contents[i + 1] /\ contents'[i + 1] = contents[i + 1]
          BY <2>1, <4>3 DEF ListIsQueue, LinksOK
        <5> QED
          BY <2>1, <4>3, <5>3, <5>4
      <4> QED
        BY <2>1, <4>1, <4>2, <4>3
    <3>3. TailOK'
      BY <1>3, <2>1, <2>6 DEF Link, TailOK
    <3>4. HeapOK'
      BY <1>3, <2>2 DEF Link, ListIsQueue, HeapOK
    <3> QED
      BY <3>1, <3>2, <3>3, <3>4 DEF ListIsQueue
  <2>8. OnePlace'
    <3>1. \A i, j \in 1..Len(contents') : contents'[i] = contents'[j] => i = j
      BY <2>1 DEF OnePlace, Queued
    <3>2. Held' = Held /\ Holding' = Holding
      BY <1>3 DEF Link, Held, Holding
    <3> QED
      BY <1>3, <2>1, <2>2, <2>3, <3>1, <3>2 DEF OnePlace, Link, ThreadInside
  <2>9. ClaimsBacked'
    <3>1. Claimants' = Claimants
      BY <1>3 DEF Claimants, Link
    <3> QED
      BY <1>3, <2>1, <3>1, ClaimantsFinite DEF ClaimsBacked, Unposted, Link, TypeOK
  <2> QED
    BY <2>4, <2>5, <2>7, <2>8, <2>9
<1>4. ASSUME SetTail PROVE PoolInv'
  <2>1. TypeOK'
    BY <1>4 DEF TypeOK, SetTail, ServerPoints
  <2>2. MutexOK'
    BY <1>4 DEF MutexOK, SetTail, ServerInside
  <2>3. ListIsQueue'
    BY <1>4 DEF ListIsQueue, HeadOK, LinksOK, TailOK, HeapOK, Queued, SetTail
  <2>4. OnePlace'
    BY <1>4 DEF OnePlace, Queued, Held, Holding, AfterTake, SetTail
  <2>5. ClaimsBacked'
    BY <1>4 DEF ClaimsBacked, Claimants, Unposted, SetTail
  <2> QED
    BY <2>1, <2>2, <2>3, <2>4, <2>5
<1>5. ASSUME Post PROVE PoolInv'
  <2>1. TypeOK'
    BY <1>5 DEF TypeOK, Post, ServerPoints, list
  <2>2. MutexOK'
    BY <1>5 DEF MutexOK, Post, ServerInside, list
  <2>3. ListIsQueue'
    BY <1>5 DEF ListIsQueue, HeadOK, LinksOK, TailOK, HeapOK, Queued, Post, list
  <2>4. OnePlace'
    BY <1>5 DEF OnePlace, Queued, Held, Holding, AfterTake, Post, list
  <2>5. ClaimsBacked'
    <3>1. Claimants' = Claimants
      BY <1>5 DEF Claimants, Post
    <3> QED
      BY <1>5, <3>1, ClaimantsFinite DEF ClaimsBacked, Unposted, Post, list, TypeOK
  <2> QED
    BY <2>1, <2>2, <2>3, <2>4, <2>5
<1>6. ASSUME ServerUnlock PROVE PoolInv'
  <2>1. TypeOK'
    BY <1>6 DEF TypeOK, ServerUnlock, ServerPoints, list
  <2>2. MutexOK'
    BY <1>6 DEF MutexOK, ServerUnlock, ServerInside, list
  <2>3. ListIsQueue'
    BY <1>6 DEF ListIsQueue, HeadOK, LinksOK, TailOK, HeapOK, Queued, ServerUnlock, list
  <2>4. OnePlace'
    BY <1>6 DEF OnePlace, Queued, Held, Holding, AfterTake, ServerUnlock, list
  <2>5. ClaimsBacked'
    BY <1>6 DEF ClaimsBacked, Claimants, Unposted, ServerUnlock, list
  <2> QED
    BY <2>1, <2>2, <2>3, <2>4, <2>5
<1> QED
  BY <1>1, <1>2, <1>3, <1>4, <1>5, <1>6 DEF ServerStep

\* A claim is backed by a queued connection: while some thread is between the
\* semaphore and the dequeue, the list is not empty.
LEMMA NonemptyWhenClaimed ==
  ASSUME PoolInv, NEW t \in Threads, pc[t] \in {"lock", "gethead", "advance"}
  PROVE  contents # <<>> /\ Len(contents) \in Nat \ {0} /\ head = contents[1] /\ head \in Conns
<1> USE DEF PoolInv
<1>1. Cardinality(Claimants) # 0
  BY ClaimantsFinite, FS_EmptySet DEF Claimants
<1>2. Len(contents) \in Nat \ {0}
  BY <1>1, ClaimantsFinite, LenProperties DEF ClaimsBacked, Unposted, TypeOK
<1>3. contents # <<>>
  BY <1>2, EmptySeq
<1> QED
  BY <1>2, <1>3, ElementOfSeq DEF ListIsQueue, HeadOK, TypeOK

\* A pool thread keeps the invariant: passing the semaphore makes it a claimant,
\* unlinking the head uses its claim up.
LEMMA ThreadSteps ==
  ASSUME PoolInv, NEW t \in Threads, ThreadStep(t) \/ Handle(t)
  PROVE  PoolInv'
<1> USE DEF PoolInv
<1>1. ASSUME SemWait(t) PROVE PoolInv'
  <2>1. TypeOK'
    BY <1>1 DEF TypeOK, ThreadPoints, SemWait, Goto, list, server
  <2>2. MutexOK'
    BY <1>1 DEF MutexOK, ThreadInside, TypeOK, SemWait, Goto, list, server
  <2>3. ListIsQueue'
    BY <1>1 DEF ListIsQueue, HeadOK, LinksOK, TailOK, HeapOK, Queued, TypeOK, SemWait, Goto, list, server
  <2>4. OnePlace'
    <3>1. Holding' = Holding
      BY <1>1 DEF Holding, AfterTake, TypeOK, SemWait, Goto
    <3>2. Held' = Held /\ Queued' = Queued
      BY <1>1, <3>1 DEF Held, Queued, SemWait, list
    <3> QED
      BY <1>1, <3>1, <3>2 DEF OnePlace, TypeOK, SemWait, Goto, list, server
  <2>5. ClaimsBacked'
    <3>1. t \notin Claimants /\ Claimants' = Claimants \cup {t}
      BY <1>1 DEF Claimants, TypeOK, SemWait, Goto
    <3>2. Cardinality(Claimants') = Cardinality(Claimants) + 1
      BY <3>1, ClaimantsFinite, FS_AddElement
    <3> QED
      BY <1>1, <3>2, ClaimantsFinite DEF ClaimsBacked, Unposted, TypeOK, SemWait, list, server
  <2> QED
    BY <2>1, <2>2, <2>3, <2>4, <2>5
<1>2. ASSUME Lock(t) PROVE PoolInv'
  <2>1. TypeOK'
    BY <1>2 DEF TypeOK, ThreadPoints, Lock, Goto, list, server
  <2>2. MutexOK'
    BY <1>2 DEF MutexOK, ThreadInside, TypeOK, Lock, Goto, list, server
  <2>3. ListIsQueue'
    BY <1>2 DEF ListIsQueue, HeadOK, LinksOK, TailOK, HeapOK, Queued, TypeOK, Lock, Goto, list, server
  <2>4. OnePlace'
    BY <1>2 DEF OnePlace, Queued, Held, Holding, AfterTake, TypeOK, Lock, Goto, list, server
  <2>5. ClaimsBacked'
    BY <1>2 DEF ClaimsBacked, Claimants, Unposted, TypeOK, Lock, Goto, list, server
  <2> QED
    BY <2>1, <2>2, <2>3, <2>4, <2>5
<1>3. ASSUME GetHead(t) PROVE PoolInv'
  <2>1. TypeOK'
    BY <1>3 DEF TypeOK, ThreadPoints, GetHead, Goto, list, server
  <2>2. MutexOK'
    BY <1>3 DEF MutexOK, ThreadInside, TypeOK, GetHead, Goto, list, server
  <2>3. ListIsQueue'
    BY <1>3 DEF ListIsQueue, HeadOK, LinksOK, TailOK, HeapOK, Queued, TypeOK, GetHead, Goto, list, server
  <2>4. OnePlace'
    <3>1. Holding' = Holding
      BY <1>3 DEF Holding, AfterTake, TypeOK, GetHead, Goto
    <3>2. Held' = Held /\ Queued' = Queued
      BY <1>3, <3>1 DEF Held, Queued, GetHead, list
    <3> QED
      BY <1>3, <3>1, <3>2 DEF OnePlace, TypeOK, GetHead, Goto, list, server
  <2>5. ClaimsBacked'
    <3>1. t \in Claimants
      BY <1>3 DEF Claimants, GetHead
    <3>2. head # NULL
      BY <1>3, NonemptyWhenClaimed DEF GetHead
    <3>3. Claimants' = Claimants
      BY <1>3, <3>1, <3>2 DEF Claimants, TypeOK, GetHead, Goto
    <3> QED
      BY <1>3, <3>3 DEF ClaimsBacked, Unposted, GetHead, list, server
  <2> QED
    BY <2>1, <2>2, <2>3, <2>4, <2>5
<1>4. ASSUME Advance(t) PROVE PoolInv'
  <2>1. /\ contents # <<>> /\ Len(contents) \in Nat \ {0}
        /\ head = contents[1] /\ head \in Conns
    BY <1>4, NonemptyWhenClaimed DEF Advance
  <2>2. /\ contents' \in Seq(Conns)
        /\ Len(contents') = Len(contents) - 1
        /\ \A i \in 1..Len(contents') : contents'[i] = contents[i + 1]
        /\ contents' = <<>> <=> Len(contents') = 0
    BY <1>4, <2>1, HeadTailProperties, EmptySeq DEF Advance, TypeOK
  <2>3. Queued' = Queued \ {head}
    <3>1. ASSUME NEW x \in Queued' PROVE x \in Queued \ {head}
      <4>1. PICK i \in 1..Len(contents') : x = contents'[i]
        BY <3>1 DEF Queued
      <4> QED
        BY <2>1, <2>2, <4>1 DEF Queued, OnePlace
    <3>2. ASSUME NEW x \in Queued \ {head} PROVE x \in Queued'
      <4>1. PICK i \in 1..Len(contents) : x = contents[i]
        BY <3>2 DEF Queued
      <4>2. i # 1
        BY <2>1, <3>2, <4>1
      <4>3. i - 1 \in 1..Len(contents') /\ contents'[i - 1] = contents[i]
        BY <2>1, <2>2, <4>2
      <4> QED
        BY <4>1, <4>3 DEF Queued
    <3> QED
      BY <3>1, <3>2
  <2>4. got[t] = head
    BY <1>4 DEF Advance, OnePlace
  \* The thread owns the mutex: nobody else is inside a critical section.
  <2>5. spc \notin ServerInside /\ \A u \in Threads \ {t} : pc[u] \notin ThreadInside
    BY <1>4 DEF Advance, MutexOK, ThreadInside
  <2>6. head' = IF contents' = <<>> THEN NULL ELSE contents'[1]
    <3>1. 1 \in 1..Len(contents)
      BY <2>1
    <3>2. head' = IF 1 = Len(contents) THEN NULL ELSE contents[2]
      <4>1. next[contents[1]] = IF 1 = Len(contents) THEN NULL ELSE contents[1 + 1]
        BY <3>1 DEF ListIsQueue, LinksOK
      <4>2. head' = next[contents[1]]
        BY <1>4, <2>1 DEF Advance
      <4> QED
        BY <4>1, <4>2
    <3>3. 1 = Len(contents) <=> contents' = <<>>
      BY <2>1, <2>2
    <3>4. CASE contents' # <<>>
      BY <2>1, <2>2, <3>2, <3>3, <3>4
    <3> QED
      BY <3>2, <3>3, <3>4
  <2>7. TypeOK'
    <3>1. head' \in Conns \cup {NULL}
      BY <1>4, <2>1 DEF Advance, TypeOK
    <3> QED
      BY <1>4, <2>2, <3>1 DEF TypeOK, ThreadPoints, Advance, Goto, server
  <2>8. MutexOK'
    BY <1>4 DEF MutexOK, ThreadInside, TypeOK, Advance, Goto, server
  <2>9. ListIsQueue'
    <3>1. HeadOK'
      BY <2>6 DEF HeadOK
    <3>2. LinksOK'
      <4> SUFFICES ASSUME NEW i \in 1..Len(contents')
                   PROVE  next'[contents'[i]] =
                            IF i = Len(contents') THEN NULL ELSE contents'[i + 1]
        BY DEF LinksOK
      <4>1. i + 1 \in 1..Len(contents) /\ contents'[i] = contents[i + 1]
        BY <2>1, <2>2
      <4>2. next[contents[i + 1]] =
              IF i + 1 = Len(contents) THEN NULL ELSE contents[(i + 1) + 1]
        BY <4>1 DEF ListIsQueue, LinksOK
      <4>3. CASE i = Len(contents')
        BY <1>4, <2>1, <2>2, <4>1, <4>2, <4>3 DEF Advance
      <4>4. CASE i # Len(contents')
        <5>1. i + 1 \in 1..Len(contents') /\ i + 1 # Len(contents)
          BY <2>1, <2>2, <4>4
        <5>2. contents'[i + 1] = contents[(i + 1) + 1]
          BY <2>2, <5>1
        <5> QED
          BY <1>4, <4>1, <4>2, <4>4, <5>1, <5>2 DEF Advance
      <4> QED
        BY <4>3, <4>4
    <3>3. TailOK'
      <4>1. spc # "settail" /\ tail = contents[Len(contents)]
        BY <2>1, <2>5 DEF ServerInside, ListIsQueue, TailOK
      <4>2. contents' # <<>> => contents'[Len(contents')] = contents[Len(contents)]
        BY <2>1, <2>2
      <4>3. pc'[t] = "fixtail"
        BY <1>4 DEF Advance, Goto, TypeOK
      <4> QED
        BY <1>4, <4>1, <4>2, <4>3 DEF Advance, TailOK, server
    <3>4. HeapOK'
      <4>1. \A u \in Threads : pc[u] \notin {"fixtail", "free"}
        BY <1>4, <2>5 DEF Advance, ThreadInside
      <4>2. {u \in Threads : pc'[u] \in {"fixtail", "free"}} = {t}
        BY <1>4, <4>1 DEF Advance, Goto, TypeOK
      <4>3. heap = Queued
        BY <4>1 DEF ListIsQueue, HeapOK
      <4>4. head \in Queued
        BY <2>1 DEF Queued
      <4> QED
        BY <1>4, <2>3, <2>4, <4>2, <4>3, <4>4 DEF HeapOK, Advance
    <3> QED
      BY <3>1, <3>2, <3>3, <3>4 DEF ListIsQueue
  <2>10. OnePlace'
    <3>1. Holding' = [Holding EXCEPT ![t] = head] /\ Holding[t] = NULL
      BY <1>4, <2>4 DEF Holding, AfterTake, TypeOK, Advance, Goto
    <3>2. head \in Queued /\ head \notin Held
      BY <2>1 DEF Queued, OnePlace
    <3>3. Holding \in [Threads -> Conns \cup {NULL}]
      BY DEF Holding, TypeOK
    <3>4. Held' = Held \cup {head}
      BY <2>1, <3>1, <3>3 DEF Held
    <3>5. \A i, j \in 1..Len(contents') : contents'[i] = contents'[j] => i = j
      BY <2>1, <2>2 DEF OnePlace
    <3>6. Queued' \cap Held' = {}
      BY <2>3, <3>2, <3>4 DEF OnePlace
    <3>7. \A u, v \in Threads : Holding'[u] = Holding'[v] /\ u # v => Holding'[u] = NULL
      BY <3>1, <3>2, <3>3 DEF OnePlace, Held
    <3>8. spc' \in {"lock", "link"} => incoming' \in Conns \ (Queued' \cup Held')
      BY <1>4, <2>3, <3>2, <3>4 DEF OnePlace, Advance, server
    <3>9. \A u \in Threads : pc'[u] # "advance"
      BY <1>4, <2>5 DEF Advance, Goto, TypeOK, ThreadInside
    <3>10. \A u \in Threads : pc'[u] \in {"fixtail", "free"} => got'[u] # NULL
      BY <1>4, <2>1, <2>4 DEF OnePlace, Advance, Goto, TypeOK
    <3> QED
      BY <3>5, <3>6, <3>7, <3>8, <3>9, <3>10 DEF OnePlace
  <2>11. ClaimsBacked'
    <3>1. t \in Claimants /\ Claimants' = Claimants \ {t}
      BY <1>4 DEF Claimants, TypeOK, Advance, Goto
    <3>2. Cardinality(Claimants') = Cardinality(Claimants) - 1
      BY <3>1, ClaimantsFinite, FS_RemoveElement
    <3> QED
      BY <1>4, <2>2, <3>2, ClaimantsFinite, LenProperties
         DEF ClaimsBacked, Unposted, TypeOK, Advance, server
  <2> QED
    BY <2>7, <2>8, <2>9, <2>10, <2>11
<1>5. ASSUME FixTail(t) PROVE PoolInv'
  <2>1. TypeOK'
    BY <1>5 DEF TypeOK, ThreadPoints, FixTail, Goto, list, server
  <2>2. MutexOK'
    BY <1>5 DEF MutexOK, ThreadInside, TypeOK, FixTail, Goto, list, server
  <2>3. ListIsQueue'
    BY <1>5 DEF ListIsQueue, HeadOK, LinksOK, TailOK, HeapOK, Queued, TypeOK, FixTail, Goto, list, server
  <2>4. OnePlace'
    <3>1. Holding' = Holding
      BY <1>5 DEF Holding, AfterTake, TypeOK, FixTail, Goto
    <3>2. Queued' = Queued /\ Held' = Held
      BY <1>5, <3>1 DEF Queued, Held, FixTail, list
    <3> QED
      BY <1>5, <3>1, <3>2 DEF OnePlace, TypeOK, FixTail, Goto, list, server
  <2>5. ClaimsBacked'
    BY <1>5 DEF ClaimsBacked, Claimants, Unposted, TypeOK, FixTail, Goto, list, server
  <2> QED
    BY <2>1, <2>2, <2>3, <2>4, <2>5
<1>6. ASSUME Free(t) PROVE PoolInv'
  <2>1. TypeOK'
    BY <1>6 DEF TypeOK, ThreadPoints, Free, Goto, list, server
  <2>2. MutexOK'
    BY <1>6 DEF MutexOK, ThreadInside, TypeOK, Free, Goto, list, server
  <2>3. ListIsQueue'
    <3>1. \A u \in Threads \ {t} : pc[u] \notin ThreadInside
      BY <1>6 DEF Free, MutexOK, ThreadInside
    <3>2. /\ {u \in Threads : pc[u] \in {"fixtail", "free"}} = {t}
          /\ {u \in Threads : pc'[u] \in {"fixtail", "free"}} = {}
      BY <1>6, <3>1 DEF Free, Goto, TypeOK, ThreadInside
    <3>3. got[t] \in Held
      BY <1>6 DEF Free, Held, Holding, AfterTake, OnePlace
    <3>4. heap' = Queued'
      BY <1>6, <3>2, <3>3 DEF Free, ListIsQueue, HeapOK, OnePlace, Queued
    <3>5. HeapOK'
      BY <3>2, <3>4 DEF HeapOK
    <3>6. HeadOK' /\ LinksOK' /\ TailOK'
      BY <1>6 DEF Free, ListIsQueue, HeadOK, LinksOK, TailOK, TypeOK, Goto, server
    <3> QED
      BY <3>5, <3>6 DEF ListIsQueue
  <2>4. OnePlace'
    <3>1. Holding' = Holding
      BY <1>6 DEF Holding, AfterTake, TypeOK, Free, Goto
    <3>2. Queued' = Queued /\ Held' = Held
      BY <1>6, <3>1 DEF Queued, Held, Free, list
    <3> QED
      BY <1>6, <3>1, <3>2 DEF OnePlace, TypeOK, Free, Goto, list, server
  <2>5. ClaimsBacked'
    BY <1>6 DEF ClaimsBacked, Claimants, Unposted, TypeOK, Free, Goto, list, server
  <2> QED
    BY <2>1, <2>2, <2>3, <2>4, <2>5
<1>7. ASSUME Unlock(t) PROVE PoolInv'
  <2>1. TypeOK'
    BY <1>7 DEF TypeOK, ThreadPoints, Unlock, Goto, list, server
  <2>2. MutexOK'
    BY <1>7 DEF MutexOK, ThreadInside, TypeOK, Unlock, Goto, list, server
  <2>3. ListIsQueue'
    BY <1>7 DEF ListIsQueue, HeadOK, LinksOK, TailOK, HeapOK, Queued, TypeOK, Unlock, Goto, list, server
  <2>4. OnePlace'
    <3>1. Holding' = Holding
      BY <1>7 DEF Holding, AfterTake, TypeOK, Unlock, Goto
    <3>2. Queued' = Queued /\ Held' = Held
      BY <1>7, <3>1 DEF Queued, Held, Unlock, list
    <3> QED
      BY <1>7, <3>1, <3>2 DEF OnePlace, TypeOK, Unlock, Goto, list, server
  <2>5. ClaimsBacked'
    BY <1>7 DEF ClaimsBacked, Claimants, Unposted, TypeOK, Unlock, Goto, list, server
  <2> QED
    BY <2>1, <2>2, <2>3, <2>4, <2>5
<1>8. ASSUME Handle(t) PROVE PoolInv'
  <2>1. TypeOK'
    BY <1>8 DEF TypeOK, ThreadPoints, Handle, Goto, list, server
  <2>2. MutexOK'
    BY <1>8 DEF MutexOK, ThreadInside, TypeOK, Handle, Goto, list, server
  <2>3. ListIsQueue'
    BY <1>8 DEF ListIsQueue, HeadOK, LinksOK, TailOK, HeapOK, Queued, TypeOK, Handle, Goto, list, server
  <2>4. OnePlace'
    <3>1. Holding \in [Threads -> Conns \cup {NULL}] /\ Holding' = [Holding EXCEPT ![t] = NULL]
      BY <1>8 DEF Holding, AfterTake, TypeOK, Handle, Goto
    <3>2. Held' \subseteq Held /\ Queued' = Queued
      BY <1>8, <3>1 DEF Held, Queued, Handle, list
    <3>3. \A u, v \in Threads : Holding'[u] = Holding'[v] /\ u # v => Holding'[u] = NULL
      BY <3>1 DEF OnePlace
    <3> QED
      BY <1>8, <3>2, <3>3 DEF OnePlace, TypeOK, Handle, Goto, list, server
  <2>5. ClaimsBacked'
    BY <1>8 DEF ClaimsBacked, Claimants, Unposted, TypeOK, Handle, Goto, list, server
  <2> QED
    BY <2>1, <2>2, <2>3, <2>4, <2>5
<1> QED
  BY <1>1, <1>2, <1>3, <1>4, <1>5, <1>6, <1>7, <1>8 DEF ThreadStep

-------------------------------------------------------------------------------
\* PoolInv holds in every reachable state: the linked list spells out the
\* queue, connections are in one place, and claims are backed.
THEOREM PoolInvariance == Spec => []PoolInv
<1>1. PoolInv /\ [Next]_vars => PoolInv'
  <2> SUFFICES ASSUME PoolInv, [Next]_vars PROVE PoolInv'
    OBVIOUS
  <2>1. CASE Next
    BY <2>1, ServerSteps, ThreadSteps DEF Next
  <2>2. CASE UNCHANGED vars
    <3>1. /\ UNCHANGED <<TypeOK, MutexOK, OnePlace>>
          /\ UNCHANGED <<ListIsQueue, ClaimsBacked>>
      BY <2>2 DEF vars, TypeOK, MutexOK, OnePlace, ListIsQueue, ClaimsBacked, HeadOK, LinksOK,
                  TailOK, HeapOK, Queued, Held, Holding, Claimants, Unposted
    <3> QED
      BY <3>1 DEF PoolInv
  <2> QED
    BY <2>1, <2>2
<1> QED
  BY <1>1, InitInv, PTL DEF Spec

\* Every variable of the client pool keeps its type.
THEOREM PoolTypes == Spec => []TypeOK
<1>1. PoolInv => TypeOK
  BY DEF PoolInv
<1> QED
  BY <1>1, PoolInvariance, PTL

\* The head, tail and next pointers of queue.c always spell out the queue, and
\* exactly the queued nodes (and the one being freed) are allocated.
THEOREM PoolListCorrect == Spec => []ListIsQueue
<1>1. PoolInv => ListIsQueue
  BY DEF PoolInv
<1> QED
  BY <1>1, PoolInvariance, PTL

\* A thread that passed sem_wait always finds a connection in the queue.
THEOREM PoolNeverEmpty == Spec => []NoEmptyDequeue
<1>1. PoolInv => NoEmptyDequeue
  BY NonemptyWhenClaimed DEF NoEmptyDequeue
<1> QED
  BY <1>1, PoolInvariance, PTL

\* Every step of the pointers, the mutex and the semaphore is a step of the
\* abstract pool or leaves it unchanged.
LEMMA StepRefines == PoolInv /\ [Next]_vars => [Fifo!Next]_(Fifo!vars)
<1> SUFFICES ASSUME PoolInv, [Next]_vars PROVE [Fifo!Next]_(Fifo!vars)
  OBVIOUS
<1> USE DEF PoolInv
<1>1. CASE Link
  <2>1. incoming \in Conns \ (Queued \cup Held)
    BY <1>1 DEF Link, OnePlace
  <2>2. Holding' = Holding
    BY <1>1 DEF Link, Holding
  <2>3. Fifo!Enqueue(incoming)
    BY <1>1, <2>1, <2>2 DEF Link, Fifo!Enqueue, Fifo!Waiting, Fifo!Held, Queued, Held
  <2> QED
    BY <2>1, <2>3 DEF Fifo!Next
<1>2. ASSUME NEW t \in Threads, Advance(t) PROVE Fifo!Take(t)
  <2>1. contents # <<>> /\ Len(contents) \in Nat \ {0} /\ head = contents[1]
    BY <1>2, NonemptyWhenClaimed DEF Advance
  <2>2. got[t] = Head(contents)
    BY <1>2, <2>1 DEF Advance, OnePlace, TypeOK
  <2>3. Holding[t] = NULL /\ Holding' = [Holding EXCEPT ![t] = Head(contents)]
    BY <1>2, <2>2 DEF Advance, Goto, Holding, AfterTake, TypeOK
  <2> QED
    BY <1>2, <2>1, <2>3 DEF Fifo!Take, Advance
<1>3. ASSUME NEW t \in Threads, Handle(t)
      PROVE  Fifo!Release(t) \/ UNCHANGED Fifo!vars
  <2>1. Holding' = [Holding EXCEPT ![t] = NULL] /\ contents' = contents
    BY <1>3 DEF Handle, Goto, Holding, AfterTake, TypeOK, list
  <2>2. CASE Holding[t] = NULL
    BY <2>1, <2>2 DEF Fifo!vars, Holding
  <2> QED
    BY <2>1, <2>2 DEF Fifo!Release
<1>4. ASSUME NEW t \in Threads,
             \/ SemWait(t) \/ Lock(t) \/ GetHead(t)
             \/ FixTail(t) \/ Free(t) \/ Unlock(t)
      PROVE  UNCHANGED Fifo!vars
  <2>1. contents' = contents
    BY <1>4 DEF SemWait, Lock, GetHead, FixTail, Free, Unlock, list
  <2>2. CASE GetHead(t)
    <3>1. head # NULL
      BY <2>2, NonemptyWhenClaimed DEF GetHead
    <3> QED
      BY <2>1, <2>2, <3>1 DEF Fifo!vars, Holding, AfterTake, GetHead, Goto, TypeOK
  <2>3. CASE SemWait(t) \/ Lock(t) \/ FixTail(t) \/ Free(t)
    BY <2>1, <2>3 DEF Fifo!vars, Holding, AfterTake, SemWait, Lock, FixTail, Free, Goto, TypeOK
  <2>4. CASE Unlock(t)
    BY <2>1, <2>4 DEF Fifo!vars, Holding, AfterTake, Unlock, Goto, TypeOK
  <2> QED
    BY <1>4, <2>2, <2>3, <2>4
<1>5. CASE \/ \E c \in Conns : Accept(c)
           \/ ServerLock \/ SetTail \/ Post \/ ServerUnlock \/ UNCHANGED vars
  BY <1>5 DEF Accept, ServerLock, SetTail, Post, ServerUnlock, vars, list, Fifo!vars, Holding
<1>6. CASE \E t \in Threads : ThreadStep(t) \/ Handle(t)
  <2>1. PICK t \in Threads : ThreadStep(t) \/ Handle(t)
    BY <1>6
  <2>2. Fifo!Take(t) \/ Fifo!Release(t) \/ UNCHANGED Fifo!vars
    BY <1>2, <1>3, <1>4, <2>1 DEF ThreadStep
  <2> QED
    BY <2>2 DEF Fifo!Next
<1> QED
  BY <1>1, <1>5, <1>6 DEF Next, ServerStep

\* The master's client pool implements a FIFO queue from which each accepted
\* connection is taken by exactly one thread.
THEOREM PoolIsFifo == Spec => FifoSafety
<1>1. Init => Fifo!Init
  BY DEF Init, Fifo!Init, Holding, AfterTake
<1> QED
  BY <1>1, PoolInvariance, StepRefines, PTL DEF Spec, FifoSafety
===============================================================================
