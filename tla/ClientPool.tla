------------------------------ MODULE ClientPool ------------------------------
(***************************************************************************)
(* The client side of the master: client_connections_server accepts a      *)
(* connection, enqueues it and posts sem_client_queue; each of the pool's  *)
(* threads waits for the semaphore, dequeues and handles.  The queue is    *)
(* queue.c's singly linked list with a head and a tail pointer.  Every     *)
(* access to memory another thread can see is a step of its own, and so is *)
(* every operation on client_pool_mutex and on the semaphore.              *)
(*                                                                         *)
(* A list node is named after the connection whose descriptor it carries.  *)
(* Connections come back: a descriptor that was closed can be accepted     *)
(* again, so the model has no last state and needs no bound.               *)
(***************************************************************************)
EXTENDS Integers, Sequences, FiniteSets

CONSTANTS Conns,    \* connections accept() can return
          Threads,  \* the threads of clients_thread_pool
          Server,   \* the thread running client_connections_server
          NULL

ASSUME PoolAssumption ==
  /\ IsFiniteSet(Threads)
  /\ Server \notin Threads
  /\ NULL \notin Conns
  /\ NULL \notin Threads \cup {Server}

VARIABLES
  spc,       \* control point of the server
  incoming,  \* its local pclient: the connection being enqueued
  pc,        \* control point of each pool thread
  got,       \* its local result/p_client
  sem,       \* value of sem_client_queue
  mutex,     \* owner of client_pool_mutex, NULL when free
  head,      \* client_queue_head
  tail,      \* client_queue_tail
  next,      \* the next field of every node
  heap,      \* the nodes that are allocated
  contents   \* history variable: what the list holds, oldest first

server == <<spc, incoming>>
list == <<head, tail, next, heap, contents>>
vars == <<spc, incoming, pc, got, sem, mutex, head, tail, next, heap, contents>>

Queued == {contents[i] : i \in 1..Len(contents)}

\* The points at which a thread has taken a connection off the list.
AfterTake == {"fixtail", "free", "unlock", "handle"}
Holding == [t \in Threads |-> IF pc[t] \in AfterTake THEN got[t] ELSE NULL]
Held    == {Holding[t] : t \in Threads} \ {NULL}

Init ==
  /\ spc = "accept"
  /\ incoming = NULL
  /\ pc = [t \in Threads |-> "wait"]
  /\ got = [t \in Threads |-> NULL]
  /\ sem = 0
  /\ mutex = NULL
  /\ head = NULL
  /\ tail = NULL
  /\ next = [c \in Conns |-> NULL]
  /\ heap = {}
  /\ contents = <<>>

-------------------------------------------------------------------------------
(* The accept loop. *)

\* accept() never returns a descriptor that is still open in the process.
Accept(c) ==
  /\ spc = "accept"
  /\ c \notin Queued \cup Held
  /\ incoming' = c
  /\ spc' = "lock"
  /\ UNCHANGED <<pc, got, sem, mutex, list>>

ServerLock ==
  /\ spc = "lock"
  /\ mutex = NULL
  /\ mutex' = Server
  /\ spc' = "link"
  /\ UNCHANGED <<incoming, pc, got, sem, list>>

\* Mutant of Link: a new node is put in front of the others.
LinkInFront ==
  /\ spc = "link"
  /\ heap' = heap \cup {incoming}
  /\ head' = incoming
  /\ next' = [next EXCEPT ![incoming] = head]
  /\ contents' = Append(contents, incoming)
  /\ spc' = "settail"
  /\ UNCHANGED <<incoming, pc, got, sem, mutex, tail>>

\* enqueue up to the link: the new node becomes the head of an empty list or
\* the successor of the old tail.
Link ==
  /\ spc = "link"
  /\ heap' = heap \cup {incoming}
  /\ \/ /\ tail = NULL
        /\ head' = incoming
        /\ next' = [next EXCEPT ![incoming] = NULL]
     \/ /\ tail # NULL
        /\ next' = [next EXCEPT ![incoming] = NULL, ![tail] = incoming]
        /\ UNCHANGED head
  /\ contents' = Append(contents, incoming)
  /\ spc' = "settail"
  /\ UNCHANGED <<incoming, pc, got, sem, mutex, tail>>

SetTail ==
  /\ spc = "settail"
  /\ tail' = incoming
  /\ spc' = "post"
  /\ UNCHANGED <<incoming, pc, got, sem, mutex, head, next, heap, contents>>

\* Mutant of Post: a post too many.
PostTwice == spc = "post" /\ sem' = sem + 2 /\ spc' = "unlock" /\ UNCHANGED <<incoming, pc, got, mutex, list>>

Post ==
  /\ spc = "post"
  /\ sem' = sem + 1
  /\ spc' = "unlock"
  /\ UNCHANGED <<incoming, pc, got, mutex, list>>

ServerUnlock ==
  /\ spc = "unlock"
  /\ mutex' = NULL
  /\ incoming' = NULL
  /\ spc' = "accept"
  /\ UNCHANGED <<pc, got, sem, list>>

-------------------------------------------------------------------------------
(* A pool thread. *)

Goto(t, there) == pc' = [pc EXCEPT ![t] = there]

\* Mutant of SemWait: the semaphore lets a thread through one post late.
SemWaitLate(t) ==
  /\ pc[t] = "wait" /\ sem > 1
  /\ sem' = sem - 1 /\ Goto(t, "lock")
  /\ UNCHANGED <<server, got, mutex, list>>

SemWait(t) ==
  /\ pc[t] = "wait"
  /\ sem > 0
  /\ sem' = sem - 1
  /\ Goto(t, "lock")
  /\ UNCHANGED <<server, got, mutex, list>>

\* Mutant of Lock: the thread dequeues without the mutex.
LockSkipped(t) ==
  pc[t] = "lock" /\ mutex' = t /\ Goto(t, "gethead") /\ UNCHANGED <<server, got, sem, list>>

Lock(t) ==
  /\ pc[t] = "lock"
  /\ mutex = NULL
  /\ mutex' = t
  /\ Goto(t, "gethead")
  /\ UNCHANGED <<server, got, sem, list>>

\* dequeue tests the head and, when there is one, keeps it as its result.
GetHead(t) ==
  /\ pc[t] = "gethead"
  /\ got' = [got EXCEPT ![t] = head]
  /\ Goto(t, IF head = NULL THEN "unlock" ELSE "advance")
  /\ UNCHANGED <<server, sem, mutex, list>>

Advance(t) ==
  /\ pc[t] = "advance"
  /\ head' = next[head]
  /\ contents' = Tail(contents)
  /\ Goto(t, "fixtail")
  /\ UNCHANGED <<server, got, sem, mutex, tail, next, heap>>

\* Mutant of FixTail: the tail pointer of an emptied list is left dangling.
FixTailForgotten(t) ==
  pc[t] = "fixtail" /\ Goto(t, "free") /\ UNCHANGED <<server, got, sem, mutex, list>>

FixTail(t) ==
  /\ pc[t] = "fixtail"
  /\ tail' = IF head = NULL THEN NULL ELSE tail
  /\ Goto(t, "free")
  /\ UNCHANGED <<server, got, sem, mutex, head, next, heap, contents>>

\* dequeue_client_connection frees the node and keeps the descriptor.
Free(t) ==
  /\ pc[t] = "free"
  /\ heap' = heap \ {got[t]}
  /\ Goto(t, "unlock")
  /\ UNCHANGED <<server, got, sem, mutex, head, tail, next, contents>>

\* A thread that dequeued nothing goes back to the semaphore.
Unlock(t) ==
  /\ pc[t] = "unlock"
  /\ mutex' = NULL
  /\ Goto(t, IF got[t] = NULL THEN "wait" ELSE "handle")
  /\ UNCHANGED <<server, got, sem, list>>

\* handle_client_connection, here one step that ends by closing the socket;
\* Dispatch has its inside.  It need not return: it looks for a worker for as
\* long as it finds none (master_utils.c 74-80) and its read waits for as long
\* as the client says nothing (61).
Handle(t) ==
  /\ pc[t] = "handle"
  /\ got' = [got EXCEPT ![t] = NULL]
  /\ Goto(t, "wait")
  /\ UNCHANGED <<server, sem, mutex, list>>

-------------------------------------------------------------------------------
ServerStep == ServerLock \/ Link \/ SetTail \/ Post \/ ServerUnlock

ThreadStep(t) ==
  \/ SemWait(t) \/ Lock(t) \/ GetHead(t) \/ Advance(t)
  \/ FixTail(t) \/ Free(t) \/ Unlock(t)

Next ==
  \/ \E c \in Conns : Accept(c)
  \/ ServerStep
  \/ \E t \in Threads : ThreadStep(t) \/ Handle(t)

Spec == Init /\ [][Next]_vars

\* Clients need not come and a handler need not return; between two handlers
\* every thread that can run is scheduled.
FairSpec ==
  /\ Spec
  /\ WF_vars(ServerStep)
  /\ \A t \in Threads : WF_vars(ThreadStep(t))

-------------------------------------------------------------------------------
(* Properties. *)

ServerPoints == {"accept", "lock", "link", "settail", "post", "unlock"}
ThreadPoints ==
  {"wait", "lock", "gethead", "advance", "fixtail", "free", "unlock", "handle"}

\* Type invariant.  The semaphore never counts more connections than exist.
TypeOK ==
  /\ spc \in ServerPoints
  /\ incoming \in Conns \cup {NULL}
  /\ pc \in [Threads -> ThreadPoints]
  /\ got \in [Threads -> Conns \cup {NULL}]
  /\ sem \in Nat
  /\ mutex \in Threads \cup {Server, NULL}
  /\ head \in Conns \cup {NULL}
  /\ tail \in Conns \cup {NULL}
  /\ next \in [Conns -> Conns \cup {NULL}]
  /\ heap \subseteq Conns
  /\ contents \in Seq(Conns)

\* Whoever is between lock and unlock owns client_pool_mutex.
ServerInside == {"link", "settail", "post", "unlock"}
ThreadInside == {"gethead", "advance", "fixtail", "free", "unlock"}
MutexOK ==
  /\ spc \in ServerInside <=> mutex = Server
  /\ \A t \in Threads : pc[t] \in ThreadInside <=> mutex = t

\* The pointers of queue.c spell out the queue: the head pointer is its oldest
\* node, each next field leads to the node that arrived after, and the tail
\* pointer is the newest, except that it lags behind while enqueue has linked
\* and not yet moved it, and is stale while dequeue has unlinked the last node.
HeadOK == head = IF contents = <<>> THEN NULL ELSE contents[1]
LinksOK ==
  \A i \in 1..Len(contents) :
    next[contents[i]] = IF i = Len(contents) THEN NULL ELSE contents[i + 1]
TailOK ==
  /\ spc = "settail" =>
       /\ contents # <<>>
       /\ incoming = contents[Len(contents)]
       /\ tail = IF Len(contents) = 1 THEN NULL ELSE contents[Len(contents) - 1]
  /\ spc # "settail" /\ contents # <<>> => tail = contents[Len(contents)]
  /\ contents = <<>> /\ (\A t \in Threads : pc[t] # "fixtail") => tail = NULL

\* Exactly the nodes on the list, and the one a dequeuer is about to free, are
\* allocated: the list neither leaks a node nor keeps a freed one.
HeapOK ==
  heap = Queued \cup {got[t] : t \in {u \in Threads : pc[u] \in {"fixtail", "free"}}}

ListIsQueue == HeadOK /\ LinksOK /\ TailOK /\ HeapOK

\* A connection is in one place: once in the queue, or with one thread, or in
\* the hands of the server.
OnePlace ==
  /\ \A i, j \in 1..Len(contents) : contents[i] = contents[j] => i = j
  /\ Queued \cap Held = {}
  /\ \A t, u \in Threads : Holding[t] = Holding[u] /\ t # u => Holding[t] = NULL
  /\ spc \in {"lock", "link"} => incoming \in Conns \ (Queued \cup Held)
  /\ \A t \in Threads : pc[t] = "advance" => got[t] = head /\ head # NULL
  /\ \A t \in Threads : pc[t] \in {"fixtail", "free"} => got[t] # NULL

\* The semaphore's value plus the threads that have passed sem_wait and not yet
\* dequeued is the length of the queue, less the node that is linked and not
\* yet posted (master_utils.c 292-293, 115-117).
Claimants == {t \in Threads : pc[t] \in {"lock", "gethead", "advance"}}
Unposted  == IF spc \in {"settail", "post"} THEN 1 ELSE 0
ClaimsBacked == Len(contents) = sem + Cardinality(Claimants) + Unposted

\* A thread that got past the semaphore never finds the queue empty: the NULL
\* branch of dequeue and the test p_client != NULL never come into play.
NoEmptyDequeue == \A t \in Threads : pc[t] = "gethead" => head # NULL

\* The conjunction the proofs show to be inductive.
PoolInv == TypeOK /\ MutexOK /\ ListIsQueue /\ OnePlace /\ ClaimsBacked

\* The pool keeps the promise of FifoPool, the list read as a sequence and a
\* connection held from the moment it is unlinked until it is closed.
Fifo == INSTANCE FifoPool WITH queue <- contents, holding <- Holding
FifoSafety == Fifo!Init /\ [][Fifo!Next]_(Fifo!vars)

\* The same with FifoPool's fairness: whatever the handlers do, a queued
\* connection does not wait for ever while a thread is free.
FifoSpec == Fifo!Spec

\* A connection the server has accepted reaches a thread, unless from some
\* moment on every thread of the pool is in a handler that does not return.
AllHandling == \A t \in Threads : pc[t] = "handle"
EveryConnectionTaken ==
  \A c \in Conns : (incoming = c) ~> (c \in Held \/ []AllHandling)
===============================================================================
