------------------------------ MODULE WorkerPool ------------------------------
(***************************************************************************)
(* The worker side of the master: worker_connections_server accepts the    *)
(* workers' connections and hands them to a pool of threads through a      *)
(* queue, a mutex and a condition variable; a thread that got one reads    *)
(* the worker's metadata messages for ever and keeps the metadata list.    *)
(*                                                                         *)
(* A worker, its connection and its uuid are one value: a worker process   *)
(* connects once.  The queue is a sequence here; ClientPool shows that the *)
(* same enqueue and dequeue, under a mutex, are a first-in-first-out queue. *)
(***************************************************************************)
EXTENDS Naturals, Sequences, FiniteSets, Lists

CONSTANTS
  Workers,       \* the workers that connect
  Fit,           \* those whose cpu, ram and gpu are at most 10
  Strays,        \* the other uuids an unset Metadata may hold by accident
  Versions,      \* what tells two metadata messages of a worker apart
  Threads,       \* workers_thread_pool
  Server,        \* the thread running worker_connections_server
  NULL

\* A uuid is also its node.  A worker's uuid fills the UUID_STR_LEN bytes that memcmp
\* compares.  An accidental one may be shorter: strcpy leaves the rest of its node unset,
\* so its next message matches no node and inserts another, which is another stray.
Uuids == Workers \cup Strays
Metadata == [uuid : Uuids, version : Versions]
Updates == [worker : Uuids, delay : Versions]  \* what an update has still to store

ASSUME WorkerPoolAssumption ==
  /\ IsFiniteSet(Threads)
  /\ Fit \subseteq Workers
  /\ Strays \cap Workers = {}
  /\ NULL \notin Uuids \cup Metadata \cup Updates \cup Versions \cup Threads \cup {Server}
  /\ Server \notin Threads

VARIABLES
  mutex,        \* owner of worker_pool_mutex
  queue,        \* the worker queue of queue.c
  spc,          \* control point of the accept loop
  incoming,     \* its local worker_socket
  pc,           \* control point of each pool thread
  conn,         \* the connection it handles
  msg,          \* its local worker_metadata
  current,      \* add_to_list's local current
  mhead, mnext, \* metadata_head, and the nodes' next
  usage,        \* version of each node's cpu_usage and assigned_tasks
  delay,        \* version of its network_delay
  accepted,     \* the workers whose connection was accepted
  gone,         \* the workers that closed their end
  lost          \* history: signals that found nobody waiting

server == <<spc, incoming, accepted>>
nodes  == <<mhead, mnext, usage, delay>>
vars == <<mutex, queue, spc, incoming, pc, conn, msg, current, mhead, mnext,
          usage, delay, accepted, gone, lost>>

Waiting == {t \in Threads : pc[t] = "waiting"}
Woken   == {t \in Threads : pc[t] \in {"woken", "dequeue"}}

Init ==
  /\ mutex = NULL
  /\ queue = <<>>
  /\ spc = "accept"
  /\ incoming = NULL
  /\ pc = [t \in Threads |-> "start"]
  /\ conn = [t \in Threads |-> NULL]
  /\ msg = [t \in Threads |-> NULL]
  /\ current = [t \in Threads |-> NULL]
  /\ mhead = NULL
  /\ mnext = [u \in Uuids |-> NULL]
  /\ usage = [u \in Uuids |-> NULL]
  /\ delay = [u \in Uuids |-> NULL]
  /\ accepted = {}
  /\ gone = {}
  /\ lost = 0

-------------------------------------------------------------------------------
(* The accept loop. *)

Accept(w) ==
  /\ spc = "accept"
  /\ w \notin accepted
  /\ accepted' = accepted \cup {w}
  /\ incoming' = w
  /\ spc' = "lock"
  /\ UNCHANGED <<mutex, queue, pc, conn, msg, current, nodes, gone, lost>>

ServerLock ==
  /\ spc = "lock"
  /\ mutex = NULL
  /\ mutex' = Server
  /\ spc' = "enqueue"
  /\ UNCHANGED <<queue, incoming, accepted, pc, conn, msg, current, nodes, gone, lost>>

Enqueue ==
  /\ spc = "enqueue"
  /\ queue' = Append(queue, incoming)
  /\ spc' = "signal"
  /\ UNCHANGED <<mutex, incoming, accepted, pc, conn, msg, current, nodes, gone, lost>>

\* Mutant of Signal: no signal at all.
SignalNone ==
  spc = "signal" /\ spc' = "unlock"
  /\ UNCHANGED <<mutex, queue, incoming, accepted, pc, conn, msg, current, nodes, gone, lost>>

\* pthread_cond_signal wakes one waiting thread, and nobody when none waits.
Signal ==
  /\ spc = "signal"
  /\ \/ \E t \in Waiting : pc' = [pc EXCEPT ![t] = "woken"] /\ UNCHANGED lost
     \/ Waiting = {} /\ lost' = lost + 1 /\ UNCHANGED pc
  /\ spc' = "unlock"
  /\ UNCHANGED <<mutex, queue, incoming, accepted, conn, msg, current, nodes, gone>>

ServerUnlock ==
  /\ spc = "unlock"
  /\ mutex' = NULL
  /\ incoming' = NULL
  /\ spc' = "accept"
  /\ UNCHANGED <<queue, accepted, pc, conn, msg, current, nodes, gone, lost>>

-------------------------------------------------------------------------------
(* A pool thread: worker_connection_thread_function. *)

Goto(t, there) == pc' = [pc EXCEPT ![t] = there]

Lock(t) ==
  /\ pc[t] = "start"
  /\ mutex = NULL
  /\ mutex' = t
  /\ Goto(t, "towait")
  /\ UNCHANGED <<queue, server, conn, msg, current, nodes, gone, lost>>

\* The thread waits before it has looked at the queue.
CondWait(t) ==
  /\ pc[t] = "towait"
  /\ mutex' = NULL
  /\ Goto(t, "waiting")
  /\ UNCHANGED <<queue, server, conn, msg, current, nodes, gone, lost>>

\* pthread_cond_wait may return without a signal.
WakeSpuriously(t) ==
  /\ pc[t] = "waiting"
  /\ Goto(t, "woken")
  /\ UNCHANGED <<mutex, queue, server, conn, msg, current, nodes, gone, lost>>

Relock(t) ==
  /\ pc[t] = "woken"
  /\ mutex = NULL
  /\ mutex' = t
  /\ Goto(t, "dequeue")
  /\ UNCHANGED <<queue, server, conn, msg, current, nodes, gone, lost>>

\* Mutant of Dequeue: the node is read and not unlinked.
DequeuePeeks(t) ==
  /\ pc[t] = "dequeue"
  /\ conn' = [conn EXCEPT ![t] = IF queue = <<>> THEN NULL ELSE Head(queue)]
  /\ Goto(t, "release")
  /\ UNCHANGED <<mutex, queue, server, msg, current, nodes, gone, lost>>

Dequeue(t) ==
  /\ pc[t] = "dequeue"
  /\ \/ /\ queue = <<>>
        /\ UNCHANGED <<queue, conn>>
     \/ /\ queue # <<>>
        /\ conn' = [conn EXCEPT ![t] = Head(queue)]
        /\ queue' = Tail(queue)
  /\ Goto(t, "release")
  /\ UNCHANGED <<mutex, server, msg, current, nodes, gone, lost>>

\* With a connection the thread enters handle_worker_connection for good.
Release(t) ==
  /\ pc[t] = "release"
  /\ mutex' = NULL
  /\ Goto(t, IF conn[t] = NULL THEN "start" ELSE "read")
  /\ UNCHANGED <<queue, server, conn, msg, current, nodes, gone, lost>>

-------------------------------------------------------------------------------
(* handle_worker_connection and add_to_list. *)

\* A message of the worker; one that is not fit is read and dropped.
Read(t) ==
  /\ pc[t] = "read"
  /\ \E v \in Versions : msg' = [msg EXCEPT ![t] = [uuid |-> conn[t], version |-> v]]
  /\ Goto(t, IF conn[t] \in Fit THEN "lock" ELSE "read")
  /\ UNCHANGED <<mutex, queue, server, conn, current, nodes, gone, lost>>

\* At the end of the stream read returns 0, the buffer is empty, sscanf sets
\* nothing, and the loop goes on with what the unset Metadata happens to hold:
\* what this thread parsed last, or leftovers of other calls, as a stray that is in
\* the list or that is not.
ReadNothing(t) ==
  /\ pc[t] = "read"
  /\ conn[t] \in gone
  /\ \E m \in ({msg[t]} \ {NULL}) \cup [uuid : Strays, version : Versions] :
       msg' = [msg EXCEPT ![t] = m]
  /\ \E valid \in BOOLEAN : Goto(t, IF valid THEN "lock" ELSE "read")
  /\ UNCHANGED <<mutex, queue, server, conn, current, nodes, gone, lost>>

\* Mutant of LockList: add_to_list runs without worker_pool_mutex.
LockListSkipped(t) ==
  /\ pc[t] = "lock"
  /\ mutex' = t
  /\ current' = [current EXCEPT ![t] = mhead]
  /\ Goto(t, "search")
  /\ UNCHANGED <<queue, server, conn, msg, nodes, gone, lost>>

LockList(t) ==
  /\ pc[t] = "lock"
  /\ mutex = NULL
  /\ mutex' = t
  /\ current' = [current EXCEPT ![t] = mhead]
  /\ Goto(t, "search")
  /\ UNCHANGED <<queue, server, conn, msg, nodes, gone, lost>>

\* Mutant of Search: only the first node is compared.
SearchHeadOnly(t) ==
  /\ pc[t] = "search"
  /\ Goto(t, IF current[t] = msg[t].uuid THEN "usage" ELSE "link")
  /\ UNCHANGED <<mutex, queue, server, conn, msg, current, nodes, gone, lost>>

Search(t) ==
  /\ pc[t] = "search"
  /\ \/ /\ current[t] = NULL
        /\ Goto(t, "link")
        /\ UNCHANGED current
     \/ /\ current[t] = msg[t].uuid
        /\ Goto(t, "usage")
        /\ UNCHANGED current
     \/ /\ current[t] \notin {NULL, msg[t].uuid}
        /\ current' = [current EXCEPT ![t] = mnext[current[t]]]
        /\ UNCHANGED pc
  /\ UNCHANGED <<mutex, queue, server, conn, msg, nodes, gone, lost>>

\* Mutant of UpdateUsage: the update ends after the first field.
UpdateUsageOnly(t) ==
  /\ pc[t] = "usage"
  /\ usage' = [usage EXCEPT ![current[t]] = msg[t].version]
  /\ Goto(t, "unlock")
  /\ UNCHANGED <<mutex, queue, server, conn, msg, current, mhead, mnext, delay, gone, lost>>

UpdateUsage(t) ==
  /\ pc[t] = "usage"
  /\ usage' = [usage EXCEPT ![current[t]] = msg[t].version]
  /\ Goto(t, "delay")
  /\ UNCHANGED <<mutex, queue, server, conn, msg, current, mhead, mnext, delay, gone, lost>>

UpdateDelay(t) ==
  /\ pc[t] = "delay"
  /\ delay' = [delay EXCEPT ![current[t]] = msg[t].version]
  /\ Goto(t, "unlock")
  /\ UNCHANGED <<mutex, queue, server, conn, msg, current, mhead, mnext, usage, gone, lost>>

\* Mutant of Link: the new node does not point at the old list.
LinkNothing(t) ==
  LET u == msg[t].uuid
  IN /\ pc[t] = "link"
     /\ usage' = [usage EXCEPT ![u] = msg[t].version]
     /\ delay' = [delay EXCEPT ![u] = msg[t].version]
     /\ mnext' = [mnext EXCEPT ![u] = NULL]
     /\ Goto(t, "publish")
     /\ UNCHANGED <<mutex, queue, server, conn, msg, current, mhead, gone, lost>>

\* The new node, complete, points at the list's head ...
Link(t) ==
  LET u == msg[t].uuid
  IN /\ pc[t] = "link"
     /\ usage' = [usage EXCEPT ![u] = msg[t].version]
     /\ delay' = [delay EXCEPT ![u] = msg[t].version]
     /\ mnext' = [mnext EXCEPT ![u] = mhead]
     /\ Goto(t, "publish")
     /\ UNCHANGED <<mutex, queue, server, conn, msg, current, mhead, gone, lost>>

\* ... and becomes the head.
Publish(t) ==
  /\ pc[t] = "publish"
  /\ mhead' = msg[t].uuid
  /\ Goto(t, "unlock")
  /\ UNCHANGED <<mutex, queue, server, conn, msg, current, mnext, usage, delay, gone, lost>>

\* Mutant of UnlockList: worker_pool_mutex stays locked.
UnlockListForgotten(t) ==
  /\ pc[t] = "unlock"
  /\ current' = [current EXCEPT ![t] = NULL]
  /\ Goto(t, "read")
  /\ UNCHANGED <<mutex, queue, server, conn, msg, nodes, gone, lost>>

UnlockList(t) ==
  /\ pc[t] = "unlock"
  /\ mutex' = NULL
  /\ current' = [current EXCEPT ![t] = NULL]
  /\ Goto(t, "read")
  /\ UNCHANGED <<queue, server, conn, msg, nodes, gone, lost>>

\* A worker process ends, and with it its side of the connection.
Disconnect(w) ==
  /\ w \in accepted \ gone
  /\ gone' = gone \cup {w}
  /\ UNCHANGED <<mutex, queue, server, pc, conn, msg, current, nodes, lost>>

-------------------------------------------------------------------------------
Locking(t) == Lock(t) \/ Relock(t) \/ LockList(t)
PoolStep(t) == CondWait(t) \/ Dequeue(t) \/ Release(t)
ListStep(t) ==
  Search(t) \/ UpdateUsage(t) \/ UpdateDelay(t) \/ Link(t) \/ Publish(t) \/ UnlockList(t)

Next ==
  \/ \E w \in Workers : Accept(w) \/ Disconnect(w)
  \/ ServerLock \/ Enqueue \/ Signal \/ ServerUnlock
  \/ \E t \in Threads :
       \/ Locking(t) \/ PoolStep(t) \/ ListStep(t)
       \/ WakeSpuriously(t) \/ Read(t) \/ ReadNothing(t)

Spec == Init /\ [][Next]_vars

\* Every thread that can run is scheduled, and a thread that asks for the mutex
\* again and again while it comes free gets it in the end.  A read at the end of a
\* stream returns at once.  Workers owe nothing: neither connections, nor messages.
FairSpec ==
  /\ Spec
  /\ SF_vars(ServerLock)
  /\ WF_vars(Enqueue \/ Signal \/ ServerUnlock)
  /\ \A t \in Threads : SF_vars(Locking(t)) /\ WF_vars(PoolStep(t) \/ ListStep(t) \/ ReadNothing(t))

-------------------------------------------------------------------------------
(* Properties. *)

ServerPoints == {"accept", "lock", "enqueue", "signal", "unlock"}
ThreadPoints ==
  {"start", "towait", "waiting", "woken", "dequeue", "release", "read", "lock",
   "search", "usage", "delay", "link", "publish", "unlock"}

\* Type invariant.
TypeOK ==
  /\ mutex \in Threads \cup {Server, NULL}
  /\ queue \in Seq(Workers)
  /\ spc \in ServerPoints
  /\ incoming \in Workers \cup {NULL}
  /\ pc \in [Threads -> ThreadPoints]
  /\ conn \in [Threads -> Workers \cup {NULL}]
  /\ msg \in [Threads -> Metadata \cup {NULL}]
  /\ current \in [Threads -> Uuids \cup {NULL}]
  /\ mhead \in Uuids \cup {NULL}
  /\ mnext \in [Uuids -> Uuids \cup {NULL}]
  /\ usage \in [Uuids -> Versions \cup {NULL}]
  /\ delay \in [Uuids -> Versions \cup {NULL}]
  /\ accepted \subseteq Workers
  /\ gone \subseteq accepted
  /\ lost \in Nat

Queued == {queue[i] : i \in 1..Len(queue)}
Handled == {conn[t] : t \in Threads} \ {NULL}

\* A connection is in one place: with the server, in the queue once, or with one
\* handler, which never lets go of it.
OneHandler ==
  /\ \A i, j \in 1..Len(queue) : queue[i] = queue[j] => i = j
  /\ \A t, u \in Threads : conn[t] = conn[u] /\ t # u => conn[t] = NULL
  /\ Queued \cap Handled = {}
  /\ spc \in {"lock", "enqueue"} => incoming \notin Queued \cup Handled
  /\ accepted = Queued \cup Handled \cup (IF spc \in {"lock", "enqueue"} THEN {incoming} ELSE {})

\* Each queued connection has a thread on its way to the queue, or is the one
\* about to be signalled, or is stranded by a signal that found nobody waiting.
Backing == Cardinality(Woken) + lost + (IF spc = "signal" THEN 1 ELSE 0)
SignalsBacked == Len(queue) <= Backing

\* Whoever is between lock and unlock, or has been woken and let go on, owns
\* worker_pool_mutex.
ServerInside == {"enqueue", "signal", "unlock"}
ThreadInside ==
  {"towait", "dequeue", "release", "search", "usage", "delay", "link", "publish", "unlock"}
MutexOK ==
  /\ spc \in ServerInside <=> mutex = Server
  /\ \A t \in Threads : pc[t] \in ThreadInside <=> mutex = t

\* Which locals are set at which point.
LocalsOK ==
  /\ spc = "accept" <=> incoming = NULL
  /\ \A t \in Threads :
       /\ pc[t] \in {"start", "towait", "waiting", "woken", "dequeue"} => conn[t] = NULL
       /\ pc[t] \notin {"start", "towait", "waiting", "woken", "dequeue", "release"} => conn[t] # NULL
       /\ pc[t] \in {"lock", "search", "usage", "delay", "link", "publish"} => msg[t] # NULL
       /\ pc[t] \in {"usage", "delay"} => current[t] # NULL

\* The two fields of a node differ only between the two stores of its update.
RowsOK ==
  /\ \A t \in Threads : pc[t] = "delay" => usage[current[t]] = msg[t].version
  /\ \A u \in Uuids : usage[u] # delay[u] => \E t \in Threads : pc[t] = "delay" /\ current[t] = u

\* The nodes met by following metadata_head and next.
Reachable == OnList(mhead, mnext, NULL)

\* Whoever follows the list, with or without the mutex as select_worker does,
\* comes to its end and meets only nodes that are filled in.
ListSound ==
  /\ ComesToEnd(mhead, mnext, NULL)
  /\ \A u \in Reachable : usage[u] # NULL /\ delay[u] # NULL

\* No insertion is lost: every node that was ever filled in is on the list,
\* except the one its thread is about to publish.
NoNodeLost ==
  \A u \in Uuids : usage[u] # NULL =>
    u \in Reachable \/ \E t \in Threads : pc[t] = "publish" /\ msg[t].uuid = u

\* What a thread inside add_to_list knows: its place in the list; that the uuid it
\* looks for is not before it; and that a new node is off the list, filled in and
\* linked to the list's head.
SearchAt(t) ==
  /\ pc[t] \in {"search", "usage", "delay"} => current[t] \in Reachable \cup {NULL}
  /\ pc[t] = "search" /\ msg[t].uuid \in Reachable => msg[t].uuid \in OnList(current[t], mnext, NULL)
  /\ pc[t] \in {"link", "publish"} => msg[t].uuid \notin Reachable
  /\ pc[t] = "publish" =>
       LET u == msg[t].uuid IN mnext[u] = mhead /\ usage[u] # NULL /\ delay[u] # NULL
SearchOK == \A t \in Threads : SearchAt(t)

\* The conjunction the proofs show to be inductive.
PoolInv ==
  /\ TypeOK /\ MutexOK /\ LocalsOK /\ OneHandler /\ SignalsBacked /\ RowsOK
  /\ ListSound /\ NoNodeLost /\ SearchOK

\* While nobody holds worker_pool_mutex a node's fields come from one message.
RowsWhole == mutex = NULL => \A u \in Uuids : usage[u] = delay[u]

\* A node, once on the list, stays there: not even a worker that is gone leaves.
NodesStay == [][Reachable \subseteq Reachable']_vars

\* The handlers together implement MetadataList: the nodes of the abstract list are those
\* on the list, and the update in progress is that of the mutex's owner.
Rows == [u \in Reachable |-> [next |-> mnext[u], usage |-> usage[u], delay |-> delay[u]]]
Refreshing ==
  IF mutex \in Threads /\ pc[mutex] = "delay"
  THEN [worker |-> current[mutex], delay |-> msg[mutex].version]
  ELSE NULL
M == INSTANCE MetadataList WITH
       Nodes <- Uuids, Usages <- Versions, Delays <- Versions,
       head <- mhead, row <- Rows, refreshing <- Refreshing
ListSpec == M!Spec

\* Each fit worker whose message a thread has read gets its node.
ReadIsListed ==
  \A w \in Workers :
    (\E t \in Threads : pc[t] = "lock" /\ msg[t].uuid = w) ~> (w \in Reachable)

\* Only lost signals strand connections: a queued one is handled, unless the queue
\* is no longer than the number of signals that found nobody waiting.
StrandedByLoss == \A w \in Workers : (w \in Queued) ~> (w \in Handled \/ Len(queue) <= lost)

\* Queue connection so that a worker thread can grab it (master_utils.c 192).
QueuedIsGrabbed == \A w \in Workers : (w \in Queued) ~> (w \in Handled)

\* The same asked of a pool that is all taken, while no more workers are connected
\* than it has threads: a worker that comes after others left is served.
AllTaken == \A t \in Threads : conn[t] # NULL
SlotsComeBack ==
  \A w \in Workers :
    (w \in Queued /\ AllTaken) ~>
      (w \in Handled \/ Cardinality(accepted \ gone) > Cardinality(Threads))
===============================================================================
