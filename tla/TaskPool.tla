------------------------------- MODULE TaskPool -------------------------------
(***************************************************************************)
(* A worker process and the clients whose requests the master has sent it: *)
(* master_worker_server reads the requests and queues them, the threads of *)
(* master_thread_pool take them, connect back to the client, which may not *)
(* be listening yet, and answer; worker_metadata_thread writes to the      *)
(* master every 30 seconds.  A connection that fails three times ends the  *)
(* whole process, and so does a write to a master that is gone.            *)
(*                                                                         *)
(* A hollow request is one the worker cannot parse: the frame the master   *)
(* sends for a client that ended before it wrote, or the empty read at the *)
(* end of the master's stream.  It takes type, address and port from what  *)
(* earlier requests left in the variables.                                 *)
(*                                                                         *)
(* FileTransfer has the exchange of a file; what it does to the processes  *)
(* and threads is here: with an unfit file (a chunk that ends in 0xFF, a   *)
(* NUL in a text) a side may take the end too early.                       *)
(*                                                                         *)
(* The critical sections under master_pool_mutex are one step each:        *)
(* ClientPool has the inside of the same queue, mutex and semaphore.       *)
(***************************************************************************)
EXTENDS Naturals, Sequences, FiniteSets

CONSTANTS
  Tasks,     \* requests, each from a client of its own
  Hollow,    \* hollow requests; their number bounds the empty reads
  Upload,    \* the tasks whose client sends a file first (types 1, 3 and 5)
  Echo,      \* those that get it back (types 1 and 3)
  Unfit,     \* those whose file is unfit
  Quitters,  \* those whose client may end at any moment
  Threads,   \* master_thread_pool: max_tasks threads
  Backlog,   \* connections that may wait for an accept, the 5 of listen
  NULL       \* no request, and no client

ASSUME TaskPoolAssumption ==
  /\ Upload \subseteq Tasks /\ Echo \subseteq Upload /\ Unfit \subseteq Upload
  /\ Quitters \subseteq Tasks /\ Backlog \in Nat \ {0}
  /\ Tasks \cap Hollow = {} /\ NULL \notin Tasks \cup Hollow \cup Threads
  /\ IsFiniteSet(Threads)

Requests == Tasks \cup Hollow
Tries == 3

VARIABLES
  client,    \* control point of each client
  peer,      \* the connection each client has accepted, named by its request
  master,    \* the master runs
  forwarded, \* the requests sent to the worker
  wire,      \* those the worker has not read
  last,      \* the task whose type and port are in the reader's variables
  target,    \* the client each request is for
  read,      \* the request the reader has read and not queued
  queue,     \* the master queue of queue.c
  sem,       \* sem_producer
  pc,        \* control point of each pool thread
  task,      \* its local result
  tries,     \* failed attempts to connect
  assigned,  \* assigned_tasks
  tracker,   \* the thread that holds assigned_tasks_mutex
  loaded,    \* what each thread has loaded of assigned_tasks to change it
  linked,    \* connections made
  sent,      \* connections with the client's file on its way
  answered,  \* connections with the answer on its way
  crossed,   \* connections whose two sides are blocked sending to each other
  failed,    \* a write of the metadata thread has failed
  running,   \* the worker has not exited
  hasty      \* history: some task was forwarded before its client listened

clients == <<client, peer, sent>>
reader  == <<wire, last, target, read>>
count   == <<assigned, tracker, loaded>>
links   == <<linked, answered, crossed>>
pool    == <<pc, task, tries, count, links>>
others  == <<master, forwarded, failed, hasty>>
vars == <<client, peer, master, forwarded, wire, last, target, read, queue, sem,
          pc, task, tries, assigned, tracker, loaded, linked, sent, answered, crossed,
          failed, running, hasty>>

Init ==
  /\ client = [c \in Tasks |-> "idle"]
  /\ peer = [c \in Tasks |-> NULL]
  /\ target = [r \in Requests |-> IF r \in Tasks THEN r ELSE NULL]
  /\ forwarded = {} /\ linked = {} /\ sent = {} /\ answered = {} /\ crossed = {}
  /\ wire = <<>> /\ queue = <<>>
  /\ last = NULL /\ read = NULL /\ tracker = NULL
  /\ loaded = [t \in Threads |-> 0]
  /\ sem = 0 /\ assigned = 0
  /\ pc = [t \in Threads |-> "wait"]
  /\ task = [t \in Threads |-> NULL]
  /\ tries = [t \in Threads |-> 0]
  /\ master = TRUE /\ running = TRUE
  /\ failed = FALSE /\ hasty = FALSE

-------------------------------------------------------------------------------
(* The clients. *)

\* The client binds a port, writes its request to the master and closes that
\* connection; only then does it call listen.
Ask(c) ==
  /\ client[c] = "idle"
  /\ client' = [client EXCEPT ![c] = "asked"]
  /\ UNCHANGED <<peer, sent, reader, queue, sem, pool, running, others>>

Listen(c) ==
  /\ client[c] = "asked"
  /\ client' = [client EXCEPT ![c] = "listening"]
  /\ UNCHANGED <<peer, sent, reader, queue, sem, pool, running, others>>

\* accept takes any connection that was made to the port; then the file is sent if
\* the request has one.
AcceptWorker(c) ==
  /\ client[c] = "listening"
  /\ \E r \in linked :
       /\ target[r] = c
       /\ peer' = [peer EXCEPT ![c] = r]
       /\ sent' = IF c \in Upload THEN sent \cup {r} ELSE sent
  /\ client' = [client EXCEPT ![c] = "waiting"]
  /\ UNCHANGED <<reader, queue, sem, pool, running, others>>

Ends(c, how) == \E end \in how : client' = [client EXCEPT ![c] = end]

\* A worker that took the end of an unfit file too early closes with messages unread:
\* the client's next send may raise SIGPIPE.
GetAnswer(c) ==
  /\ client[c] = "waiting"
  /\ peer[c] \in answered
  /\ Ends(c, IF c \in Unfit THEN {"done", "quit"} ELSE {"done"})
  /\ UNCHANGED <<peer, sent, reader, queue, sem, pool, running, others>>

\* The client takes a chunk of its unfit file for the end while the worker still sends.
GetEarlyEnd(c) ==
  /\ client[c] = "waiting"
  /\ c \in Unfit \cap Echo
  /\ peer[c] \notin crossed
  /\ \E t \in Threads : pc[t] = "answer" /\ task[t] = peer[c]
  /\ Ends(c, {"done"})
  /\ UNCHANGED <<peer, sent, reader, queue, sem, pool, running, others>>

\* The worker ended before it answered: read returns 0 or -1, and the client ends as
\* if it had the answer, unless the exchange of a file crashes it (FileTransfer).
GetNothing(c) ==
  /\ client[c] = "waiting"
  /\ peer[c] \notin answered
  /\ ~running
  /\ Ends(c, IF c \in Upload THEN {"done", "quit"} ELSE {"done"})
  /\ UNCHANGED <<peer, sent, reader, queue, sem, pool, running, others>>

Quit(c) ==
  /\ c \in Quitters
  /\ client[c] \in {"asked", "listening", "waiting"}
  /\ client' = [client EXCEPT ![c] = "quit"]
  /\ UNCHANGED <<peer, sent, reader, queue, sem, pool, running, others>>

-------------------------------------------------------------------------------
(* The master forwards each request once, in any order (Dispatch), hollow ones *)
(* included, and may end.                                                      *)

Forward(r) ==
  /\ master /\ running
  /\ r \notin forwarded
  /\ r \in Tasks => client[r] # "idle"
  /\ forwarded' = forwarded \cup {r}
  /\ wire' = Append(wire, r)
  /\ hasty' = (hasty \/ (r \in Tasks /\ client[r] = "asked"))
  /\ UNCHANGED <<clients, master, last, target, read, queue, sem, pool, failed, running>>

MasterEnds ==
  /\ master
  /\ master' = FALSE
  /\ UNCHANGED <<clients, reader, queue, sem, pool, running, forwarded, failed, hasty>>

-------------------------------------------------------------------------------
(* master_worker_server. *)

\* A hollow request has the port of the last task, and an address that may be
\* anything.
Parse(r) ==
  /\ read' = r
  /\ IF r \in Tasks
     THEN last' = r /\ UNCHANGED target
     ELSE /\ \E c \in {last, NULL} : target' = [target EXCEPT ![r] = c]
          /\ UNCHANGED last

ReadRequest ==
  /\ read = NULL
  /\ wire # <<>>
  /\ Parse(Head(wire))
  /\ wire' = Tail(wire)
  /\ UNCHANGED <<clients, queue, sem, pool, running, others>>

\* At the end of the stream read returns 0, now and ever after.
ReadNothing ==
  /\ read = NULL
  /\ wire = <<>> /\ ~master
  /\ \E r \in Hollow \ forwarded : Parse(r) /\ forwarded' = forwarded \cup {r}
  /\ UNCHANGED <<clients, wire, queue, sem, pool, running, master, failed, hasty>>

\* Mutant of QueueRequest: sem_producer is not posted.
QueueWithoutPost ==
  /\ read # NULL
  /\ queue' = Append(queue, read)
  /\ read' = NULL
  /\ UNCHANGED <<clients, wire, last, target, sem, pool, running, others>>

QueueRequest ==
  /\ read # NULL
  /\ queue' = Append(queue, read)
  /\ sem' = sem + 1
  /\ read' = NULL
  /\ UNCHANGED <<clients, wire, last, target, pool, running, others>>

-------------------------------------------------------------------------------
(* A pool thread. *)

Goto(t, there) == pc' = [pc EXCEPT ![t] = there]

SemWait(t) ==
  /\ pc[t] = "wait"
  /\ sem > 0
  /\ sem' = sem - 1
  /\ Goto(t, "take")
  /\ UNCHANGED <<clients, reader, queue, task, tries, count, links, running, others>>

\* Mutant of Take: the request is not unlinked.
TakePeeks(t) ==
  /\ pc[t] = "take"
  /\ queue # <<>>
  /\ task' = [task EXCEPT ![t] = Head(queue)]
  /\ Goto(t, "count")
  /\ UNCHANGED <<clients, reader, queue, sem, tries, count, links, running, others>>

\* dequeue_master_connection; with nothing there the thread waits again.
Take(t) ==
  /\ pc[t] = "take"
  /\ \/ /\ queue = <<>>
        /\ Goto(t, "wait")
        /\ UNCHANGED <<queue, task>>
     \/ /\ queue # <<>>
        /\ task' = [task EXCEPT ![t] = Head(queue)]
        /\ queue' = Tail(queue)
        /\ Goto(t, "count")
  /\ UNCHANGED <<clients, reader, sem, tries, count, links, running, others>>

\* Mutant of Load: the mutex is not taken.
LoadUnlocked(t) ==
  /\ pc[t] \in {"count", "discount"}
  /\ loaded' = [loaded EXCEPT ![t] = assigned]
  /\ Goto(t, IF pc[t] = "count" THEN "add" ELSE "subtract")
  /\ UNCHANGED <<clients, reader, queue, sem, task, tries, assigned, tracker, links, running, others>>

\* *tasks_tracker is incremented before a request is served and decremented after: a
\* load and a store, under the mutex.
Load(t) ==
  /\ pc[t] \in {"count", "discount"}
  /\ tracker = NULL /\ tracker' = t
  /\ loaded' = [loaded EXCEPT ![t] = assigned]
  /\ Goto(t, IF pc[t] = "count" THEN "add" ELSE "subtract")
  /\ UNCHANGED <<clients, reader, queue, sem, task, tries, assigned, links, running, others>>

Store(t) ==
  /\ \/ /\ pc[t] = "add"
        /\ assigned' = loaded[t] + 1
        /\ Goto(t, "connect")
        /\ UNCHANGED task
     \/ /\ pc[t] = "subtract"
        /\ assigned' = loaded[t] - 1
        /\ Goto(t, "wait")
        /\ task' = [task EXCEPT ![t] = NULL]
  /\ tracker' = NULL
  /\ loaded' = [loaded EXCEPT ![t] = 0]
  /\ UNCHANGED <<clients, reader, queue, sem, tries, links, running, others>>

\* The listening socket is open until the client is done with its own connection, and
\* few connections may wait there.
Pending(c) == {r \in linked : target[r] = c /\ peer[c] # r}
Reachable(r) ==
  LET c == target[r] IN
  /\ c # NULL /\ client[c] \in {"listening", "waiting"}
  /\ Cardinality(Pending(c)) < Backlog

\* Mutant of Connect: without the break a connection that was made is tried again,
\* which fails.
ConnectNoBreak(t) ==
  /\ pc[t] = "connect"
  /\ linked' = IF Reachable(task[t]) THEN linked \cup {task[t]} ELSE linked
  /\ tries' = [tries EXCEPT ![t] = (@ + 1) % Tries]
  /\ running' = (tries[t] + 1 < Tries)
  /\ UNCHANGED <<clients, reader, queue, sem, pc, task, count, answered, crossed, others>>

\* The third failure is fatal.
Connect(t) ==
  /\ pc[t] = "connect"
  /\ \/ /\ Reachable(task[t])
        /\ linked' = linked \cup {task[t]}
        /\ tries' = [tries EXCEPT ![t] = 0]
        /\ Goto(t, "receive")
        /\ UNCHANGED running
     \/ /\ ~Reachable(task[t])
        /\ tries[t] + 1 < Tries
        /\ tries' = [tries EXCEPT ![t] = @ + 1]
        /\ UNCHANGED <<linked, pc, running>>
     \/ /\ ~Reachable(task[t])
        /\ tries[t] + 1 = Tries
        /\ running' = FALSE
        /\ UNCHANGED <<linked, pc, tries>>
  /\ UNCHANGED <<clients, reader, queue, sem, task, count, answered, crossed, others>>

\* The client of a connection has ended before it was answered.
Deserted(r) == client[target[r]] \in {"done", "quit"}

\* The file, if there is one, is read to its end or to the end of the stream.  A
\* connection that was never accepted is reset when its client ends: a recv fails, and
\* may crash the worker.
Receive(t) ==
  LET r == task[t]
      upload == target[r] \in Upload
  IN /\ pc[t] = "receive"
     /\ upload => r \in sent \/ Deserted(r)
     /\ running' \in IF upload /\ Deserted(r) THEN BOOLEAN ELSE {TRUE}
     /\ Goto(t, "answer")
     /\ UNCHANGED <<clients, reader, queue, sem, task, tries, count, links, others>>

\* The thread sends an unfit file back while its client, not done with sending it, is
\* blocked too: neither receives.
Cross(t) ==
  LET r == task[t]
      c == target[r]
  IN /\ pc[t] = "answer"
     /\ c \in Unfit \cap Echo
     /\ client[c] = "waiting" /\ peer[c] = r
     /\ crossed' = crossed \cup {r}
     /\ UNCHANGED <<clients, reader, queue, sem, pc, task, tries, count, linked, answered,
                    running, others>>

\* Writing to a client that is gone may raise SIGPIPE, which nothing catches.
Answer(t) ==
  LET r == task[t] IN
  /\ pc[t] = "answer"
  /\ r \in crossed => Deserted(r)
  /\ running' \in IF Deserted(r) THEN BOOLEAN ELSE {TRUE}
  /\ answered' = answered \cup {r}
  /\ Goto(t, "discount")
  /\ UNCHANGED <<clients, reader, queue, sem, task, tries, count, linked, crossed, others>>

-------------------------------------------------------------------------------
(* worker_metadata_thread: its writes matter here once the master is gone.     *)

\* Mutant of Sync: SIGPIPE is ignored, and check() does not see the failure.
SyncIgnored ==
  /\ ~master
  /\ failed' = TRUE
  /\ UNCHANGED <<clients, reader, queue, sem, pool, running, master, forwarded, hasty>>

\* A first write may fail unnoticed; the next raises SIGPIPE.
Sync ==
  /\ ~master
  /\ \/ ~failed /\ failed' = TRUE /\ UNCHANGED running
     \/ running' = FALSE /\ UNCHANGED failed
  /\ UNCHANGED <<clients, reader, queue, sem, pool, master, forwarded, hasty>>

-------------------------------------------------------------------------------
ClientStep(c) == Listen(c) \/ (running /\ AcceptWorker(c)) \/ GetAnswer(c) \/ GetNothing(c)
ServerStep == running /\ (ReadRequest \/ ReadNothing \/ QueueRequest)
SyncStep == running /\ Sync
ThreadStep(t) ==
  /\ running
  /\ \/ SemWait(t) \/ Take(t) \/ Load(t) \/ Store(t)
     \/ Connect(t) \/ Receive(t) \/ Answer(t)

\* A connection the client has not accepted when the worker ends may be gone or not.
Next ==
  \/ \E c \in Tasks : Ask(c) \/ ClientStep(c) \/ AcceptWorker(c) \/ GetEarlyEnd(c) \/ Quit(c)
  \/ \E r \in Requests : Forward(r)
  \/ MasterEnds
  \/ ServerStep \/ SyncStep
  \/ \E t \in Threads : ThreadStep(t) \/ (running /\ Cross(t))

Spec == Init /\ [][Next]_vars

\* Every thread of the worker, and of a client that has asked, is scheduled; the
\* master need neither forward nor end, and clients need neither ask nor quit.
FairSpec ==
  /\ Spec
  /\ WF_vars(ServerStep) /\ WF_vars(SyncStep)
  /\ \A c \in Tasks : WF_vars(ClientStep(c))
  /\ \A t \in Threads : WF_vars(ThreadStep(t))

-------------------------------------------------------------------------------
(* Properties. *)

\* assigned_tasks, which the metadata thread reports to the master, is the
\* number of threads that are serving a request.
Serving == {t \in Threads : pc[t] \in {"connect", "receive", "answer", "discount", "subtract"}}
AssignedExact == assigned = Cardinality(Serving)

\* Type invariant.
TypeOK ==
  /\ client \in [Tasks -> {"idle", "asked", "listening", "waiting", "done", "quit"}]
  /\ peer \in [Tasks -> Requests \cup {NULL}]
  /\ forwarded \subseteq Requests /\ linked \subseteq Requests
  /\ sent \subseteq Requests /\ answered \subseteq Requests /\ crossed \subseteq Requests
  /\ wire \in Seq(Requests) /\ queue \in Seq(Requests)
  /\ last \in Tasks \cup {NULL} /\ read \in Requests \cup {NULL}
  /\ target \in [Requests -> Tasks \cup {NULL}]
  /\ sem \in Nat
  /\ pc \in [Threads -> {"wait", "take", "count", "add", "connect", "receive", "answer",
                          "discount", "subtract"}]
  /\ task \in [Threads -> Requests \cup {NULL}]
  /\ tries \in [Threads -> 0..Tries - 1]
  /\ assigned \in Nat
  /\ tracker \in Threads \cup {NULL} /\ loaded \in [Threads -> Nat]
  /\ {master, failed, running, hasty} \subseteq BOOLEAN

\* A request is in one place from the moment it was sent: on the wire, with the
\* reader, in the queue or with a thread; so it is served by one thread and over one
\* connection.
Wired == {wire[i] : i \in 1..Len(wire)}
Queued == {queue[i] : i \in 1..Len(queue)}
Taken == {task[t] : t \in Threads} \ {NULL}
TaskOnce ==
  /\ \A i, j \in 1..Len(wire) : wire[i] = wire[j] => i = j
  /\ \A i, j \in 1..Len(queue) : queue[i] = queue[j] => i = j
  /\ \A t, u \in Threads : task[t] = task[u] /\ t # u => task[t] = NULL
  /\ Wired \cap Queued = {} /\ (Wired \cup Queued) \cap Taken = {}
  /\ read \notin Wired \cup Queued \cup Taken
  /\ \A t \in Threads : pc[t] = "connect" => task[t] \notin linked

\* The worker process ends only because of a client that was called back before it
\* listened or has gone, of a hollow request, of an unfit file, or of the master's end:
\* while clients listen in time and stay, their files are fit and the master runs, no
\* retry is ever used up and nobody writes to a closed socket.
Calm ==
  /\ ~hasty /\ master
  /\ \A c \in Tasks : client[c] # "quit"
  /\ forwarded \cap (Hollow \cup Unfit) = {}
StaysUp == Calm => running

\* The inductive invariant adds what the promises above rest on.  A request that is
\* somewhere was forwarded, so the next one forwarded is nowhere yet.
PlacesOK ==
  /\ Wired \cup Queued \subseteq forwarded
  /\ read \in forwarded \cup {NULL}
  /\ \A t \in Threads :
       IF pc[t] \in {"wait", "take"} THEN task[t] = NULL ELSE task[t] \in forwarded

\* A connection is made for a request that has left the queue, by the thread that holds
\* it, and only once; the thread answers it once.
LinksOK ==
  /\ answered \subseteq linked /\ linked \subseteq forwarded
  /\ (Wired \cup Queued \cup {read}) \cap linked = {}
  /\ \A t \in Threads :
       /\ pc[t] \in {"count", "add", "connect"} => task[t] \notin linked
       /\ pc[t] \in {"receive", "answer"} => task[t] \in linked \ answered

\* A request with an address is for its own client; a client past accept has a
\* connection meant for it, and its answer when it is done with a fit file; and it
\* listens by then if nothing was forwarded in haste.
ClientsOK ==
  /\ \A c \in Tasks : target[c] = c
  /\ \A c \in Tasks :
       client[c] \in {"waiting", "done"} => peer[c] \in linked /\ target[peer[c]] = c
  /\ running => \A c \in Tasks \ Unfit : client[c] = "done" => peer[c] \in answered
  /\ ~hasty => \A c \in Tasks \cap forwarded : client[c] \notin {"idle", "asked"}

\* Who has loaded the count holds the mutex and has its value.
CountOK ==
  \A t \in Threads : pc[t] \in {"add", "subtract"} => tracker = t /\ loaded[t] = assigned

TaskInv ==
  TypeOK /\ CountOK /\ AssignedExact /\ TaskOnce /\ PlacesOK /\ LinksOK /\ ClientsOK /\ StaysUp

\* Every forwarded request is answered, or its client ends, or it hangs in one of three
\* places for ever: in accept, the worker having ended; in crossed sends of its unfit
\* file; behind a pool whose threads are all held up by such clients.
Blocked(c) == client[c] = "waiting" /\ peer[c] \in crossed
Hangs(c) ==
  IF running
  THEN \/ Blocked(c)
       \/ \A t \in Threads : pc[t] \in {"receive", "answer"} /\ Blocked(target[task[t]])
  ELSE client[c] = "listening"
ForwardedIsAnswered ==
  \A c \in Tasks : (c \in forwarded) ~> (client[c] \in {"done", "quit"} \/ []Hangs(c))

\* A worker does not outlive its master.
WorkerFollowsMaster == ~master ~> ~running
===============================================================================
