------------------------------ MODULE Middleware ------------------------------
(***************************************************************************)
(* The whole middleware as processes that fail: clients with several       *)
(* requests in threads of one process, the master, and workers, one of     *)
(* which may run inside the master (option -w).  check() and SIGPIPE end a *)
(* process with all its threads, so one failure may bring others.          *)
(*                                                                         *)
(* The other modules have the inside of each step: ClientPool and Dispatch *)
(* of Place, WorkerPool of Register, TaskPool of what a worker does,       *)
(* FileTransfer of the exchange of a file, of which Answer, Break and      *)
(* Cross are the outcomes.                                                 *)
(***************************************************************************)
EXTENDS Naturals, FiniteSets

CONSTANTS
  Requests,
  Unfit,    \* those whose file holds a byte that is taken for its end
  Echo,     \* those whose file comes back
  Owner,    \* the client process of each request
  Workers,
  Insiders, \* those that may run in the master's process, one at most
  Slots,    \* threads of a worker's pool
  Master,
  NULL

Clients == {Owner[r] : r \in Requests}

ASSUME MiddlewareAssumption ==
  /\ Clients \cap Workers = {} /\ Master \notin Clients \cup Workers
  /\ NULL \notin Workers /\ Insiders \subseteq Workers
  /\ Unfit \subseteq Requests /\ Echo \subseteq Requests
  /\ Slots \in Nat \ {0} /\ IsFiniteSet(Requests)

VARIABLES
  host,   \* the process each worker runs in
  up,     \* the processes that run
  listed, \* the workers in the metadata list
  full,   \* no worker in the list may be given a request (Dispatch's Admissible)
  thread, \* control point of each request's client thread
  at,     \* the worker each request was written to
  killed, \* history: a process was ended from outside
  hasty   \* history: a request was forwarded before its client listened

vars == <<host, up, listed, full, thread, at, killed, hasty>>

\* Either every worker has its own process or one shares the master's.
Init ==
  /\ host \in {[w \in Workers |-> IF w = v THEN Master ELSE w] : v \in Insiders \cup {NULL}}
  /\ up = Clients \cup {Master} \cup {w \in Workers : host[w] = w}
  /\ listed = {} /\ full = FALSE
  /\ thread = [r \in Requests |-> "start"]
  /\ at = [r \in Requests |-> NULL]
  /\ killed = FALSE
  /\ hasty = FALSE

Exit(p) == up' = up \ {p}
Runs(r) == Owner[r] \in up
Goto(r, there) == thread' = [thread EXCEPT ![r] = there]

\* The worker that has a request still runs.
Held(r) == at[r] # NULL /\ host[at[r]] \in up

\* The requests that the pool threads of a worker serve, each until its exchange is
\* over; one may begin while a thread is free.
Serving(w) == {r \in Requests : at[r] = w /\ thread[r] \in {"waiting", "blocked"}}
Free(w) == Cardinality(Serving(w)) < Slots

Kill(p) ==
  /\ p \in up
  /\ Exit(p)
  /\ killed' = TRUE
  /\ UNCHANGED <<host, listed, full, thread, at, hasty>>

-------------------------------------------------------------------------------
(* Client threads. *)

\* Connect to the master and write the request.
Ask(r) ==
  /\ Runs(r) /\ thread[r] = "start"
  /\ Master \in up
  /\ Goto(r, "asked")
  /\ UNCHANGED <<host, up, listed, full, at, killed, hasty>>

\* Without a master the connection fails, and check() ends every thread of the client.
AskFails(r) ==
  /\ Runs(r) /\ thread[r] = "start"
  /\ Master \notin up
  /\ Exit(Owner[r])
  /\ UNCHANGED <<host, listed, full, thread, at, killed, hasty>>

Listen(r) ==
  /\ Runs(r) /\ thread[r] = "asked"
  /\ Goto(r, "listening")
  /\ UNCHANGED <<host, up, listed, full, at, killed, hasty>>

\* The worker has ended: an empty answer, or part of one, is taken for the answer, or
\* the client crashes.
GetNothing(r) ==
  /\ Runs(r) /\ thread[r] \in {"waiting", "blocked"}
  /\ ~Held(r)
  /\ \/ Goto(r, "empty") /\ UNCHANGED up
     \/ Exit(Owner[r]) /\ UNCHANGED thread
  /\ UNCHANGED <<host, listed, full, at, killed, hasty>>

-------------------------------------------------------------------------------
(* The master. *)

\* A worker connects and its metadata enter the list.
Register(w) ==
  /\ host[w] \in up /\ Master \in up
  /\ w \notin listed
  /\ listed' = listed \cup {w}
  /\ UNCHANGED <<host, up, full, thread, at, killed, hasty>>

\* The master has the request and has not placed it.
InMaster(r) == thread[r] \in {"asked", "listening"} /\ at[r] = NULL

\* Estimates and reports of the workers change who may be given a request, which matters
\* while one is in the master.
Load ==
  /\ Master \in up
  /\ \E r \in Requests : InMaster(r)
  /\ full' = ~full
  /\ UNCHANGED <<host, up, listed, thread, at, killed, hasty>>

\* Mutant of Place: a request is placed a second time.
PlaceAgain(r) ==
  /\ Master \in up
  /\ thread[r] \in {"asked", "listening"}
  /\ \E w \in listed : at' = [at EXCEPT ![r] = w]
  /\ hasty' = (hasty \/ thread[r] = "asked")
  /\ UNCHANGED <<host, up, listed, full, thread, killed>>

\* handle_client_connection tries until it finds a worker in the list that is admitted,
\* running or not; writing to one that has ended goes unnoticed or ends the master.
Place(r) ==
  /\ Master \in up
  /\ InMaster(r)
  /\ ~full
  /\ \E w \in listed :
       \/ at' = [at EXCEPT ![r] = w] /\ UNCHANGED up
       \/ host[w] \notin up /\ Exit(Master) /\ UNCHANGED at
  /\ hasty' = (hasty \/ thread[r] = "asked")
  /\ UNCHANGED <<host, listed, full, thread, killed>>

\* A client ended between its connect and its write: the worker is sent a request it
\* cannot parse, which may end it (TaskPool's hollow requests).
PlaceHollow(r) ==
  /\ Master \in up
  /\ ~Runs(r) /\ thread[r] = "start"
  /\ ~full
  /\ \E w \in listed : Free(w) /\ Exit(host[w])
  /\ Goto(r, "gone")
  /\ UNCHANGED <<host, listed, full, at, killed, hasty>>

-------------------------------------------------------------------------------
(* Workers. *)

CallBack(r) ==
  /\ Held(r) /\ Free(at[r])
  /\ Runs(r) /\ thread[r] = "listening"
  /\ Goto(r, "waiting")
  /\ UNCHANGED <<host, up, listed, full, at, killed, hasty>>

\* Mutants of CallBackFails: a connection that was made is tried again; the worker
\* drops the request and goes on.
CallBackFailsAnyway(r) ==
  /\ Held(r) /\ Free(at[r])
  /\ thread[r] \in {"asked", "listening", "waiting"}
  /\ Exit(host[at[r]])
  /\ UNCHANGED <<host, listed, full, thread, at, killed, hasty>>
CallBackDrops(r) ==
  /\ Held(r) /\ Free(at[r])
  /\ thread[r] = "asked" \/ (thread[r] = "listening" /\ ~Runs(r))
  /\ Goto(r, "dropped")
  /\ UNCHANGED <<host, up, listed, full, at, killed, hasty>>

\* The client does not listen yet, or has gone: the third failure ends the worker.
CallBackFails(r) ==
  /\ Held(r) /\ Free(at[r])
  /\ thread[r] = "asked" \/ (thread[r] = "listening" /\ ~Runs(r))
  /\ Exit(host[at[r]])
  /\ UNCHANGED <<host, listed, full, thread, at, killed, hasty>>

Answer(r) ==
  /\ Held(r)
  /\ Runs(r) /\ thread[r] = "waiting"
  /\ Goto(r, "answered")
  /\ UNCHANGED <<host, up, listed, full, at, killed, hasty>>

\* A byte of an unfit file is taken for its end: the side that takes it closes while the
\* other still sends, and SIGPIPE ends that one, the client or, with a file on its way
\* back, the worker.
Break(r) ==
  /\ Held(r)
  /\ Runs(r) /\ thread[r] = "waiting" /\ r \in Unfit
  /\ Exit(Owner[r]) \/ (r \in Echo /\ Exit(host[at[r]]))
  /\ UNCHANGED <<host, listed, full, thread, at, killed, hasty>>

\* The worker sends the file back before the client has sent it whole; both are blocked
\* as long as both run.
Cross(r) ==
  /\ Held(r)
  /\ Runs(r) /\ thread[r] = "waiting" /\ r \in Unfit \cap Echo
  /\ Goto(r, "blocked")
  /\ UNCHANGED <<host, up, listed, full, at, killed, hasty>>

\* The client ends during the exchange: the worker may or may not survive it.
Desert(r) ==
  /\ Held(r)
  /\ ~Runs(r) /\ thread[r] \in {"waiting", "blocked"}
  /\ Goto(r, "gone")
  /\ UNCHANGED up \/ Exit(host[at[r]])
  /\ UNCHANGED <<host, listed, full, at, killed, hasty>>

\* Mutant of LoseMaster: a worker that has registered lives on.
LoseMasterIgnored(w) ==
  /\ host[w] \in up /\ Master \notin up
  /\ w \notin listed
  /\ Exit(host[w])
  /\ UNCHANGED <<host, listed, full, thread, at, killed, hasty>>

\* Without a master the worker's connect fails, or a later write of its metadata does.
LoseMaster(w) ==
  /\ host[w] \in up /\ Master \notin up
  /\ Exit(host[w])
  /\ UNCHANGED <<host, listed, full, thread, at, killed, hasty>>

-------------------------------------------------------------------------------
ClientStep(r) == Listen(r) \/ GetNothing(r)
WorkerStep(r) ==
  CallBack(r) \/ CallBackFails(r) \/ Answer(r) \/ Break(r) \/ Cross(r) \/ Desert(r)

Next ==
  \/ \E r \in Requests :
       Ask(r) \/ AskFails(r) \/ ClientStep(r) \/ Place(r) \/ PlaceHollow(r) \/ WorkerStep(r)
  \/ \E w \in Workers : Register(w) \/ LoseMaster(w)
  \/ Load
  \/ \E p \in Clients \cup Workers \cup {Master} : Kill(p)

\* Every thread that runs is scheduled; requests need not be asked, nobody has to be
\* killed, and no worker need ever be admitted.
Spec ==
  /\ Init /\ [][Next]_vars
  /\ \A r \in Requests : WF_vars(ClientStep(r)) /\ WF_vars(Place(r)) /\ WF_vars(WorkerStep(r))
  /\ \A w \in Workers : WF_vars(Register(w)) /\ WF_vars(LoseMaster(w))

-------------------------------------------------------------------------------
(* Properties. *)

Processes == Clients \cup {Master} \cup {host[w] : w \in Workers}

\* Type invariant.
TypeOK ==
  /\ host \in [Workers -> Workers \cup {Master}]
  /\ up \subseteq Processes
  /\ listed \subseteq Workers /\ full \in BOOLEAN
  /\ thread \in [Requests -> {"start", "asked", "listening", "waiting", "blocked", "answered",
                               "empty", "gone"}]
  /\ at \in [Requests -> Workers \cup {NULL}]
  /\ killed \in BOOLEAN /\ hasty \in BOOLEAN

\* What a thread's control point says about its request.
PointsOK ==
  \A r \in Requests :
    /\ thread[r] = "start" => at[r] = NULL
    /\ thread[r] \in {"waiting", "blocked", "answered", "empty"} => at[r] # NULL
    /\ thread[r] = "blocked" => r \in Unfit
    /\ thread[r] = "gone" => ~Runs(r)
    /\ thread[r] = "empty" => ~Held(r)

\* A worker serves no more requests at a time than it has threads.
ThreadsKept == \A w \in Workers : Cardinality(Serving(w)) <= Slots

\* Nobody was killed, no request was forwarded in haste, and no unfit file has begun to
\* be exchanged.
Calm ==
  /\ ~killed /\ ~hasty
  /\ \A r \in Unfit : thread[r] \in {"start", "asked", "listening"}

\* In calm every process runs, and a forwarded request has a client that listens.
CalmOK ==
  Calm =>
    /\ Processes \subseteq up
    /\ \A r \in Requests : at[r] # NULL => thread[r] # "asked"

\* The conjunction the proofs show to be inductive.
MiddlewareInv == TypeOK /\ PointsOK /\ ThreadsKept /\ CalmOK

\* Nobody is left who would bring the answer.
Orphaned(r) ==
  \/ ~Runs(r)
  \/ at[r] # NULL /\ ~Held(r)
  \/ InMaster(r) /\ Master \notin up

Fate(r) ==
  IF thread[r] = "answered" THEN "answered"
  ELSE IF Orphaned(r) THEN "lost"
  ELSE IF thread[r] = "start" THEN "idle" ELSE "open"

S == INSTANCE Service WITH fate <- [r \in Requests |-> Fate(r)], server <- at,
                           down <- Processes \ up

\* A request is lost only with a process it relies on at that moment, or by being
\* given to a worker that has ended; and it is given to one worker only.
ServiceSpec == S!Spec

\* As long as nobody is killed, every request is forwarded after its client listens and
\* no unfit file is exchanged, no process ends and no request is lost: no failure
\* starts by itself.
CalmKeepsAll ==
  Calm =>
    /\ Processes \subseteq up
    /\ \A r \in Requests : Fate(r) # "lost"

\* Every request that was asked is answered or lost in the end, whatever fails, or hangs
\* in one of two places for ever: with its worker, where it is blocked itself or every
\* thread is blocked with others, or in the master, which time and again finds no worker
\* that it may give a request.
Hangs(r) ==
  \/ thread[r] = "blocked"
  \/ at[r] # NULL /\ ~Free(at[r]) /\ \A q \in Serving(at[r]) : thread[q] = "blocked"
RequestsEnd ==
  \A r \in Requests :
    (Fate(r) = "open") ~> (\/ Fate(r) \in {"answered", "lost"}
                           \/ []Hangs(r)
                           \/ []InMaster(r) /\ []<>(full \/ listed = {}))

\* The end of the master ends every worker, and with them every request that was
\* asked and not answered.
AllFollowMaster ==
  Master \notin up ~>
    /\ \A w \in Workers : host[w] \notin up
    /\ \A r \in Requests : Fate(r) # "open"
===============================================================================
