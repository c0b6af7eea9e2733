------------------------------- MODULE Dispatch -------------------------------
(***************************************************************************)
(* How the master places requests on workers: handle_client_connection in  *)
(* every thread of the client pool, select_worker over the metadata list,  *)
(* the slot each placed request takes in its worker's estimated_tasks, and *)
(* the sleeper thread that gives the slot back.                            *)
(*                                                                         *)
(* worker_selection_mutex is declared but its lock and unlock are commented *)
(* out, and sleepers take no lock either, so each load and each store of a  *)
(* field another thread writes is a step of its own.  Node and worker are  *)
(* the same thing here: add_to_list makes one node per uuid and nothing    *)
(* removes one.                                                            *)
(***************************************************************************)
EXTENDS Integers, FiniteSets, Lists

CONSTANTS
  Threads,           \* threads of clients_thread_pool
  Requests,          \* client requests; each is placed at most once
  Workers,           \* worker processes (uuids)
  Crashable,         \* the workers that may go down
  NULL,
  MaxTasks,          \* max_tasks of each worker
  Delays,            \* network_delay values a worker's messages may carry
  Estimate(_, _, _), \* estimate_time_for_request_type(request, worker, delay)
  IntMax             \* INT_MAX, the initial min_time

ASSUME DispatchAssumption ==
  /\ IsFiniteSet(Requests)
  /\ IsFiniteSet(Threads) /\ Threads # {}
  /\ Threads \cap Requests = {}
  /\ NULL \notin Threads \cup Requests \cup Workers
  /\ Crashable \subseteq Workers
  /\ MaxTasks \in [Workers -> Nat]
  /\ IntMax \in Int
  /\ \A r \in Requests, w \in Workers, d \in Delays : Estimate(r, w, d) \in Int

VARIABLES
  \* the metadata list
  head, next,      \* metadata_head and the nodes' next fields
  listed,          \* the workers that have a node
  cpuBusy,         \* cpu_usage >= CPU_LOAD_THRESHOLD
  delay,           \* network_delay
  est,             \* estimated_tasks
  refreshing,      \* the update add_to_list is in the middle of, or NULL
  \* the client threads: control point and locals
  pc, req, cursor, best, time, minTime, tmp,
  \* the sleepers, one per placed request
  sleeper,         \* control point
  slot,            \* the worker whose counter tasks_tracker points to
  val,             \* the value loaded for the decrement
  \* the process and its peers
  running,         \* the master has not exited
  down,            \* the workers that are gone
  outcome,         \* what became of each request
  raced,           \* history: two updates of this worker's counter overlapped
  crossed,         \* history: how often its holders changed between a load and a store
  steady           \* history: nobody changed the table since the thread's scan began

threadVars  == <<pc, req, cursor, best, time, minTime, tmp>>
tableVars   == <<head, next, listed, cpuBusy, delay, refreshing>>
sleeperVars == <<sleeper, slot, val>>
worldVars   == <<running, down, outcome>>
vars == <<head, next, listed, cpuBusy, delay, est, refreshing,
          pc, req, cursor, best, time, minTime, tmp,
          sleeper, slot, val, running, down, outcome, raced, crossed, steady>>

Init ==
  /\ head = NULL
  /\ next = [w \in Workers |-> NULL]
  /\ listed = {}
  /\ cpuBusy = [w \in Workers |-> FALSE]
  /\ delay \in [Workers -> Delays]
  /\ est = [w \in Workers |-> 0]
  /\ refreshing = NULL
  /\ pc = [t \in Threads |-> "idle"]
  /\ req = [t \in Threads |-> NULL]
  /\ cursor = [t \in Threads |-> NULL]
  /\ best = [t \in Threads |-> NULL]
  /\ time = [t \in Threads |-> 0]
  /\ minTime = [t \in Threads |-> IntMax]
  /\ tmp = [t \in Threads |-> 0]
  /\ sleeper = [r \in Requests |-> "none"]
  /\ slot = [r \in Requests |-> NULL]
  /\ val = [r \in Requests |-> 0]
  /\ running = TRUE
  /\ down = {}
  /\ outcome = [r \in Requests |-> "none"]
  /\ raced = [w \in Workers |-> FALSE]
  /\ crossed = [w \in Workers |-> 0]
  /\ steady = [t \in Threads |-> FALSE]

-------------------------------------------------------------------------------
(* add_to_list, run by the worker handlers under worker_pool_mutex, which   *)
(* select_worker does not take.                                             *)

\* A new node is complete before metadata_head is moved to it.  (A message may
\* still be read when its sender has gone.)
Register(w, busy, d) ==
  /\ refreshing = NULL
  /\ w \notin listed
  /\ listed' = listed \cup {w}
  /\ cpuBusy' = [cpuBusy EXCEPT ![w] = busy]
  /\ delay' = [delay EXCEPT ![w] = d]
  /\ est' = [est EXCEPT ![w] = 0]
  /\ next' = [next EXCEPT ![w] = head]
  /\ head' = w
  /\ UNCHANGED <<refreshing, threadVars, sleeperVars, worldVars>>

\* A known worker's node is updated field by field: first cpu_usage ...
RefreshCpu(w, busy, d) ==
  /\ refreshing = NULL
  /\ w \in listed
  /\ cpuBusy' = [cpuBusy EXCEPT ![w] = busy]
  /\ refreshing' = [worker |-> w, delay |-> d]
  /\ UNCHANGED <<head, next, listed, delay, est, threadVars, sleeperVars, worldVars>>

\* ... then network_delay; estimated_tasks is left alone.
RefreshDelay ==
  /\ refreshing # NULL
  /\ delay' = [delay EXCEPT ![refreshing.worker] = refreshing.delay]
  /\ refreshing' = NULL
  /\ UNCHANGED <<head, next, listed, cpuBusy, est, threadVars, sleeperVars, worldVars>>

-------------------------------------------------------------------------------
(* A client thread. *)

Goto(t, there) == pc' = [pc EXCEPT ![t] = there]

\* The thread has read and parsed a request no thread has had before.
Begin(t, r) ==
  /\ pc[t] = "idle"
  /\ outcome[r] = "none"
  /\ \A u \in Threads : req[u] # r
  /\ req' = [req EXCEPT ![t] = r]
  /\ Goto(t, "start")
  /\ UNCHANGED <<cursor, best, time, minTime, tmp, est, tableVars, sleeperVars, worldVars>>

Start(t) ==
  /\ pc[t] = "start"
  /\ cursor' = [cursor EXCEPT ![t] = head]
  /\ best' = [best EXCEPT ![t] = NULL]
  /\ minTime' = [minTime EXCEPT ![t] = IntMax]
  /\ Goto(t, "visit")
  /\ UNCHANGED <<req, time, tmp, est, tableVars, sleeperVars, worldVars>>

\* Mutant of Visit: the best time so far is updated before the node is known to
\* be able to take the request.
VisitEager(t) ==
  LET cost == Estimate(req[t], cursor[t], delay[cursor[t]])
  IN /\ pc[t] = "visit"
     /\ cursor[t] # NULL
     /\ time' = [time EXCEPT ![t] = cost]
     /\ \/ /\ cost < minTime[t]
           /\ minTime' = [minTime EXCEPT ![t] = cost]
           /\ Goto(t, "tasks")
           /\ UNCHANGED cursor
        \/ /\ cost >= minTime[t]
           /\ cursor' = [cursor EXCEPT ![t] = next[cursor[t]]]
           /\ UNCHANGED <<pc, minTime>>
     /\ UNCHANGED <<req, best, tmp, est, tableVars, sleeperVars, worldVars>>

\* One node: the estimate is computed from a copy of its resources; only a
\* strictly better one is looked at further.
Visit(t) ==
  LET cost == Estimate(req[t], cursor[t], delay[cursor[t]])
  IN /\ pc[t] = "visit"
     /\ cursor[t] # NULL
     /\ time' = [time EXCEPT ![t] = cost]
     /\ \/ /\ cost < minTime[t]
           /\ Goto(t, "tasks")
           /\ UNCHANGED cursor
        \/ /\ cost >= minTime[t]
           /\ cursor' = [cursor EXCEPT ![t] = next[cursor[t]]]
           /\ UNCHANGED pc
     /\ UNCHANGED <<req, best, minTime, tmp, est, tableVars, sleeperVars, worldVars>>

\* Mutants of CheckTasks: <= for <, and a loop that stays at a full node.
CheckTasksOffByOne(t) ==
  /\ pc[t] = "tasks"
  /\ \/ /\ est[cursor[t]] <= MaxTasks[cursor[t]]
        /\ Goto(t, "cpu")
        /\ UNCHANGED cursor
     \/ /\ est[cursor[t]] > MaxTasks[cursor[t]]
        /\ Goto(t, "visit")
        /\ cursor' = [cursor EXCEPT ![t] = next[cursor[t]]]
  /\ UNCHANGED <<req, best, time, minTime, tmp, est, tableVars, sleeperVars, worldVars>>
CheckTasksStays(t) ==
  /\ pc[t] = "tasks"
  /\ Goto(t, IF est[cursor[t]] < MaxTasks[cursor[t]] THEN "cpu" ELSE "visit")
  /\ UNCHANGED <<req, cursor, best, time, minTime, tmp, est, tableVars, sleeperVars, worldVars>>

\* can_resource_process_request, first conjunct: estimated_tasks < max_tasks.
CheckTasks(t) ==
  /\ pc[t] = "tasks"
  /\ \/ /\ est[cursor[t]] < MaxTasks[cursor[t]]
        /\ Goto(t, "cpu")
        /\ UNCHANGED cursor
     \/ /\ est[cursor[t]] >= MaxTasks[cursor[t]]
        /\ Goto(t, "visit")
        /\ cursor' = [cursor EXCEPT ![t] = next[cursor[t]]]
  /\ UNCHANGED <<req, best, time, minTime, tmp, est, tableVars, sleeperVars, worldVars>>

\* Second conjunct: cpu_usage below the threshold makes the node the best.
CheckCpu(t) ==
  /\ pc[t] = "cpu"
  /\ \/ /\ ~cpuBusy[cursor[t]]
        /\ best' = [best EXCEPT ![t] = cursor[t]]
        /\ minTime' = [minTime EXCEPT ![t] = time[t]]
     \/ /\ cpuBusy[cursor[t]]
        /\ UNCHANGED <<best, minTime>>
  /\ cursor' = [cursor EXCEPT ![t] = next[cursor[t]]]
  /\ Goto(t, "visit")
  /\ UNCHANGED <<req, time, tmp, est, tableVars, sleeperVars, worldVars>>

\* End of the list: without a candidate the caller naps and scans again.
EndScan(t) ==
  /\ pc[t] = "visit"
  /\ cursor[t] = NULL
  /\ Goto(t, IF best[t] = NULL THEN "start" ELSE "load")
  /\ UNCHANGED <<req, cursor, best, time, minTime, tmp, est, tableVars, sleeperVars, worldVars>>

\* estimated_tasks = estimated_tasks + 1, a load and a store.
LoadSlots(t) ==
  /\ pc[t] = "load"
  /\ tmp' = [tmp EXCEPT ![t] = est[best[t]]]
  /\ Goto(t, "store")
  /\ UNCHANGED <<req, cursor, best, time, minTime, est, tableVars, sleeperVars, worldVars>>

\* Mutant of StoreSlots: the sleeper gets the counter of the node the scan ended
\* at instead of the chosen one's.
StoreSlotsWrongNode(t) ==
  /\ pc[t] = "store"
  /\ est' = [est EXCEPT ![best[t]] = tmp[t] + 1]
  /\ slot' = [slot EXCEPT ![req[t]] = cursor[t]]
  /\ sleeper' = [sleeper EXCEPT ![req[t]] = "due"]
  /\ Goto(t, "spawn")
  /\ UNCHANGED <<req, cursor, best, time, minTime, tmp, tableVars, val, worldVars>>

StoreSlots(t) ==
  /\ pc[t] = "store"
  /\ est' = [est EXCEPT ![best[t]] = tmp[t] + 1]
  /\ slot' = [slot EXCEPT ![req[t]] = best[t]]
  /\ sleeper' = [sleeper EXCEPT ![req[t]] = "due"]
  /\ Goto(t, "spawn")
  /\ UNCHANGED <<req, cursor, best, time, minTime, tmp, tableVars, val, worldVars>>

\* pthread_create may fail, and will in the end: sleepers are neither joined nor
\* detached.  Nobody looks at its result.
Spawn(t) ==
  /\ pc[t] = "spawn"
  /\ \E made \in {"asleep", "orphan"} : sleeper' = [sleeper EXCEPT ![req[t]] = made]
  /\ Goto(t, "send")
  /\ UNCHANGED <<req, cursor, best, time, minTime, tmp, est, tableVars, slot, val, worldVars>>

\* check() ends the process when its argument is SOCKET_ERROR (threading_utils.h 20).
SocketError == -1
Check(exp) == running' = (exp # SocketError)

\* The request is written to the worker's socket, and the thread is free
\* again.  The argument of check is a comparison, so 0 or 1.  A worker that
\* has gone leaves the write three ways to end: buffered and never read,
\* failing with an error, or raising SIGPIPE, which the master does not catch.
SendBytes == 26
Send(t) ==
  LET w == best[t]
      r == req[t]
  IN /\ pc[t] = "send"
     /\ \/ \E written \in IF w \in down THEN {SendBytes, SocketError} ELSE {SendBytes} :
             /\ Check(IF written # SendBytes THEN 1 ELSE 0)
             /\ outcome' = [outcome EXCEPT ![r] =
                              IF written = SocketError THEN "failed"
                              ELSE IF w \in down THEN "vanished" ELSE "sent"]
        \/ /\ w \in down
           /\ running' = FALSE
           /\ UNCHANGED outcome
     /\ req' = [req EXCEPT ![t] = NULL]
     /\ cursor' = [cursor EXCEPT ![t] = NULL]
     /\ best' = [best EXCEPT ![t] = NULL]
     /\ time' = [time EXCEPT ![t] = 0]
     /\ minTime' = [minTime EXCEPT ![t] = IntMax]
     /\ tmp' = [tmp EXCEPT ![t] = 0]
     /\ Goto(t, "idle")
     /\ UNCHANGED <<est, tableVars, sleeperVars, down>>

-------------------------------------------------------------------------------
(* A sleeper: it wakes, tests the counter, and decrements it by a load and a *)
(* store.                                                                    *)

\* Mutant of Wake: the test leaves the last slot taken.
WakeOffByOne(r) ==
  /\ sleeper[r] = "asleep"
  /\ sleeper' = [sleeper EXCEPT ![r] = IF est[slot[r]] > 1 THEN "checked" ELSE "gone"]
  /\ UNCHANGED <<slot, val, est, tableVars, threadVars, worldVars>>

Wake(r) ==
  /\ sleeper[r] = "asleep"
  /\ sleeper' = [sleeper EXCEPT ![r] = IF est[slot[r]] > 0 THEN "checked" ELSE "gone"]
  /\ UNCHANGED <<slot, val, est, tableVars, threadVars, worldVars>>

LoadBack(r) ==
  /\ sleeper[r] = "checked"
  /\ val' = [val EXCEPT ![r] = est[slot[r]]]
  /\ sleeper' = [sleeper EXCEPT ![r] = "loaded"]
  /\ UNCHANGED <<slot, est, tableVars, threadVars, worldVars>>

StoreBack(r) ==
  /\ sleeper[r] = "loaded"
  /\ est' = [est EXCEPT ![slot[r]] = val[r] - 1]
  /\ sleeper' = [sleeper EXCEPT ![r] = "gone"]
  /\ val' = [val EXCEPT ![r] = 0]
  /\ UNCHANGED <<slot, tableVars, threadVars, worldVars>>

\* A worker process ends.  Its node stays: nothing calls remove_from_list.
GoDown(w) ==
  /\ w \in Crashable \ down
  /\ down' = down \cup {w}
  /\ UNCHANGED <<est, tableVars, threadVars, sleeperVars, running, outcome>>

-------------------------------------------------------------------------------
(* Who is in the middle of an update of w's counter: a selector from the     *)
(* moment it found a free slot until it has stored the increment, and a      *)
(* sleeper from its test until it has stored the decrement.                  *)

Selecting(t, w) ==
  \/ pc[t] = "cpu" /\ cursor[t] = w
  \/ pc[t] \in {"visit", "tasks", "cpu", "load", "store"} /\ best[t] = w
Returning(r, w) == sleeper[r] \in {"checked", "loaded"} /\ slot[r] = w
Updating(w) == {t \in Threads : Selecting(t, w)} \cup {r \in Requests : Returning(r, w)}
Overlap(w) == \E x, y \in Updating(w) : x # y

\* The updates that have loaded a count of w's they have still to store.
Loaded(w) == {t \in Threads : pc[t] = "store" /\ best[t] = w}
             \cup {r \in Requests : sleeper[r] = "loaded" /\ slot[r] = w}

\* The placed requests whose slot has not been given back.
Holders(w) == {r \in Requests : slot[r] = w /\ sleeper[r] # "gone"}

\* A slot of w is taken or given back under an update that goes on with an older count.
Crossing(w) == Holders(w)' # Holders(w) /\ Loaded(w)' # {}

\* The history variables.
Record ==
  /\ raced' = [w \in Workers |-> raced[w] \/ Overlap(w)']
  /\ crossed' = [w \in Workers |-> crossed[w] + IF Crossing(w) THEN 1 ELSE 0]
  /\ steady' = [t \in Threads |->
                  \/ pc[t] = "start" /\ pc'[t] = "visit"
                  \/ steady[t] /\ UNCHANGED <<est, tableVars>>]

ThreadStep(t) ==
  \/ Start(t) \/ Visit(t) \/ CheckTasks(t) \/ CheckCpu(t) \/ EndScan(t)
  \/ LoadSlots(t) \/ StoreSlots(t) \/ Spawn(t) \/ Send(t)
SleeperStep(r) == Wake(r) \/ LoadBack(r) \/ StoreBack(r)

Step ==
  \/ \E w \in Workers, busy \in BOOLEAN, d \in Delays :
       Register(w, busy, d) \/ RefreshCpu(w, busy, d)
  \/ RefreshDelay
  \/ \E t \in Threads, r \in Requests : Begin(t, r)
  \/ \E t \in Threads : ThreadStep(t)
  \/ \E r \in Requests : SleeperStep(r)
  \/ \E w \in Workers : GoDown(w)

Next == running /\ Step /\ Record

Spec == Init /\ [][Next]_vars

\* Every thread the master has made is scheduled; requests and the workers'
\* messages need not come.
FairSpec ==
  /\ Spec
  /\ WF_vars(running /\ RefreshDelay /\ Record)
  /\ \A t \in Threads : WF_vars(running /\ ThreadStep(t) /\ Record)
  /\ \A r \in Requests : WF_vars(running /\ SleeperStep(r) /\ Record)

-------------------------------------------------------------------------------
(* Properties. *)

ThreadPoints == {"idle", "start", "visit", "tasks", "cpu", "load", "store", "spawn", "send"}
SleeperPoints == {"none", "due", "asleep", "checked", "loaded", "gone", "orphan"}

\* Type invariant.
TypeOK ==
  /\ head \in Workers \cup {NULL}
  /\ next \in [Workers -> Workers \cup {NULL}]
  /\ listed \subseteq Workers
  /\ cpuBusy \in [Workers -> BOOLEAN]
  /\ delay \in [Workers -> Delays]
  /\ est \in [Workers -> Int]
  /\ refreshing \in [worker : Workers, delay : Delays] \cup {NULL}
  /\ pc \in [Threads -> ThreadPoints]
  /\ req \in [Threads -> Requests \cup {NULL}]
  /\ cursor \in [Threads -> Workers \cup {NULL}]
  /\ best \in [Threads -> Workers \cup {NULL}]
  /\ time \in [Threads -> Int]
  /\ minTime \in [Threads -> Int]
  /\ tmp \in [Threads -> Int]
  /\ sleeper \in [Requests -> SleeperPoints]
  /\ slot \in [Requests -> Workers \cup {NULL}]
  /\ val \in [Requests -> Int]
  /\ running \in BOOLEAN
  /\ down \subseteq Crashable
  /\ outcome \in [Requests -> {"none", "sent", "vanished", "failed"}]
  /\ raced \in [Workers -> BOOLEAN]
  /\ crossed \in [Workers -> Nat]
  /\ steady \in [Threads -> BOOLEAN]

\* Which locals a thread, and which slot a request, has at which point.
LocalsOK ==
  /\ \A t \in Threads :
       /\ req[t] = NULL <=> pc[t] = "idle"
       /\ pc[t] \in {"tasks", "cpu"} => cursor[t] # NULL
       /\ pc[t] \in {"load", "store", "spawn", "send"} => best[t] # NULL
  /\ \A r \in Requests : slot[r] = NULL <=> sleeper[r] = "none"

\* Every pointer to a node leads to one that has been put on the list.
PointersListed ==
  /\ head \in listed \cup {NULL}
  /\ \A w \in listed : next[w] \in listed \cup {NULL}
  /\ \A t \in Threads : cursor[t] \in listed \cup {NULL} /\ best[t] \in listed \cup {NULL}
  /\ \A r \in Requests : slot[r] \in listed \cup {NULL}

\* A request is with one thread at most, and takes one slot in its life.
PlacedOnce ==
  /\ \A t, u \in Threads : req[t] = req[u] /\ req[t] # NULL => t = u
  /\ \A t \in Threads :
       /\ pc[t] \in {"start", "visit", "tasks", "cpu", "load", "store"} => sleeper[req[t]] = "none"
       /\ pc[t] = "spawn" => sleeper[req[t]] = "due"
  /\ \A r \in Requests :
       running /\ outcome[r] = "none" /\ (\A t \in Threads : req[t] # r) => sleeper[r] = "none"

\* As long as no two updates of a worker's estimated_tasks have overlapped, it
\* is exactly the number of requests that hold one of the worker's slots: no
\* increment of select_worker and no decrement of a sleeper is lost or doubled,
\* and the sleeper's guard "> 0" always lets it decrement.
CounterExact == \A w \in Workers : ~raced[w] => est[w] = Cardinality(Holders(w))

\* Then the worker is not given more requests than its max_tasks either.
CapacityKept == \A w \in Workers : ~raced[w] => Cardinality(Holders(w)) <= MaxTasks[w]

\* The admission condition of can_resource_process_request, estimated_tasks <
\* max_tasks, keeps estimated_tasks from ever passing max_tasks.
NeverOverbooked == \A w \in Workers : est[w] <= MaxTasks[w]

\* What an update in progress has seen, when no other overlaps it.
SerialAt(w) ==
  /\ est[w] = Cardinality(Holders(w))
  /\ est[w] <= MaxTasks[w]
  /\ ~Overlap(w)
  /\ \A t \in Threads : Selecting(t, w) =>
       /\ est[w] < MaxTasks[w]
       /\ pc[t] = "store" => tmp[t] = est[w]
  /\ \A r \in Requests : Returning(r, w) /\ sleeper[r] = "loaded" => val[r] = est[w]
Serial == \A w \in Workers : ~raced[w] => SerialAt(w)

Admissible(w) == w \in listed /\ est[w] < MaxTasks[w] /\ ~cpuBusy[w]
Cost(t, w) == Estimate(req[t], w, delay[w])

\* A scan during which nobody changed the table picks a worker that can take
\* the request, with the least estimate among those that can; and when the scan
\* leaves empty-handed, no worker could take it in less than INT_MAX.  A cheaper
\* worker that cannot take the request does not hide one that can.
ScanIsBest ==
  \A t \in Threads : steady[t] =>
    /\ pc[t] = "load" => /\ Admissible(best[t])
                         /\ \A w \in Workers : Admissible(w) => Cost(t, best[t]) <= Cost(t, w)
    /\ pc[t] = "start" => \A w \in Workers : Admissible(w) => Cost(t, w) >= IntMax

\* Every worker that was ever put on the list is met by a scan from its head.
ListWhole == OnList(head, next, NULL) = listed

\* The table is the metadata list of MetadataList: what the selecting threads and the
\* sleepers do leaves it alone, and what the handlers do is what add_to_list promises.
Rows == [w \in listed |-> [next |-> next[w], usage |-> cpuBusy[w], delay |-> delay[w]]]
M == INSTANCE MetadataList WITH Nodes <- Workers, Usages <- BOOLEAN, row <- Rows
ListSpec == M!Spec

\* What a scan over a table nobody changes has established: its best so far can take the
\* request, and every cheaper worker that can is still to come.
Best(t) ==
  IF best[t] = NULL THEN minTime[t] = IntMax
  ELSE Admissible(best[t]) /\ minTime[t] = Cost(t, best[t])
Ahead(t) == IF pc[t] \in {"visit", "tasks", "cpu"} THEN OnList(cursor[t], next, NULL) ELSE {}
ScanAt(t) ==
  /\ pc[t] \in {"start", "visit", "tasks", "cpu", "load", "store"}
  /\ pc[t] = "start" => best[t] = NULL
  /\ Best(t)
  /\ \A w \in Workers : Admissible(w) => w \in Ahead(t) \/ minTime[t] <= Cost(t, w)
  /\ pc[t] \in {"tasks", "cpu"} => time[t] = Cost(t, cursor[t]) /\ time[t] < minTime[t]
  /\ pc[t] = "cpu" => est[cursor[t]] < MaxTasks[cursor[t]]
  /\ pc[t] = "store" => tmp[t] = est[best[t]]
ScanOK == \A t \in Threads : steady[t] => ScanAt(t)

\* How far the races of select_worker and the sleepers can lead estimated_tasks
\* astray: each slot taken or given back between another update's load and store
\* puts it off by one more at most, and nothing else does.  And so a worker holds
\* fewer requests than its max_tasks and the threads that may all have found the
\* same last slot free, but for one request more for each such crossing.
Near(n, w) == /\ Cardinality(Holders(w)) - crossed[w] <= n
              /\ n <= Cardinality(Holders(w)) + crossed[w]
DriftBounded ==
  \A w \in Workers :
    /\ Near(est[w], w)
    /\ Cardinality(Holders(w)) < MaxTasks[w] + Cardinality(Threads) + crossed[w]

\* The bound counts the threads that are about to take a slot as if they had it,
\* and holds of the counts that have been loaded too.
DriftAt(w) ==
  /\ Near(est[w], w)
  /\ \A t \in Threads : pc[t] = "store" /\ best[t] = w => Near(tmp[t], w)
  /\ \A r \in Requests : sleeper[r] = "loaded" /\ slot[r] = w => Near(val[r], w)
  /\ Cardinality(Holders(w)) + Cardinality({t \in Threads : Selecting(t, w)})
       < MaxTasks[w] + Cardinality(Threads) + crossed[w]
  /\ ~raced[w] => crossed[w] = 0
Drift == \A w \in Workers : DriftAt(w)

\* The conjunction the proofs show to be inductive.
DispatchInv ==
  /\ TypeOK /\ LocalsOK /\ PlacedOnce /\ PointersListed
  /\ Serial /\ Drift /\ ListWhole /\ ScanOK

\* A request that a thread has taken is answered by some write, unless every
\* worker is, again and again, full or busy, or the master ends.
RequestPlaced ==
  (\E w \in Workers : <>[]Admissible(w)) =>
    \A r \in Requests : (\E t \in Threads : req[t] = r) ~> (outcome[r] # "none" \/ ~running)

\* What check(write(...) != sendbytes, "Socket write failed") says: the master
\* does not go on after a failed write.
WriteFailureStops == (\E r \in Requests : outcome[r] = "failed") => ~running
===============================================================================
