# Verification of the IoT middleware

TLA+ models of the C program under `src/middleware`, TLC configurations that check
them on small instances, and proofs of the main results for every value of the
constants. File and line references are to `src/middleware/`.

## 1. The system

| Component | Code | State it keeps | Operations |
|---|---|---|---|
| Client side of the master | `master_utils.c` 113-124, 205-300; `queue.c` | client queue (head, tail, nodes), `sem_client_queue`, `client_pool_mutex`, 200 threads | accept, enqueue, post; wait, dequeue, handle |
| Placement of requests | `master_utils.c` 52-96; `metadata_utils.c` 383-445 | each node's `estimated_tasks`; per thread the scan's locals; sleeper threads | read a request, scan, take a slot, spawn a sleeper, write to the worker |
| Worker side of the master | `master_utils.c` 13-49, 99-110, 127-202; `metadata_utils.c` 278-307 | worker queue, `worker_pool_mutex`, condition variable, 5 threads, the metadata list | accept, enqueue, signal; wait, dequeue, read metadata, insert or update a node |
| Request service in the worker | `worker_utils.c` 35-196; `queue.c` 80-105 | task queue, `sem_producer`, `assigned_tasks`, `max_tasks` threads | read a request, queue it, take it, connect to the client, receive, answer |
| Worker metadata thread | `worker_utils.c` 199-276 | `worker_metadata` | connect, then every 30 s send the metadata |
| Client | `client_utils.c`, `client.c` | a listening socket per request | bind, ask the master, listen, accept the worker, send a file, get the answer |
| Scores and estimate | `metadata_utils.c` 6-159, 333-405 | none | scores, `max_tasks`, estimated time, naps |
| File transfer | `socket_utils.c` | none | send and receive a file ended by byte 0xFF |
| Front ends, scripts | `client.c`, `master.c`, `worker.c`, `scripts/`, `deployment/` | none | option parsing, start-up, deployment |

How they interact.  A worker connects to the master (port 8989); one pool thread of
the master reads its metadata for ever and keeps a node of the metadata list for
it.  A client binds a port, sends its request to the master (port 8991) and only
then listens on the port.  A thread of the client pool picks a worker by scanning
the list, adds one to the node's `estimated_tasks`, starts a sleeper that will
subtract one when the estimated time is over, and writes the request to the
socket in the node.  The worker queues it; a task thread connects back to the
client, takes its file if the type has one, and answers.  Shared memory couples
three kinds of threads through the list: handlers write it under
`worker_pool_mutex`; client threads read it and write `estimated_tasks` with no
lock; sleepers write `estimated_tasks` with no lock.

What is hard, and what each component has to guarantee:

- *Client side.*  A semaphore, a mutex and a linked list have to agree at every
  step.  It must be a FIFO queue: no connection lost, doubled or overtaken, no
  dequeue of an empty list, no dangling tail, and every connection gets a thread, as long
  as not all of them are held in handlers.
- *Placement.*  Test and increment are not one step, the lock is commented out
  (75, 77), and the decrement is unlocked.  The counter should be the number of
  requests holding slots and never pass `max_tasks`; the scan should pick the
  cheapest worker that can take the request; a request should end up somewhere.
- *Worker side.*  Threads wait on a condition without a predicate; handlers never
  return, also not at the end of the stream; the list is read by others at every
  moment.  A connection should get exactly one handler; the list must stay
  followable and lose nothing.
- *Worker.*  A client may not be listening yet when it is called back, and the third
  failure exits the process.  A request must be served once, the count of served
  requests be exact, and prompt clients be answered; an unfit file can block a thread or end
  the process.  Requests the worker cannot parse
  are completed from older ones; the end of the master's stream brings them without
  end.
- *Numbers.*  Comparisons by products, ints that wrap, clocks that differ, delays
  `nanosleep` refuses, frames of fixed length.  A better machine should never look
  worse, a slot be held for its time, and a callback address arrive whole.
- *File transfer.*  A byte of the content ends a file.  A file should arrive whole, or
  at least a prefix of it and nothing that was not sent, and the transfer should end; an
  aborted image gets NULs at its end.
- *Processes.*  `check()` and `SIGPIPE` end a process with all its threads.  A request
  should be lost only with a process it needs, and no failure start by itself.

`PROJECT.json` lists each hazard at its line with the properties that cover it.

## 2. Modules

| Module | Role |
|---|---|
| `FifoPool` | abstract: a queue, threads that hold at most one connection, FIFO take |
| `ClientPool` | client side of the master, one step per access to shared memory; refines `FifoPool` |
| `ClientPoolProofs` | its inductive invariant and the refinement, proved |
| `Dispatch` | placement of requests: scan, slots, sleepers, write |
| `DispatchProofs` | its inductive invariant, exactness, capacity, the drift bound, the scan's result, the refinement of `MetadataList`, proved |
| `MetadataList` | abstract: the list as `select_worker` may rely on it, without threads and without a mutex |
| `WorkerPool` | worker side of the master with condition variable, handlers, and `add_to_list`; refines `MetadataList` |
| `WorkerPoolProofs` | mutual exclusion, one handler, signals, whole rows, the metadata list under insertions, and the refinement, proved |
| `Lists` | what is on a linked list, and that it comes to its end; used by `Dispatch` and `WorkerPool` |
| `ListsProofs` | lemmas about it: where a cursor goes, what an insertion at the head adds, every walk ends |
| `TaskPool` | the worker process, the clients it answers, and the master's end |
| `TaskPoolProofs` | its inductive invariant, exact count, each request served once, a worker that stays up, proved |
| `Estimates` | pure: scores, limits on tasks, the time estimate, the nap |
| `Frames` | pure: what is left of a port and an address in frames of fixed length |
| `Numbers` | `Estimates` and `Frames` walked through their inputs: a machine upgraded part by part, delays, addresses |
| `NumbersProofs` | 32-bit products, ranks, monotone estimates, slots held and addresses whole, proved for all inputs |
| `Copy` | abstract: a destination that grows into its source |
| `FileTransfer` | the senders and receivers of `socket_utils.c`, there and back; refines `Copy` |
| `FileTransferProofs` | its inductive invariant, prefixes at every moment, and the refinement step by step, proved |
| `Service` | abstract: what a request relies on, and when it is lost |
| `Middleware` | all processes and how they end; refines `Service` |
| `MiddlewareProofs` | its inductive invariant, that no failure starts by itself, and the refinement, proved |
| `MC*` | instances for TLC |

The modules are parts of one system cut at its interfaces.  `ClientPool`'s `Handle`
is the whole of `Dispatch`'s thread (`Begin` ... `Send`).  `Dispatch`'s
`Register` and `Refresh...` are what `WorkerPool`'s handlers do to the list.
`MetadataList` is the interface between the two: `WorkerPool` implements it under
`worker_pool_mutex` with nodes that are filled in before they are published, and the table
that `Dispatch` reads, with its variable `refreshing`, is one too; both are
proved.  `MCDispatch` takes its estimates from `Estimates`.
`TaskPool`'s `Forward` is the successful `Send` of `Dispatch`, its `Receive`,
`Answer`, `Cross` and `GetEarlyEnd` the outcomes of an exchange of `FileTransfer`.  `Middleware` has each of these as one step:
`Place` is `ClientPool`'s way of a connection to a thread and `Dispatch`'s placement
(each shown to come about under a condition that `full` carries over), `Register` is `WorkerPool`'s way of a worker to the list,
and `CallBack`, `CallBackFails`, `Answer`, `Break`, `Cross` and `LoseMaster` are `TaskPool`'s.

### ClientPool

`spc` and `pc` are the control points of the accept loop and of the pool threads;
`incoming` and `got` are `pclient` and `result`; `sem`, `mutex`, `head`, `tail`,
`next` are the program's.  `heap` is the set of nodes allocated and not freed.
`contents` is a history variable: appended to when a node is linked, shortened when
it is unlinked; no guard reads it except `Accept`, which uses it to say that the
kernel does not hand out a descriptor that is still open.  `Link` is lines 14-31 of
`queue.c` as one step (the new node is private until the one store that links
it); `SetTail` (32), `Advance` (41) and `FixTail` (42) are steps of their own.
A node is named by its descriptor, as each open descriptor is in one node.
`Handle` is the handler up to its `close`.  It need not return, so it has no fairness:
`EveryConnectionTaken` says that an accepted connection reaches a thread unless, from
some moment on, every thread is in a handler (`AllHandling`).  That happens when no
worker can be given a request any more, or when clients connect and say nothing.

### Dispatch

A worker stands for its node, its uuid and its socket.  `est` is `estimated_tasks`.
The scan: `Start` (418-421), `Visit` (423 and the first half of 424), `CheckTasks` and
`CheckCpu` (the two conjuncts of 384, each a read of a shared field), `EndScan` (431
and the retry of `master_utils.c` 74-80; the 50 ns nap is not a state change).
`LoadSlots`/`StoreSlots` are the two halves of line 434 and `LoadBack`/`StoreBack`
those of the decrement in 412, as gcc emits them without optimisation, from the
Makefile's build.  `Wake` is the test in 412; a sleeper may wake at any time after
its creation, which covers every estimate and every failing `nanosleep`.
`Send` has the three outcomes of a write to a peer that is gone (accepted by the
kernel and never read; an error; `SIGPIPE`, which the master does not handle) and
`Check` is `check()` with its comparison with `SOCKET_ERROR`.  The operator
`Estimate` is a constant: `estimate_time_for_request_type` as a function of the
request, of the worker, and of its delay.  `raced`, `crossed` and `steady` are history
variables: whether two updates of a worker's counter have ever overlapped, how often
its set of holders changed while another update had loaded the counter and not yet
stored it, and whether the table has been left alone since a thread's scan began.  `Spawn` lets
`pthread_create` fail, as it will in the end: sleepers are neither joined nor
detached.  Such a slot is never given back.

`DriftBounded` says how far the counter can be off: the number of requests that hold a
slot and `estimated_tasks` differ by at most `crossed`, and a worker never has more than
`max_tasks` + threads - 1 + `crossed` holders.  Nothing in it is conditional: where
`raced` only says that all may be lost, `crossed` says how much.

`ScanIsBest` is about a scan that nothing disturbs (`steady`): it ends with a worker
that can take the request and that no other such worker beats, or with none if no
worker can.  `DispatchInv` has two parts for it: `ListWhole` (the list from its head
holds every registered worker) and `ScanOK` (the best so far is admissible, and every
cheaper admissible worker is still ahead of the cursor).

### WorkerPool

`conn` is a thread's connection, `msg` its `worker_metadata`, `current` the local of
`add_to_list`.  `Signal` moves one waiting thread to `woken`, or nobody
(`lost` counts these; it is a history variable).  `CondWait` releases the mutex and
waits in one step, as POSIX promises; `WakeSpuriously` is what POSIX permits.
Workers may connect before any pool thread waits: the program does nothing to
prevent it.  `ReadNothing` is
the end of the stream: `read` returns 0, `sscanf` of an empty buffer sets
nothing, and an unset `Metadata` on the stack is used; the model lets it be the
thread's last message or one of `Strays`, and lets it pass the validity test or
not.  A stray stands for the `UUID_STR_LEN` bytes of a message and for the node they make.
`strcpy` leaves the end of a node with a short uuid unset, so the next message with that
uuid matches no node (`memcmp`, 281) and inserts one more: that message is another
element of `Strays`.  The run has one; the proofs hold for any number.  (The store to `buffer[-1]` in line 31 is not modelled.)  In `add_to_list` each
store another thread can see is a step: the fields of an update, and the
publication of a new node after it is complete.  `cpu_usage` and `assigned_tasks`
share one variable (`usage`), which is written in one step; `network_delay` is the
other (`delay`).  What the fields hold is a version of the worker's message.

What is on the list is stated in `Lists` by closed sets instead of by walking: a node
is on the list if it is in every set that contains the first node and, with each node,
the next.  `ListSound` says that the list comes to its end and has no node that is not
filled in; `NoNodeLost` that each filled node is on it, or about to be published.
`ListSpec` is `MetadataList` under the mapping that takes `row` to the fields of the nodes on
the list and `refreshing` to the second store that the holder of the mutex has still to
make; filling a node that is not yet published is a stutter.
`SearchOK` is what a thread inside `add_to_list` knows: its cursor is on the list, the
uuid it looks for is not before the cursor, and a node it is about to publish is off
the list and linked to the head.

### TaskPool

`client` is the control point of each client and `peer` the connection it has accepted;
`wire` the bytes between the master and the worker; `queue`, `sem`, `assigned` the
worker's.  Each critical section under `master_pool_mutex` is one step; under
`assigned_tasks_mutex` (`tracker`) the load and the store of the counter are two.
`Connect` is one iteration of the loop of lines 68-74 and the `check` of
line 75; the naps are left out, so the third failure may come at once.  It succeeds
while the client's listening socket is open, that is, until the client is done with its
own connection, and while there is room in its backlog (`Reachable`, `Pending`).

`Unfit` are the tasks whose file `FileTransfer` calls unfit, `Echo` those that get it
back.  What can happen then is `FileTransfer`'s: the worker takes a chunk for the end,
answers and closes while the client still sends, and the client may end by `SIGPIPE`
(`GetAnswer`); the client takes a chunk for the end and is done while the worker still
sends, which may end the worker (`GetEarlyEnd`, then `Answer` of a request whose client is
`Deserted`); or both send and neither receives (`Cross`), until one of the two ends.

A *hollow* request is one the worker cannot parse.  One comes from each client that
ends between its connect and its write (`master_utils.c` 61-70: `sscanf` of nothing
leaves a stale address, and the frame has no type and no port), and any number from the
empty reads after the master's end (`ReadNothing`).  `Parse` completes it from the last
task that was read, or leaves it with an address nobody listens on.  A request
names its connection, so that two requests can call the same client: it accepts one,
and deserts the other.  `Sync` is the metadata thread's write once the
master is gone.  `GetNothing` is a client whose worker ended before it answered.
`Quitters` are the clients that may end.  The history variable `hasty`
remembers that a task was forwarded before its client listened; `StaysUp` uses it to
say what well-behaved clients can rely on.  `TaskInv` joins the promises (`AssignedExact`,
`TaskOnce`, `StaysUp`) with what they rest on: `PlacesOK` (a request that is anywhere
was forwarded), `LinksOK` (a connection is made by the thread that holds its request,
and once, and answered by it, and once) and `ClientsOK` (who a client past `accept` is
connected with, and that a client done with a fit file has its answer), and `CountOK`
(who has loaded the counter holds the mutex and has its value).

`ForwardedIsAnswered` names the three places where a request can hang for ever: in
`accept`, the worker having ended; in crossed sends; and behind a pool all of whose
threads are held by clients in crossed sends (`Hangs`).

### Estimates, Frames, Numbers

`Times` is the product of two ints with its 32 bits, which `get_cpu_score` needs three
times; it is computed in limbs of 11 bits (`Limb`), because TLC's own integers have 32
bits too, and `TimesWraps` proves that the limbs give the product that wraps.  `get_cpu_score`
and `get_ram_score` keep the code's tests and their order, with `OnRung` for both: a
product of ints, or of floating-point numbers where a limit has a fraction.
`TaskUnits` is a set because 0.6, 0.3 and 0.1 in single precision may put a half below
the half.  `Processing` is the table of 50 (1 - tanh(0.03 r)) for the values r that
`worker_apc_for_request_type` can have.  `Numbers` replaces the parts of a machine
one by one by better ones, and lets the delay grow; its constants are the sets the parts
come from.  What holds, and where:
scores rank as plain comparisons would for products from 1 to 46435 (above it
`(score-10000)*(score-6000)` wraps and a large machine may fall a rung; at 0 a board gets
the best score); a slot is held for its time while the measured delay is between -15 and
474 ms.  `UpgradeHelps` needs one more condition, `Unwrapped`, which the proof brought
to light: the product processors x threads x MHz is an int as well, and 128
processors of 32 cores at 8200 MHz wrap it back onto the scale at a lower rung.
Options of `-g` go from 0, its default, to 10, since the master drops what is above.
`Frames` counts characters: 24 and 26 bytes are just enough for
an address of 15 characters and a port of 5, and the 15 bytes allocated for the former
suffice because glibc gives 24.

### FileTransfer

The exchange of a request of type 1 or 3.  `Chunk` is what `fread` or `fgets` takes
from the file, `Cut` the `strlen` of the text sender, `Transmit` a send with its
outcomes: taken, refused when empty, blocked when the direction is full (`Window`
messages), lost without notice when the other side has left (a failing send takes the
error that waits for `recv`, or leaves one).  `Starts` are the places
where a chunk begins when a file is read from its start, and `Carried` what the chunks
keep of it: the whole of an image, and of a text all but what follows a NUL in its chunk.  `Recv` is one iteration
of a receiver; SCTP keeps messages apart and both sides use the same size, so one
`recv` takes one message.  `Leave` is what the kernel does when a process
closes or ends: with messages unread it aborts the connection, which may lose what is
under way to the other side and makes its next `recv` fail.  `RecvError` is the failing `recv` taken
for a size.  The receiver's buffer holds NULs then.  Of an image, `fwrite` of (size_t) -1
bytes fills what is free in its block (`Block`) from the buffer, writes the block and gives
up, and the loop goes on: `junk` are the NULs that the file has got in this way after
`out`, what was received.  Of a text, `fputs` of the empty buffer writes nothing.  The byte
before the buffer decides whether the loop goes on or takes the file for complete; a text
may crash there.  `Written` is all of a side's file, and what the worker sends back.
`BreakPipe` is the `SIGPIPE`.  `char` is signed, as on the x86 machines the
deployment scripts rent.

`TransferInv` is types, `PosOK` (a sender stands between two chunks; the worker sends
nothing before it has received), `JunkOK`, `FlowOK` and `CalmOK`.  `JunkOK` says that only the
client's `recv` can fail, since a client that leaves has nothing unread as long as the worker
receives, and that it fails once, after all that is received, so that the NULs come last and
no more than fill a block.  `FlowOK` says of each direction that the receiver has
a prefix of what is sent and that the messages under way to it spell out what follows,
up to where the sender is or before it.  `CalmOK` adds, for fit files and as long as nobody is
killed, that no connection is aborted, that only the last message ends in 0xFF, and
that who has received has all and leaves nothing unread.

### Middleware

`host` says which process a worker runs in: its own or, with option `-w`, the
master's.  `up` are the processes that run; when one ends, so do all its threads, and
no step of theirs is enabled.  `thread` is the control point of each request's client
thread; `at` the worker it was written to, which may have ended, since nodes are never
removed.  `full` says that `select_worker` finds nobody to whom it may give a request;
estimates and reports change it at any time (`Load`), and `Place` waits for it, as the
retry loop does.  A worker serves as many requests at a time as its pool has threads
(`Serving`, `Free`).  The exchange of an unfit file may end the client or the worker
(`Break`) or block both (`Cross`).

`Fate` maps a state to `Service`: a request is lost as soon as nobody is
left who would bring its answer, also if its client still waits in `accept`.
`CalmKeepsAll` says when nothing is lost at all: as long as nobody was killed, no request
was forwarded before its client listened and no unfit file has begun to be exchanged.
`RequestsEnd` has two exceptions: a request may hang with its worker, blocked itself
or behind threads that all are, and it may stay in the master if time and again no
worker may be given one.

## 3. Runs

| Run | Instance | Shows |
|---|---|---|
| `ClientPool` | 3 connections, 2 threads, fair | `ListIsQueue`, `NoEmptyDequeue`, the inductive invariant `PoolInv`; refinement of `FifoPool`'s steps (`FifoSafety`) and of its fairness (`FifoSpec`); `EveryConnectionTaken` unless all threads stay in handlers |
| `DispatchPlace` | 1 thread, 2 requests, 2 workers with 1 slot, 2 delays, fair | `ScanIsBest`, `RequestPlaced` |
| `DispatchRace` | 2 threads, 4 requests, 1 worker with 1 slot that may crash | `DispatchInv`, `CapacityKept`, `DriftBounded` |
| `DispatchOverbooked` | 2 threads, 1 worker with 1 slot | **violated**: `NeverOverbooked` |
| `DispatchWriteFailure` | 1 thread, 1 worker that may crash | **violated**: `WriteFailureStops` |
| `WorkerPool` | 2 workers and a stray uuid, 2 threads, 2 versions, early connections, spurious wake-ups, fair | `PoolInv`, `OneHandler`, `SignalsBacked`, `ListSound`, `NoNodeLost`, `RowsWhole`; refinement of `MetadataList` (`ListSpec`); `ReadIsListed`, `StrandedByLoss` |
| `WorkerPoolLostSignal` | 1 worker, 1 thread, early connection, fair | **violated**: `QueuedIsGrabbed` |
| `WorkerPoolSlots` | 2 workers, 1 thread, fair | **violated**: `SlotsComeBack` |
| `TaskPoolServe` | 2 clients, one with an unfit file that comes back, one that may quit, both perhaps late; backlog of 1; 1 hollow request, a master that may end; 2 threads, fair | `TaskInv`, `AssignedExact`, `TaskOnce`, `StaysUp`, `ForwardedIsAnswered`, `WorkerFollowsMaster` |
| `Numbers` | 8 numbers of processors, 3 of cores, 9 clocks, 10 sizes of memory, 3 GPU scores, 5 delays, 27 pairs of lengths, all types | `ScoresRank`, `SlotHeld`, `CallbackReaches`, `UpgradeHelps` |
| `FileTransfer` | all files of up to 4 bytes of 4 sorts, 256 of 8 bytes; both kinds; chunks and blocks of 2 bytes, 2 messages each way; kills; fair | `TransferInv`, `NothingInvented`, `CopySpec`, `TransferEnds` |
| `Middleware` | 3 requests of 2 client processes, one with an unfit file; 2 workers of 1 thread, the first perhaps in the master; kills; fair | `MiddlewareInv`, `CalmKeepsAll`, `ServiceSpec`, `RequestsEnd`, `AllFollowMaster` |

The four violated properties, in words:

1. *Slots are overbooked.*  Two client threads find the last slot free and both take it,
   because the lock around `select_worker` is a comment.  `CapacityKept` (and
   `CounterExact`, which the proofs have as a theorem) say how far the code can be trusted:
   until two updates of one counter overlap.  `DriftBounded` says how bad it gets after
   that: each crossing costs at most one.
2. *A failed write goes unnoticed.*  `check` gets a comparison, never -1.
3. *A connection that comes before the pool waits is stranded.*  A thread waits
   before it looks at the queue.  `SignalsBacked` gives the account: the queue is
   longer than the woken threads by at most the number of signals that met nobody.
   `StrandedByLoss` says that nothing else strands a connection.
4. *Handlers never come back.*  A sixth worker is never served, though the five before
   it have left.

**Bounds.**  Instances have the fewest actors that meet: two threads for each race, one
more connection than threads for the FIFO order and for waiting in the queue.  One slot
and four requests are the fewest with which a counter can be lost in either direction
more than once and the worker be overbooked up to the bound and past it: in `DispatchRace`
both sides of `DriftBounded` are reached with equality.  Its threads and its
requests, all of one type, are interchangeable, and it checks invariants only, so the
symmetry is sound.  Two list nodes and a stray give insertion at the head, in front of a
node, and updates of first and later nodes.  No counter needs a bound for the
state space to be finite: connections recur in `ClientPool` and requests are placed
once in `Dispatch`; `lost` is bounded by the number of connections.  In `TaskPool` the
empty reads are endless in the code; `Hollow` bounds them, and one is enough to call a
client a second time.  In `FileTransfer` four chunks are what it takes to fill both directions
while the end of the file is still unread; kernel buffers hold more, and so
must a file that blocks; a block of stdio there has the size of a chunk, and may be partly filled when the
`recv` fails.  The backlog of a client is 5 in the code; 1 is enough for a
second call, of a hollow request, to be refused.  In `Middleware` two requests share a client
and each can be at either worker; with one thread a single blocked request holds up all
others of its worker; the workers are alike, so that it is enough to let the first run in the
master (`Insiders`).  `IntMax` is any
number above the instance's estimates.

**Deadlock** is checked in `ClientPool` and in the runs of `Dispatch` where the master
cannot end (rows are refreshed for ever).  It is off where processes may end, every
client has been served, or the inputs are used up; there `TransferEnds`,
`ForwardedIsAnswered` and `RequestsEnd` say what may be left.

**Fairness.**  The threads are POSIX threads on a preemptive scheduler, so a thread
that can run does run: weak fairness for each thread and for the servers.  A mutex
that threads take again and again needs more: the pool's threads get strong
fairness for `Lock`, `Relock` and `LockList` in `WorkerPool`, that is, a thread that
asks for the mutex while it comes free infinitely often gets it; the holders leave it
after a few steps and glibc's futex wakes those that wait.  `ClientPool`
needs weak fairness only: a thread takes the mutex once per connection.
Nothing is assumed of clients, workers and their messages, except that a client that
has asked goes on (`TaskPool`, `Middleware`) and that a read at the end of a stream
returns.  A handler of a client's connection is not assumed to return (`Handle`), nor a
blocked send (`Cross`).  The metadata thread wakes every 30 seconds (`Sync`, `LoseMaster`).
`RequestPlaced` carries its own condition: some worker is, from some time on, able to
take a request.  `Middleware`'s `Place` is weakly fair because `RequestPlaced` holds in
`Dispatch`: it has to come about only if from some time on `full` is false and the list
has a worker.

## 4. Proofs

All for arbitrary constants under the named assumptions of the modules, which say no
more than that names differ (and `NULL` is none of the values it stands beside), sets of
threads and requests are finite and the master has a thread, estimates
and limits are numbers, files are sequences, chunks and buffers are not empty, ports
have up to 5 digits, addresses 7 to 15 characters, sizes of memory fit an int and `-g` has its
range.

*ClientPool.*  `ListIsQueue` is not inductive: `Advance` needs the head not to be
NULL, which needs the semaphore's account, which needs mutual exclusion.
`PoolInv` is the conjunction of types, `MutexOK`, `ListIsQueue`, `OnePlace` (a connection is
in one place) and `ClaimsBacked` (semaphore plus threads under way plus one unposted
node is the queue's length).  `ServerSteps` and `ThreadSteps` show each action keeps
it, `NonemptyWhenClaimed` is the arithmetic that a claimant implies a node.
`PoolIsFifo` maps `Link` to `Enqueue`, `Advance` to `Take`, `Handle` to `Release`,
and every other step to a stutter.

*Lists.*  Six lemmas about the least closed set are all that the proofs about lists use:
it is closed, it is least, it is empty at the end of a list; the nodes from a node on are that node and those
from its next on; changing nodes that are not on a list leaves it alone; an
insertion at the head adds one node and keeps the end.  `WalksEnd`
connects `ComesToEnd` with walking: every walk along such a list ends.

*Dispatch.*  `Serial` is the heart: for a worker whose counter was never raced on,
`est` is the number of holders, at most one thread or sleeper is in the middle of an
update, and what this one has seen is still true.  It needs the types, `LocalsOK`,
`PlacedOnce` (a request is with one thread and takes one slot) and `PointersListed`.
`Exclusive` says that two different updaters of the same worker cannot both be there
without `raced`.  `CounterIsExact` and `CapacityIsKept` follow.
`DriftIsBounded` needs the same of the counts that are loaded and not yet stored, and counts a
thread that is about to take a slot as if it had it (`Drift`).  A step that moves no slot
keeps it, since a new load is as good as the counter (`DriftKept`); a step that takes a
slot or gives one back stores its own count plus or minus one, which follows the
holders, and puts the other loaded counts off by one, which `crossed` counts exactly when there
are any (`DriftMoved`).  The sleeper that finds 0 and gives up without a decrement is such a
step as well.  That `crossed` is 0 until there is a race comes from `Serial`.
`TableIsList` maps `Register`, `RefreshUsage` and `RefreshDelay` to their namesakes in `MetadataList`,
everything else to a stutter.
`ScanPicksBest` follows from `ScanOK` at the end of the list, where nothing is ahead.
The steps of `ScanOK` are split in two: a step of the scanning thread moves
one worker from ahead of the cursor to behind it, or makes it the best
(`OwnScanStep`); any other step either ends `steady` or changes nothing the scan looks
at (`ScanFrame`).  A node registered in the middle of a scan ends `steady`.

*WorkerPool.*  `PoolInv` is types, `MutexOK`, `LocalsOK`, `OneHandler`, `SignalsBacked`,
`RowsOK` (a row's two fields differ only while a handler is between their
stores), `ListSound`, `NoNodeLost` and `SearchOK`.  `RowsAreWhole` combines `RowsOK`
with mutual exclusion.  For the list there are four lemmas, one for each way a step can
touch it: `SearchStep` moves a cursor, `UpdateStep` writes a node that is on the list,
`LinkStep` fills a node that is not, `PublishStep` makes it the head.  Mutual exclusion
is needed for the last two: nobody else may publish between the link and the publication (`OthersOutside`).
That readers follow the list without the mutex is why `ListSound` must hold between
these stores too.  `ListIsServed` is the refinement of `MetadataList`: the two stores of an
update (`UpdateUsageRefines`, `UpdateDelayRefines`) and the publication (`PublishRefines`)
are its steps; every other step leaves the rows of the nodes on the list alone
(`RowsFrame`) and changes neither the head nor who is between two stores.  Mutual
exclusion gives that there is only one such update, `ListSound` that a node that
appears is new.

*TaskPool.*  `TaskOnce` alone is not inductive: that the next request forwarded is in no
other place needs `PlacesOK`, and that a thread does not connect for a request already
connected needs `LinksOK`.  The sequences of requests (on the wire and in the queue) enter
through `OnceAppend` and `OnceTail` only.  `AssignedExact` counts threads: each store of
`CountSteps` adds one to the set and the counter, or takes one from both, because what was
loaded still is the counter (`CountOK`).  `StaysUp`
needs `ClientsOK`: with nobody hasty, quitting, hollow or unfit, `CalmCall` shows that a thread
that calls finds its client listening with nobody else waiting there, so no call fails
and no third failure comes about, and that a client is not done before it is answered, so
nobody writes to a closed socket.

*FileTransfer.*  Three layers.  Chunks: `ChunkIs` and `CutIs` say what a chunk is without
its minima, `ChunkAt` that the next chunk begins where this one ends (the sets of
positions they keep do not overlap: `StartsApart`), and `CarriedNext` that the sender's next
message is the next part of `Carried`, by the cardinality of the positions kept so far.
Streams: messages between two places of a sequence can be appended to, taken from
and cut (`FlowSend`, `FlowRecv`, `FlowCut`); the final byte is one more element of the sequence.
`JunkOK` has a lemma for each way to touch it (`JunkStays`, `TransmitJunk`, `LeaveJunk`); with it
what the worker sends back is what it has received (`ContentOf`), and the NULs of a failing
`recv` are one more thing that the client writes (`ErrorDelivers`).
Steps: one lemma per action, each with a calm part; `LeaveInv` is shared by the four ways to leave.
`StepCopies` maps a message that the client writes to `Copy`'s `Deliver`, its leaving to
`Finish`, a kill to `Disturb`, and every other step to a stutter; that `Finish` finds the whole
file is `CalmOK`.

*Middleware.*  `MiddlewareInv` is types, `PointsOK` (what a thread's control point says
about its request: an empty answer means a worker that has ended, and so on), `ThreadsKept`
(no worker serves more than its threads can) and `CalmOK`.  `NoFailureAlone` follows because
every exit in the code has a cause that `CalmOK` excludes.  `ServiceImplemented` rests on `EndOfOne`: the end of a process
changes the fate of exactly those requests that rely on it; each action is then one
step of `Service` or a stutter.  Fairness is not used.

*Numbers.*  `TimesWraps` puts the limbs together: each carries into the next, what is left is the
product modulo 2^32, and the sign is right.  From it follows that the test of a rung, where
it does not wrap, compares the score with the two limits, as every test of a size of memory
does that fits an int; a score is then the number
of limits passed (`CpuRank`, `RamRank`), and a better part passes no fewer.  `UpgradeHelps` carries
this through the limits on tasks, the capacity for a type, and the estimate: each is monotone
in each score, as a table or as a sum with positive weights.  `Typed` (the scores are in their
ranges, `worker` is what `host` gives) is the inductive invariant.  `SlotHeld` and
`CallbackReaches` follow from it by cases over the table and by arithmetic on lengths.

**Model-checked only.**  All liveness properties (`EveryConnectionTaken`, `RequestPlaced`,
`ReadIsListed`, `StrandedByLoss`, `ForwardedIsAnswered`, `WorkerFollowsMaster`,
`TransferEnds`, `RequestsEnd`, `AllFollowMaster`) and the fairness in the refinements
`FifoSpec` and `CopySpec`: the prover does not do `ENABLED`; their safety parts
`FifoSafety` and `CopySafety` are proved.

## 5. Not modelled, and why

- *Metadata lines* (`metadata_to_str`, `str_to_metadata`): written and read with one
  format, and the fields of a message are a record in `WorkerPool`.  The frame's
  uninitialised tail does not matter, since the frame and the master's buffer have the
  same size.
- *`remove_from_list`* is never called.
- *Memory written out of bounds* (`buffer[-1]` after an empty read): no variable of the
  models lies there; the control flow after it is modelled.
- *What is answered* by types 2, 4, 5 and 6: a constant, the time, a city.
- *Reading `/proc`, options, usage texts, time measurements, scripts*: input and output.
- *Partial delivery of SCTP messages*, which would take messages larger than the
  receiver's buffer.
- *Restarts*: nothing is stored, and a process that is started again is a new one.

## 6. Plan

All components of the inventory are modelled at the level of their interfaces, and every
invariant, action property and refinement step that a run checks is proved.  What a
prover with `ENABLED` could add are the liveness properties named above; what a larger model
could add is in section 5.
