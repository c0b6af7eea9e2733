---------------------------- MODULE TaskPoolProofs ----------------------------
(***************************************************************************)
(* Proofs about TaskPool for any set of tasks and hollow requests and any  *)
(* finite set of threads: TaskInv is inductive, so assigned_tasks counts   *)
(* the requests that are being served, each request is in one place and    *)
(* served once, and the worker ends only for the causes that Calm names.   *)
(***************************************************************************)
EXTENDS TaskPool, FiniteSetTheorems, SequenceTheorems, TLAPS

USE TaskPoolAssumption

-------------------------------------------------------------------------------
(* The wire and the queue: sequences in which nothing is twice. *)

Elements(s) == {s[i] : i \in 1..Len(s)}
Once(s) == \A i, j \in 1..Len(s) : s[i] = s[j] => i = j

\* Appending adds one element, and what was not there is there once.
LEMMA OnceAppend ==
  ASSUME NEW S, NEW s \in Seq(S), NEW x \in S
  PROVE  /\ Append(s, x) \in Seq(S)
         /\ Elements(Append(s, x)) = Elements(s) \cup {x}
         /\ Once(s) /\ x \notin Elements(s) => Once(Append(s, x))
<1> DEFINE q == Append(s, x)
<1>1. /\ q \in Seq(S) /\ Len(q) = Len(s) + 1 /\ Len(s) \in Nat
      /\ \A i \in 1..Len(s) : q[i] = s[i]
      /\ q[Len(s) + 1] = x
  BY AppendProperties, LenProperties
<1> HIDE DEF q
<1>2. Elements(q) = Elements(s) \cup {x}
  <2>1. ASSUME NEW y \in Elements(q) PROVE y \in Elements(s) \cup {x}
    BY <1>1, <2>1 DEF Elements
  <2>2. ASSUME NEW y \in Elements(s) PROVE y \in Elements(q)
    BY <1>1, <2>2 DEF Elements
  <2>3. x \in Elements(q)
    BY <1>1 DEF Elements
  <2> QED
    BY <2>1, <2>2, <2>3
<1>3. Once(s) /\ x \notin Elements(s) => Once(q)
  BY <1>1 DEF Once, Elements
<1> QED
  BY <1>1, <1>2, <1>3 DEF q

\* What is taken from the front is not among the rest.
LEMMA OnceTail ==
  ASSUME NEW S, NEW s \in Seq(S), s # <<>>
  PROVE  /\ Head(s) \in S /\ Head(s) \in Elements(s)
         /\ Tail(s) \in Seq(S)
         /\ Elements(Tail(s)) \subseteq Elements(s)
         /\ Once(s) => Once(Tail(s)) /\ Head(s) \notin Elements(Tail(s))
<1> DEFINE q == Tail(s)
<1>1. /\ Head(s) \in S /\ Head(s) = s[1]
      /\ q \in Seq(S) /\ Len(q) = Len(s) - 1 /\ Len(s) \in Nat \ {0}
      /\ \A i \in 1..Len(q) : q[i] = s[i + 1]
  BY HeadTailProperties, EmptySeq
<1> HIDE DEF q
<1>2. Head(s) \in Elements(s)
  BY <1>1 DEF Elements
<1>3. Elements(q) \subseteq Elements(s)
  BY <1>1 DEF Elements
<1>4. Once(s) => Once(q) /\ Head(s) \notin Elements(q)
  BY <1>1 DEF Once, Elements
<1> QED
  BY <1>1, <1>2, <1>3, <1>4 DEF q

\* The same words for the wire and the queue.
LEMMA OnceWords ==
  /\ Wired = Elements(wire) /\ Queued = Elements(queue)
  /\ (\A i, j \in 1..Len(wire) : wire[i] = wire[j] => i = j) <=> Once(wire)
  /\ (\A i, j \in 1..Len(queue) : queue[i] = queue[j] => i = j) <=> Once(queue)
BY DEF Wired, Queued, Elements, Once

LEMMA OnceWordsNext ==
  /\ Wired' = Elements(wire') /\ Queued' = Elements(queue')
  /\ (\A i, j \in 1..Len(wire') : wire'[i] = wire'[j] => i = j) <=> Once(wire')
  /\ (\A i, j \in 1..Len(queue') : queue'[i] = queue'[j] => i = j) <=> Once(queue')
BY DEF Wired, Queued, Elements, Once

-------------------------------------------------------------------------------
(* The invariant. *)

\* Before anything is asked nothing is forwarded, held or connected.
LEMMA InitInv == Init => TaskInv
<1> SUFFICES ASSUME Init PROVE TaskInv
  OBVIOUS
<1>1. TypeOK
  <2>1. wire \in Seq(Requests) /\ queue \in Seq(Requests)
    BY EmptySeq DEF Init
  <2>2. tries \in [Threads -> 0..Tries - 1]
    BY DEF Init, Tries
  <2> QED
    BY <2>1, <2>2 DEF Init, TypeOK, Requests
<1>2. AssignedExact
  <2>1. Serving = {}
    BY DEF Init, Serving
  <2> QED
    BY <2>1, FS_EmptySet DEF Init, AssignedExact
<1>3. Wired = {} /\ Queued = {} /\ Taken = {}
  BY DEF Init, Wired, Queued, Taken
<1>4. TaskOnce
  BY <1>3 DEF Init, TaskOnce
<1>5. PlacesOK /\ LinksOK /\ ClientsOK /\ CountOK /\ StaysUp
  BY <1>3 DEF Init, CountOK, PlacesOK, LinksOK, ClientsOK, StaysUp, Requests
<1> QED
  BY <1>1, <1>2, <1>4, <1>5 DEF TaskInv

\* What a thread at connect or beyond holds, as long as nothing has gone wrong: a task
\* with a fit file, whose client has bound and listened and is there for it alone.
LEMMA CalmCall ==
  ASSUME TaskInv, Calm, NEW t \in Threads, pc[t] \notin {"wait", "take"}
  PROVE  /\ task[t] \in Tasks \ Unfit /\ target[task[t]] = task[t]
         /\ client[task[t]] \in {"listening", "waiting", "done"}
         /\ client[task[t]] = "done" => task[t] \in answered
         /\ \A r \in linked : target[r] = task[t] => r = task[t]
<1>1. /\ task[t] \in forwarded /\ forwarded \subseteq Requests
      /\ forwarded \cap (Hollow \cup Unfit) = {} /\ running
  BY DEF TaskInv, PlacesOK, TypeOK, Calm, StaysUp
<1>2. task[t] \in Tasks \ Unfit /\ target[task[t]] = task[t]
  BY <1>1 DEF TaskInv, ClientsOK, Requests
<1>3. client[task[t]] \in {"listening", "waiting", "done"}
  BY <1>1, <1>2 DEF TaskInv, TypeOK, ClientsOK, Calm
<1>4. ASSUME NEW r \in linked, target[r] = task[t] PROVE r = task[t]
  <2>1. r \in Tasks
    BY <1>1 DEF TaskInv, LinksOK, Requests
  <2> QED
    BY <1>4, <2>1 DEF TaskInv, ClientsOK
<1>5. ASSUME client[task[t]] = "done" PROVE task[t] \in answered
  <2>1. peer[task[t]] \in linked /\ target[peer[task[t]]] = task[t] /\ peer[task[t]] \in answered
    BY <1>1, <1>2, <1>5 DEF TaskInv, ClientsOK
  <2> QED
    BY <1>4, <2>1
<1> QED
  BY <1>2, <1>3, <1>4, <1>5

\* Steps that leave the requests where they are, and the threads, keep what is said of
\* both.
LEMMA PlacesFrame ==
  ASSUME TaskInv, UNCHANGED <<wire, queue, read, pc, task, count, linked, answered, forwarded>>
  PROVE  CountOK' /\ AssignedExact' /\ TaskOnce' /\ PlacesOK' /\ LinksOK'
<1> USE DEF TaskInv
<1>1. Wired' = Wired /\ Queued' = Queued /\ Taken' = Taken /\ Serving' = Serving
  BY DEF Wired, Queued, Taken, Serving
<1>2. CountOK' /\ AssignedExact'
  BY <1>1 DEF CountOK, AssignedExact, count
<1>3. TaskOnce'
  BY <1>1 DEF TaskOnce
<1>4. PlacesOK'
  BY <1>1 DEF PlacesOK
<1>5. LinksOK'
  BY <1>1 DEF LinksOK
<1> QED
  BY <1>2, <1>3, <1>4, <1>5

\* Steps of the clients touch neither the worker nor what is in it.
LEMMA ClientSteps ==
  ASSUME TaskInv, NEW c \in Tasks,
         \/ Ask(c) \/ Listen(c) \/ AcceptWorker(c) \/ GetAnswer(c) \/ GetEarlyEnd(c)
         \/ GetNothing(c) \/ Quit(c)
  PROVE  TaskInv'
<1> USE DEF TaskInv
<1>1. UNCHANGED <<reader, queue, sem, pool, running, others>>
  BY DEF Ask, Listen, AcceptWorker, GetAnswer, GetEarlyEnd, GetNothing, Quit
<1>2. CASE AcceptWorker(c)
  <2>1. PICK r \in linked :
          /\ target[r] = c /\ peer' = [peer EXCEPT ![c] = r]
          /\ sent' = IF c \in Upload THEN sent \cup {r} ELSE sent
          /\ client' = [client EXCEPT ![c] = "waiting"] /\ client[c] = "listening"
    BY <1>2 DEF AcceptWorker
  <2>2. TypeOK'
    BY <1>1, <2>1 DEF TypeOK, reader, pool, count, links, others
  <2>3. ClientsOK'
    BY <1>1, <2>1 DEF ClientsOK, TypeOK, reader, pool, links, others
  <2>4. Calm' => Calm
    BY <1>1, <2>1 DEF Calm, TypeOK, others
  <2> QED
    BY <1>1, <2>2, <2>3, <2>4, PlacesFrame DEF reader, pool, links, others, StaysUp
<1>3. CASE ~AcceptWorker(c)
  <2>1. PICK to \in {"asked", "listening", "done", "quit"} :
          /\ client' = [client EXCEPT ![c] = to] /\ UNCHANGED <<peer, sent>>
          /\ to = "done" => client[c] = "waiting"
          /\ to = "asked" => client[c] = "idle"
          /\ client[c] # "quit"
          /\ to = "done" /\ running /\ c \notin Unfit => peer[c] \in answered
    BY <1>3, Zenon DEF Ask, Listen, GetAnswer, GetEarlyEnd, GetNothing, Quit, Ends
  <2>2. TypeOK'
    BY <1>1, <2>1 DEF TypeOK, reader, pool, count, links, others
  <2>3. ~hasty /\ c \in forwarded => to # "asked"
    BY <2>1 DEF ClientsOK
  <2>4. ClientsOK'
    BY <1>1, <2>1, <2>3 DEF ClientsOK, TypeOK, reader, pool, links, others
  <2>5. Calm' => Calm
    BY <1>1, <2>1 DEF Calm, TypeOK, others
  <2> QED
    BY <1>1, <2>2, <2>4, <2>5, PlacesFrame DEF reader, pool, links, others, StaysUp
<1> QED
  BY <1>2, <1>3

\* The master sends what it has not sent, and in haste only if it is remembered.
LEMMA MasterSteps ==
  ASSUME TaskInv, (\E r \in Requests : Forward(r)) \/ MasterEnds
  PROVE  TaskInv'
<1> USE DEF TaskInv
<1>1. ASSUME NEW r \in Requests, Forward(r) PROVE TaskInv'
  <2>1. r \notin Wired \cup Queued \cup Taken \cup {read} \cup linked
    BY <1>1 DEF Forward, PlacesOK, LinksOK, Taken, Requests
  <2>2. wire' \in Seq(Requests) /\ Wired' = Wired \cup {r} /\ Once(wire')
    BY <1>1, <2>1, OnceAppend, OnceWords, OnceWordsNext DEF Forward, TypeOK, TaskOnce
  <2>3. Queued' = Queued /\ Taken' = Taken
    BY <1>1 DEF Forward, Queued, Taken, pool, count, links
  <2>4. TypeOK'
    BY <1>1, <2>2 DEF TypeOK, Forward, clients, pool, count, links
  <2>5. CountOK' /\ AssignedExact'
    BY <1>1 DEF CountOK, AssignedExact, Serving, Forward, pool, count, links
  <2>6. TaskOnce'
    BY <1>1, <2>1, <2>2, <2>3, OnceWordsNext DEF TaskOnce, Forward, pool, count, links
  <2>7. PlacesOK' /\ LinksOK'
    BY <1>1, <2>1, <2>2, <2>3 DEF PlacesOK, LinksOK, Forward, pool, count, links
  <2>8. ClientsOK'
    BY <1>1 DEF ClientsOK, Forward, clients, pool, count, links, TypeOK
  <2>9. StaysUp'
    BY <1>1 DEF StaysUp, Forward
  <2> QED
    BY <2>4, <2>5, <2>6, <2>7, <2>8, <2>9
<1>2. ASSUME MasterEnds PROVE TaskInv'
  <2>1. TypeOK'
    BY <1>2 DEF MasterEnds, TypeOK, clients, reader, pool, count, links
  <2>2. CountOK' /\ AssignedExact' /\ TaskOnce' /\ PlacesOK' /\ LinksOK'
    BY <1>2, PlacesFrame DEF MasterEnds, reader, pool, count, links
  <2>3. ClientsOK'
    BY <1>2 DEF MasterEnds, ClientsOK, clients, reader, pool, count, links
  <2>4. StaysUp'
    BY <1>2 DEF MasterEnds, StaysUp, Calm
  <2> QED
    BY <2>1, <2>2, <2>3, <2>4
<1> QED
  BY <1>1, <1>2

\* Parsing completes a hollow request and leaves the others alone.
LEMMA ParseStep ==
  ASSUME TaskInv, NEW r \in Requests \ linked, Parse(r)
  PROVE  /\ last' \in Tasks \cup {NULL} /\ target' \in [Requests -> Tasks \cup {NULL}]
         /\ \A q \in Tasks \cup linked : target'[q] = target[q]
         /\ read' = r
<1>1. /\ target \in [Requests -> Tasks \cup {NULL}] /\ last \in Tasks \cup {NULL}
      /\ Tasks \cup linked \subseteq Requests
  BY DEF TaskInv, TypeOK, Requests
<1>2. CASE r \in Tasks
  BY <1>1, <1>2 DEF Parse
<1>3. CASE r \notin Tasks
  <2>1. PICK c \in Tasks \cup {NULL} : target' = [target EXCEPT ![r] = c]
    BY <1>1, <1>3 DEF Parse
  <2>2. r \notin Tasks \cup linked
    BY <1>3
  <2> QED
    BY <1>1, <1>3, <2>1, <2>2 DEF Parse
<1> QED
  BY <1>2, <1>3

\* The reader moves a request from the wire to its variables and on to the queue.
LEMMA ServerSteps ==
  ASSUME TaskInv, ServerStep
  PROVE  TaskInv'
<1> USE DEF TaskInv
<1>1. ASSUME ReadRequest PROVE TaskInv'
  <2> DEFINE r == Head(wire)
  <2>1. /\ r \in Requests /\ r \in Wired /\ wire' \in Seq(Requests)
        /\ Wired' \subseteq Wired /\ Once(wire') /\ r \notin Wired'
    BY <1>1, OnceTail, OnceWords, OnceWordsNext DEF ReadRequest, TypeOK, TaskOnce
  <2>2. Queued' = Queued /\ Taken' = Taken
    BY <1>1 DEF ReadRequest, Queued, Taken, pool, count, links
  <2>3. /\ last' \in Tasks \cup {NULL} /\ target' \in [Requests -> Tasks \cup {NULL}]
        /\ \A q \in Tasks \cup linked : target'[q] = target[q]
        /\ read' = r
    BY <1>1, <2>1, ParseStep DEF ReadRequest, LinksOK
  <2> HIDE DEF r
  <2>4. TypeOK'
    BY <1>1, <2>1, <2>3 DEF TypeOK, ReadRequest, clients, pool, count, links, others
  <2>5. CountOK' /\ AssignedExact'
    BY <1>1 DEF CountOK, AssignedExact, Serving, ReadRequest, pool, count, links
  <2>6. TaskOnce'
    BY <1>1, <2>1, <2>2, <2>3, OnceWordsNext DEF TaskOnce, ReadRequest, pool, count, links
  <2>7. PlacesOK' /\ LinksOK'
    BY <1>1, <2>1, <2>2, <2>3 DEF PlacesOK, LinksOK, ReadRequest, pool, count, links, others
  <2>8. ClientsOK'
    BY <1>1, <2>3 DEF ClientsOK, ReadRequest, clients, pool, count, links, others
  <2>9. StaysUp'
    BY <1>1 DEF StaysUp, Calm, ReadRequest, clients, others
  <2> QED
    BY <2>4, <2>5, <2>6, <2>7, <2>8, <2>9
<1>2. ASSUME ReadNothing PROVE TaskInv'
  <2>1. PICK r \in Hollow \ forwarded : Parse(r) /\ forwarded' = forwarded \cup {r}
    BY <1>2 DEF ReadNothing
  <2>2. r \in Requests /\ r # NULL /\ r \notin Wired \cup Queued \cup Taken \cup linked
    BY <2>1 DEF PlacesOK, LinksOK, Taken, Requests
  <2>3. Wired' = Wired /\ Queued' = Queued /\ Taken' = Taken
    BY <1>2 DEF ReadNothing, Wired, Queued, Taken, pool, count, links
  <2>4. /\ last' \in Tasks \cup {NULL} /\ target' \in [Requests -> Tasks \cup {NULL}]
        /\ \A q \in Tasks \cup linked : target'[q] = target[q]
        /\ read' = r
    BY <2>1, <2>2, ParseStep
  <2>5. TypeOK'
    BY <1>2, <2>1, <2>2, <2>4 DEF TypeOK, ReadNothing, clients, pool, count, links
  <2>6. CountOK' /\ AssignedExact'
    BY <1>2 DEF CountOK, AssignedExact, Serving, ReadNothing, pool, count, links
  <2>7. TaskOnce'
    BY <1>2, <2>2, <2>3, <2>4 DEF TaskOnce, ReadNothing, pool, count, links
  <2>8. PlacesOK' /\ LinksOK'
    BY <1>2, <2>1, <2>2, <2>3, <2>4 DEF PlacesOK, LinksOK, ReadNothing, pool, count, links
  <2>9. ClientsOK'
    BY <1>2, <2>1, <2>4 DEF ClientsOK, ReadNothing, clients, pool, count, links
  <2>10. StaysUp'
    BY <1>2 DEF StaysUp, Calm, ReadNothing
  <2> QED
    BY <2>5, <2>6, <2>7, <2>8, <2>9, <2>10
<1>3. ASSUME QueueRequest PROVE TaskInv'
  <2>1. read \in Requests /\ read \notin Wired \cup Queued \cup Taken
    BY <1>3 DEF QueueRequest, TypeOK, TaskOnce
  <2>2. queue' \in Seq(Requests) /\ Queued' = Queued \cup {read} /\ Once(queue')
    BY <1>3, <2>1, OnceAppend, OnceWords, OnceWordsNext DEF QueueRequest, TypeOK, TaskOnce
  <2>3. Wired' = Wired /\ Taken' = Taken
    BY <1>3 DEF QueueRequest, Wired, Taken, pool, count, links
  <2>4. NULL \notin Wired \cup Queued \cup Taken \cup {read} \cup linked
    BY <1>3, <2>1 DEF PlacesOK, LinksOK, Taken, TypeOK, Requests
  <2>5. TypeOK'
    BY <1>3, <2>2 DEF TypeOK, QueueRequest, clients, pool, count, links, others
  <2>6. CountOK' /\ AssignedExact'
    BY <1>3 DEF CountOK, AssignedExact, Serving, QueueRequest, pool, count, links
  <2>7. TaskOnce'
    BY <1>3, <2>1, <2>2, <2>3, <2>4, OnceWordsNext DEF TaskOnce, QueueRequest, pool, count, links
  <2>8. PlacesOK' /\ LinksOK'
    BY <1>3, <2>1, <2>2, <2>3, <2>4 DEF PlacesOK, LinksOK, QueueRequest, pool, count, links, others
  <2>9. ClientsOK' /\ StaysUp'
    BY <1>3 DEF ClientsOK, StaysUp, Calm, QueueRequest, clients, pool, count, links, others
  <2> QED
    BY <2>5, <2>6, <2>7, <2>8, <2>9
<1> QED
  BY <1>1, <1>2, <1>3 DEF ServerStep
-------------------------------------------------------------------------------
(* The threads of the pool. *)

\* The threads that serve a request are finitely many, so one more or one less counts.
LEMMA ServingFinite == IsFiniteSet(Serving) /\ Cardinality(Serving) \in Nat
BY FS_Subset, FS_CardinalityType DEF Serving

\* Steps that leave the wire, the reader and the clients alone, and the count exact,
\* keep the invariant if the places, the connections and the process do.
LEMMA PoolFrame ==
  ASSUME TaskInv, UNCHANGED <<clients, reader, others>>, running,
         TypeOK', CountOK', AssignedExact', TaskOnce', PlacesOK', LinksOK',
         linked \subseteq linked', answered \subseteq answered', Calm => running'
  PROVE  TaskInv'
<1>1. ClientsOK'
  BY DEF TaskInv, ClientsOK, clients, reader, others
<1>2. StaysUp'
  BY DEF StaysUp, Calm, clients, others
<1> QED
  BY <1>1, <1>2 DEF TaskInv

\* sem_wait and taking a request from the queue: it moves to one thread.
LEMMA TakeSteps ==
  ASSUME TaskInv, NEW t \in Threads, running, SemWait(t) \/ Take(t)
  PROVE  TaskInv'
<1> USE DEF TaskInv
<1>1. ASSUME SemWait(t) PROVE TaskInv'
  <2>1. TypeOK'
    BY <1>1 DEF TypeOK, SemWait, Goto, clients, reader, count, links, others
  <2>2. CountOK' /\ AssignedExact'
    <3>1. Serving' = Serving
      BY <1>1 DEF Serving, SemWait, Goto, TypeOK
    <3> QED
      BY <1>1, <3>1 DEF CountOK, AssignedExact, SemWait, Goto, TypeOK, count
  <2>3. Wired' = Wired /\ Queued' = Queued /\ Taken' = Taken
    BY <1>1 DEF Wired, Queued, Taken, SemWait, reader
  <2>4. TaskOnce' /\ PlacesOK' /\ LinksOK'
    BY <1>1, <2>3 DEF TaskOnce, PlacesOK, LinksOK, SemWait, Goto, TypeOK, reader, links, others
  <2> QED
    BY <1>1, <2>1, <2>2, <2>4, PoolFrame DEF SemWait, links
<1>2. ASSUME Take(t), queue = <<>> PROVE TaskInv'
  <2>1. TypeOK'
    BY <1>2 DEF TypeOK, Take, Goto, clients, reader, count, links, others
  <2>2. CountOK' /\ AssignedExact'
    <3>1. Serving' = Serving
      BY <1>2 DEF Serving, Take, Goto, TypeOK
    <3> QED
      BY <1>2, <3>1 DEF CountOK, AssignedExact, Take, Goto, TypeOK, count
  <2>3. Wired' = Wired /\ Queued' = Queued /\ Taken' = Taken
    BY <1>2 DEF Wired, Queued, Taken, Take, reader
  <2>4. TaskOnce' /\ PlacesOK' /\ LinksOK'
    <3>1. UNCHANGED <<clients, reader, queue, task, links, others>>
      BY <1>2 DEF Take
    <3>2. TaskOnce'
      <4>1. \A u \in Threads : pc'[u] = "connect" => pc[u] = "connect"
        BY <1>2 DEF Take, Goto, TypeOK
      <4> QED
        BY <2>3, <3>1, <4>1 DEF TaskOnce, reader, links
    <3>3. PlacesOK'
      BY <1>2, <2>3, <3>1 DEF PlacesOK, Take, Goto, TypeOK, reader, links, others
    <3>4. LinksOK'
      BY <1>2, <2>3, <3>1 DEF LinksOK, Take, Goto, TypeOK, reader, links, others
    <3> QED
      BY <3>2, <3>3, <3>4
  <2> QED
    BY <1>2, <2>1, <2>2, <2>4, PoolFrame DEF Take, links
<1>3. ASSUME Take(t), queue # <<>> PROVE TaskInv'
  <2> DEFINE r == Head(queue)
  <2>1. /\ r \in Requests /\ r \in Queued /\ queue' \in Seq(Requests)
        /\ Queued' \subseteq Queued /\ Once(queue') /\ r \notin Queued'
    <3>1. queue' = Tail(queue) /\ queue \in Seq(Requests) /\ Once(queue)
      BY <1>3, OnceWords DEF Take, TypeOK, TaskOnce
    <3> QED
      BY <1>3, <3>1, OnceTail, OnceWords, OnceWordsNext
  <2>2. r # NULL /\ r \notin Wired \cup Taken \cup {read} \cup linked /\ r \in forwarded
    BY <2>1 DEF TaskOnce, PlacesOK, LinksOK, Requests
  <2>3. task' = [task EXCEPT ![t] = r] /\ pc' = [pc EXCEPT ![t] = "count"]
        /\ pc[t] = "take"
    BY <1>3 DEF Take, Goto
  <2> HIDE DEF r
  <2>4. Wired' = Wired /\ Taken' \subseteq Taken \cup {r}
    BY <1>3, <2>2, <2>3 DEF Wired, Taken, Take, TypeOK, reader
  <2>5. TypeOK'
    BY <1>3, <2>1, <2>3 DEF TypeOK, Take, clients, reader, count, links, others
  <2>6. CountOK' /\ AssignedExact'
    <3>1. Serving' = Serving
      BY <2>3 DEF Serving, TypeOK
    <3> QED
      BY <1>3, <2>3, <3>1 DEF CountOK, AssignedExact, Take, TypeOK, count
  <2>7. TaskOnce'
    <3>1. \A u, v \in Threads : task'[u] = task'[v] /\ u # v => task'[u] = NULL
      BY <2>2, <2>3 DEF TaskOnce, Taken, TypeOK
    <3>2. \A u \in Threads : pc'[u] = "connect" => task'[u] \notin linked'
      BY <1>3, <2>3 DEF TaskOnce, TypeOK, Take, links
    <3>3. /\ Wired' \cap Queued' = {} /\ (Wired' \cup Queued') \cap Taken' = {}
          /\ read' \notin Wired' \cup Queued' \cup Taken'
      BY <1>3, <2>1, <2>2, <2>4 DEF TaskOnce, Take, reader
    <3>4. Once(wire')
      BY <1>3, OnceWords DEF TaskOnce, Take, reader
    <3> QED
      BY <2>1, <3>1, <3>2, <3>3, <3>4, OnceWordsNext DEF TaskOnce
  <2>8. PlacesOK' /\ LinksOK'
    BY <1>3, <2>1, <2>2, <2>3, <2>4 DEF PlacesOK, LinksOK, Take, TypeOK, reader, links, others
  <2> QED
    BY <1>3, <2>5, <2>6, <2>7, <2>8, PoolFrame DEF Take, links
<1> QED
  BY <1>1, <1>2, <1>3

\* assigned_tasks goes up and down with the threads that serve: nobody else changes it
\* between the load and the store.
LEMMA CountSteps ==
  ASSUME TaskInv, NEW t \in Threads, running, Load(t) \/ Store(t)
  PROVE  TaskInv'
<1> USE DEF TaskInv
<1>1. UNCHANGED <<clients, reader, queue, sem, tries, links, running, others>>
  BY DEF Load, Store
<1>2. Wired' = Wired /\ Queued' = Queued
  BY <1>1 DEF Wired, Queued, reader
<1>3. ASSUME Load(t) PROVE TaskInv'
  <2>1. /\ pc[t] \in {"count", "discount"} /\ tracker = NULL /\ tracker' = t
        /\ loaded' = [loaded EXCEPT ![t] = assigned] /\ UNCHANGED <<task, assigned>>
        /\ pc' = [pc EXCEPT ![t] = IF pc[t] = "count" THEN "add" ELSE "subtract"]
    BY <1>3 DEF Load, Goto
  <2>2. /\ pc'[t] = IF pc[t] = "count" THEN "add" ELSE "subtract"
        /\ \A u \in Threads \ {t} : pc'[u] = pc[u] /\ loaded'[u] = loaded[u]
        /\ loaded'[t] = assigned
    BY <2>1 DEF TypeOK
  <2>3. TypeOK'
    BY <1>1, <2>1 DEF TypeOK, clients, reader, links, others
  <2>4. CountOK'
    BY <2>1, <2>2 DEF CountOK
  <2>5. Serving' = Serving
    BY <2>1, <2>2 DEF Serving
  <2>6. AssignedExact'
    BY <2>1, <2>5 DEF AssignedExact
  <2>7. Taken' = Taken
    BY <2>1 DEF Taken
  <2>8. TaskOnce' /\ PlacesOK' /\ LinksOK'
    BY <1>1, <1>2, <2>1, <2>2, <2>7 DEF TaskOnce, PlacesOK, LinksOK, reader, links, others
  <2> QED
    BY <1>1, <2>3, <2>4, <2>6, <2>8, PoolFrame DEF links
<1>4. ASSUME Store(t), pc[t] = "add" PROVE TaskInv'
  <2>1. /\ assigned' = assigned + 1 /\ tracker' = NULL /\ UNCHANGED task
        /\ loaded' = [loaded EXCEPT ![t] = 0] /\ pc' = [pc EXCEPT ![t] = "connect"]
    BY <1>4 DEF Store, Goto, CountOK
  <2>2. pc'[t] = "connect" /\ \A u \in Threads \ {t} : pc'[u] = pc[u]
    BY <2>1 DEF TypeOK
  <2>3. TypeOK'
    BY <1>1, <2>1 DEF TypeOK, clients, reader, links, others
  <2>4. CountOK'
    BY <1>4, <2>2 DEF CountOK
  <2>5. AssignedExact'
    <3>1. Serving' = Serving \cup {t} /\ t \notin Serving
      BY <1>4, <2>2 DEF Serving
    <3>2. Cardinality(Serving') = Cardinality(Serving) + 1
      BY <3>1, ServingFinite, FS_AddElement
    <3> QED
      BY <2>1, <3>2 DEF AssignedExact
  <2>6. Taken' = Taken
    BY <2>1 DEF Taken
  <2>7. TaskOnce' /\ PlacesOK' /\ LinksOK'
    BY <1>1, <1>2, <1>4, <2>1, <2>2, <2>6 DEF TaskOnce, PlacesOK, LinksOK, reader, links, others
  <2> QED
    BY <1>1, <2>3, <2>4, <2>5, <2>7, PoolFrame DEF links
<1>5. ASSUME Store(t), pc[t] = "subtract" PROVE TaskInv'
  <2>1. /\ assigned' = assigned - 1 /\ tracker' = NULL /\ task' = [task EXCEPT ![t] = NULL]
        /\ loaded' = [loaded EXCEPT ![t] = 0] /\ pc' = [pc EXCEPT ![t] = "wait"]
    BY <1>5 DEF Store, Goto, CountOK
  <2>2. /\ pc'[t] = "wait" /\ task'[t] = NULL
        /\ \A u \in Threads \ {t} : pc'[u] = pc[u] /\ task'[u] = task[u]
    BY <2>1 DEF TypeOK
  <2>3. AssignedExact' /\ assigned' \in Nat
    <3>1. t \in Serving /\ Serving' = Serving \ {t}
      BY <1>5, <2>2 DEF Serving
    <3>2. Cardinality(Serving') = Cardinality(Serving) - 1 /\ Cardinality(Serving') \in Nat
      BY <3>1, ServingFinite, FS_RemoveElement, FS_CardinalityType
    <3> QED
      BY <2>1, <3>2 DEF AssignedExact
  <2>4. TypeOK'
    BY <1>1, <2>1, <2>3 DEF TypeOK, clients, reader, links, others
  <2>5. CountOK'
    BY <1>5, <2>2 DEF CountOK
  <2>6. Taken' \subseteq Taken
    BY <2>2 DEF Taken
  <2>7. TaskOnce' /\ PlacesOK' /\ LinksOK'
    BY <1>1, <1>2, <2>2, <2>6 DEF TaskOnce, PlacesOK, LinksOK, reader, links, others
  <2> QED
    BY <1>1, <2>3, <2>4, <2>5, <2>7, PoolFrame DEF links
<1> QED
  BY <1>3, <1>4, <1>5 DEF Store

\* A connection attempt: it succeeds, or there is another, or the process ends, which
\* it does not in calm.
LEMMA ConnectStep ==
  ASSUME TaskInv, NEW t \in Threads, running, Connect(t)
  PROVE  TaskInv'
<1> USE DEF TaskInv
<1>1. Wired' = Wired /\ Queued' = Queued /\ Taken' = Taken
  BY DEF Wired, Queued, Taken, Connect, reader
<1>2. Serving' = Serving
  BY DEF Serving, Connect, Goto, TypeOK
<1>3. pc[t] = "connect" /\ task[t] \in forwarded /\ task[t] \in Requests
      /\ task[t] \notin Wired \cup Queued \cup {read}
  <2>1. pc[t] = "connect"
    BY DEF Connect
  <2>2. task[t] \in forwarded /\ task[t] \in Requests
    BY <2>1 DEF PlacesOK, TypeOK
  <2>3. task[t] # NULL
    BY <2>2, TaskPoolAssumption DEF Requests
  <2>4. task[t] \in Taken
    BY <2>3 DEF Taken
  <2> QED
    BY <2>1, <2>2, <2>4 DEF TaskOnce
<1>4. CountOK' /\ AssignedExact'
  BY <1>2 DEF CountOK, AssignedExact, Connect, Goto, TypeOK, count
<1>5. CASE Reachable(task[t])
  <2>1. /\ linked' = linked \cup {task[t]} /\ pc' = [pc EXCEPT ![t] = "receive"]
        /\ tries' = [tries EXCEPT ![t] = 0] /\ running' = running
        /\ UNCHANGED <<clients, reader, queue, sem, task, count, answered, crossed, others>>
    BY <1>5 DEF Connect, Goto
  <2>2. TypeOK'
    BY <1>3, <2>1 DEF TypeOK, Tries, clients, reader, count, others
  <2>3. TaskOnce' /\ PlacesOK' /\ LinksOK'
    BY <1>1, <1>3, <2>1 DEF TaskOnce, PlacesOK, LinksOK, TypeOK, Requests, reader, others
  <2> QED
    BY <1>4, <2>1, <2>2, <2>3, PoolFrame
<1>6. CASE ~Reachable(task[t])
  <2>1. /\ \/ tries[t] + 1 < Tries /\ tries' = [tries EXCEPT ![t] = @ + 1] /\ running' = running
           \/ running' = FALSE /\ tries' = tries
        /\ UNCHANGED <<clients, reader, queue, sem, pc, task, count, links, others>>
    BY <1>6 DEF Connect, links
  <2>2. TypeOK'
    <3>1. tries' \in [Threads -> 0..Tries - 1]
      <4>1. tries[t] \in 0..2 /\ tries \in [Threads -> 0..2] /\ 3 \in Nat
        BY DEF TypeOK, Tries
      <4>2. CASE tries[t] + 1 < Tries /\ tries' = [tries EXCEPT ![t] = @ + 1]
        BY <4>1, <4>2 DEF Tries
      <4>3. CASE tries' = tries
        BY <4>1, <4>3 DEF Tries
      <4> QED
        BY <2>1, <4>2, <4>3
    <3>2. running' \in BOOLEAN
      BY <2>1 DEF TypeOK
    <3> QED
      BY <2>1, <3>1, <3>2 DEF TypeOK, clients, reader, count, links, others
  <2>3. TaskOnce' /\ PlacesOK' /\ LinksOK'
    BY <1>1, <2>1 DEF TaskOnce, PlacesOK, LinksOK, reader, links, others
  <2>4. ~Calm
    <3> SUFFICES ASSUME Calm PROVE FALSE
      OBVIOUS
    <3>1. /\ task[t] \in Tasks /\ target[task[t]] = task[t]
          /\ client[task[t]] \in {"listening", "waiting", "done"}
          /\ client[task[t]] = "done" => task[t] \in answered
          /\ \A r \in linked : target[r] = task[t] => r = task[t]
      BY <1>3, CalmCall
    <3>2. task[t] \notin linked /\ client[task[t]] \in {"listening", "waiting"}
      BY <1>3, <3>1 DEF LinksOK
    <3>3. Pending(task[t]) = {}
      BY <3>1, <3>2 DEF Pending
    <3>4. Cardinality(Pending(task[t])) < Backlog
      BY <3>3, FS_EmptySet
    <3> QED
      BY <1>6, <3>1, <3>2, <3>4 DEF Reachable
  <2> QED
    BY <1>4, <2>1, <2>2, <2>3, <2>4, PoolFrame DEF links
<1> QED
  BY <1>5, <1>6

\* Receiving and answering may end the process only if the client is gone.
LEMMA ServeSteps ==
  ASSUME TaskInv, NEW t \in Threads, running, Receive(t) \/ Answer(t)
  PROVE  TaskInv'
<1> USE DEF TaskInv
<1>1. UNCHANGED <<clients, reader, queue, sem, task, tries, count, linked, crossed, others>>
  BY DEF Receive, Answer, links
<1>2. Wired' = Wired /\ Queued' = Queued /\ Taken' = Taken
  BY <1>1 DEF Wired, Queued, Taken, reader
<1>3. pc[t] \in {"receive", "answer"} /\ task[t] \in Requests /\ task[t] \in linked \ answered
  BY DEF Receive, Answer, PlacesOK, LinksOK, TypeOK
<1>4. /\ pc' = [pc EXCEPT ![t] = pc'[t]]
      /\ \/ pc'[t] = "answer" /\ answered' = answered
         \/ pc'[t] = "discount" /\ answered' = answered \cup {task[t]}
      /\ \A u \in Threads \ {t} : pc'[u] = pc[u]
  BY DEF Receive, Answer, Goto, TypeOK, links
<1>5. CountOK' /\ AssignedExact'
  <2>1. Serving' = Serving
    BY <1>3, <1>4 DEF Serving
  <2> QED
    BY <1>1, <1>4, <2>1 DEF CountOK, AssignedExact, count
<1>6. TypeOK'
  <2>1. running' \in BOOLEAN
    BY DEF Receive, Answer
  <2>2. answered' \subseteq Requests
    BY <1>3, <1>4 DEF TypeOK
  <2>3. pc' \in [Threads -> {"wait", "take", "count", "add", "connect", "receive", "answer",
                             "discount", "subtract"}]
    BY <1>4 DEF TypeOK
  <2> QED
    BY <1>1, <2>1, <2>2, <2>3 DEF TypeOK, clients, reader, count, others
<1>7. TaskOnce' /\ PlacesOK'
  BY <1>1, <1>2, <1>3, <1>4 DEF TaskOnce, PlacesOK, reader, others
<1>8. LinksOK'
  <2>1. \A u \in Threads \ {t} : task[u] # task[t]
    BY <1>3 DEF TaskOnce, TypeOK, Requests
  <2> QED
    BY <1>1, <1>2, <1>3, <1>4, <2>1 DEF LinksOK, reader, others
<1>9. Calm => running'
  <2>1. Calm => ~Deserted(task[t])
    BY <1>3, CalmCall DEF Deserted
  <2> QED
    BY <2>1 DEF Receive, Answer
<1> QED
  BY <1>1, <1>4, <1>5, <1>6, <1>7, <1>8, <1>9, PoolFrame

\* Blocked sends move nothing.
LEMMA CrossStep ==
  ASSUME TaskInv, NEW t \in Threads, running, Cross(t)
  PROVE  TaskInv'
<1> USE DEF TaskInv
<1>1. /\ UNCHANGED <<clients, reader, queue, sem, pc, task, tries, count, linked, answered,
                     running, others>>
      /\ crossed' = crossed \cup {task[t]} /\ pc[t] = "answer"
  BY DEF Cross
<1>2. TypeOK'
  BY <1>1 DEF TypeOK, PlacesOK, clients, reader, count, others
<1>3. CountOK' /\ AssignedExact' /\ TaskOnce' /\ PlacesOK' /\ LinksOK'
  BY <1>1, PlacesFrame DEF reader, others
<1> QED
  BY <1>1, <1>2, <1>3, PoolFrame DEF StaysUp

\* Each step of a thread keeps the invariant.
LEMMA ThreadSteps ==
  ASSUME TaskInv, NEW t \in Threads, ThreadStep(t)
  PROVE  TaskInv'
BY TakeSteps, CountSteps, ConnectStep, ServeSteps DEF ThreadStep

\* The metadata thread ends the process only when the master is gone.
LEMMA SyncSteps ==
  ASSUME TaskInv, SyncStep
  PROVE  TaskInv'
<1> USE DEF TaskInv
<1>1. UNCHANGED <<clients, reader, queue, sem, pool, master, forwarded, hasty>> /\ ~master
  BY DEF SyncStep, Sync
<1>2. failed' \in BOOLEAN /\ running' \in BOOLEAN
  BY DEF SyncStep, Sync, TypeOK
<1>3. TypeOK'
  BY <1>1, <1>2 DEF TypeOK, clients, reader, pool, count, links
<1>4. CountOK' /\ AssignedExact' /\ TaskOnce' /\ PlacesOK' /\ LinksOK'
  BY <1>1, PlacesFrame DEF reader, pool, count, links
<1>5. ClientsOK'
  <2>1. running
    BY DEF SyncStep
  <2> QED
    BY <1>1, <2>1 DEF ClientsOK, clients, reader, pool, count, links
<1>6. StaysUp'
  BY <1>1 DEF StaysUp, Calm
<1> QED
  BY <1>3, <1>4, <1>5, <1>6

\* Nothing changes when nothing happens.
LEMMA Stutter ==
  ASSUME TaskInv, UNCHANGED vars
  PROVE  TaskInv'
<1>1. TypeOK'
  BY DEF TaskInv, vars, TypeOK
<1>2. CountOK' /\ AssignedExact' /\ TaskOnce' /\ PlacesOK' /\ LinksOK'
  BY PlacesFrame DEF vars, count
<1>3. ClientsOK'
  BY DEF TaskInv, vars, ClientsOK
<1>4. StaysUp'
  BY DEF TaskInv, vars, StaysUp, Calm
<1> QED
  BY <1>1, <1>2, <1>3, <1>4 DEF TaskInv

-------------------------------------------------------------------------------
(* The theorems. *)

\* TaskInv holds in every state.
THEOREM TaskInvariant == Spec => []TaskInv
<1>1. Init => TaskInv
  BY InitInv
<1>2. TaskInv /\ [Next]_vars => TaskInv'
  BY ClientSteps, MasterSteps, ServerSteps, ThreadSteps, CrossStep, SyncSteps, Stutter
  DEF Next, ClientStep
<1> QED
  BY <1>1, <1>2, PTL DEF Spec

\* Every variable keeps its type: assigned_tasks never goes below 0, and a thread makes
\* at most three attempts.
THEOREM TaskTypes == Spec => []TypeOK
<1>1. TaskInv => TypeOK
  BY DEF TaskInv
<1> QED
  BY <1>1, TaskInvariant, PTL

\* assigned_tasks, which the worker reports, is the number of threads that serve.
THEOREM AssignedIsExact == Spec => []AssignedExact
<1>1. TaskInv => AssignedExact
  BY DEF TaskInv
<1> QED
  BY <1>1, TaskInvariant, PTL

\* A request is in one place, and called back once.
THEOREM ServedOnce == Spec => []TaskOnce
<1>1. TaskInv => TaskOnce
  BY DEF TaskInv
<1> QED
  BY <1>1, TaskInvariant, PTL

\* A worker whose master runs, whose requests are whole and whose clients listen in time,
\* stay and have fit files does not end.
THEOREM WorkerStaysUp == Spec => []StaysUp
<1>1. TaskInv => StaysUp
  BY DEF TaskInv
<1> QED
  BY <1>1, TaskInvariant, PTL
===============================================================================
