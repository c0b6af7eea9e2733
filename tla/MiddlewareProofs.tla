--------------------------- MODULE MiddlewareProofs ---------------------------
(***************************************************************************)
(* The inductive invariant of Middleware, that no failure starts by        *)
(* itself, and that Middleware implements Service: for any number of       *)
(* clients, requests and workers, and any ends of processes.               *)
(***************************************************************************)
EXTENDS Middleware, FiniteSetTheorems, TLAPS

-------------------------------------------------------------------------------
(* The invariant. *)

\* A process that is not there does not start again.
LEMMA ClientsRun ==
  ASSUME NEW r \in Requests
  PROVE  Owner[r] \in Clients /\ Owner[r] \in Processes
BY DEF Clients, Processes

\* A worker serves finitely many requests, no more when some end, and one more when one
\* begins.
LEMMA ServingFinite ==
  ASSUME NEW w
  PROVE  IsFiniteSet(Serving(w)) /\ Cardinality(Serving(w)) \in Nat
<1>1. Serving(w) \subseteq Requests
  BY DEF Serving
<1> QED
  BY <1>1, MiddlewareAssumption, FS_Subset, FS_CardinalityType

LEMMA FewerServed ==
  ASSUME MiddlewareInv, \A w \in Workers : Serving(w)' \subseteq Serving(w)
  PROVE  ThreadsKept'
<1>1. SUFFICES ASSUME NEW w \in Workers PROVE Cardinality(Serving(w)') <= Slots
  BY DEF ThreadsKept
<1>2. Cardinality(Serving(w)') <= Cardinality(Serving(w)) /\ Cardinality(Serving(w)') \in Nat
  BY ServingFinite, FS_Subset, FS_CardinalityType
<1> QED
  BY <1>2, ServingFinite, MiddlewareAssumption DEF MiddlewareInv, ThreadsKept

LEMMA OneMoreServed ==
  ASSUME MiddlewareInv, NEW r \in Requests, at[r] \in Workers, Free(at[r]),
         thread[r] \notin {"waiting", "blocked"},
         UNCHANGED at, \A q \in Requests \ {r} : thread'[q] = thread[q]
  PROVE  ThreadsKept'
<1>1. SUFFICES ASSUME NEW w \in Workers PROVE Cardinality(Serving(w)') <= Slots
  BY DEF ThreadsKept
<1>2. Cardinality(Serving(w)) <= Slots
  BY DEF MiddlewareInv, ThreadsKept
<1>3. CASE w = at[r]
  <2>1. r \notin Serving(w) /\ Serving(w)' \subseteq Serving(w) \cup {r}
    BY <1>3 DEF Serving
  <2>2. /\ IsFiniteSet(Serving(w) \cup {r})
        /\ Cardinality(Serving(w) \cup {r}) = Cardinality(Serving(w)) + 1
    BY <2>1, ServingFinite, FS_AddElement
  <2>3. Cardinality(Serving(w)') <= Cardinality(Serving(w)) + 1 /\ Cardinality(Serving(w)') \in Nat
    BY <2>1, <2>2, FS_Subset, FS_CardinalityType
  <2> QED
    BY <1>3, <2>3, ServingFinite, MiddlewareAssumption DEF Free
<1>4. CASE w # at[r]
  <2>1. Serving(w)' = Serving(w)
    BY <1>4 DEF Serving
  <2> QED
    BY <1>2, <2>1
<1> QED
  BY <1>3, <1>4

LEMMA InitInv == Init => MiddlewareInv
<1>1. SUFFICES ASSUME Init PROVE MiddlewareInv
  OBVIOUS
<1>2. host \in [Workers -> Workers \cup {Master}]
  BY <1>1 DEF Init
<1>3. Processes = up
  BY <1>1, <1>2, MiddlewareAssumption DEF Init, Processes
<1>4. TypeOK
  BY <1>1, <1>2, <1>3 DEF Init, TypeOK
<1>5. PointsOK /\ CalmOK
  BY <1>1, <1>3 DEF Init, PointsOK, CalmOK
<1>6. ThreadsKept
  <2>1. \A w \in Workers : Serving(w) = {}
    BY <1>1 DEF Init, Serving
  <2> QED
    BY <2>1, FS_EmptySet, MiddlewareAssumption DEF ThreadsKept
<1> QED
  BY <1>4, <1>5, <1>6 DEF MiddlewareInv

\* A step after which there is no calm, and which may end a process.
LEMMA EndsCalm ==
  ASSUME MiddlewareInv, NEW p, up' = up \ {p}, ~Calm,
         UNCHANGED <<host, listed, full, thread, at, killed, hasty>>
  PROVE  MiddlewareInv'
<1>1. TypeOK' /\ PointsOK'
  BY DEF MiddlewareInv, TypeOK, PointsOK, Runs, Held, Processes
<1>2. ThreadsKept'
  BY FewerServed DEF Serving
<1>3. CalmOK'
  BY DEF CalmOK, Calm
<1> QED
  BY <1>1, <1>2, <1>3 DEF MiddlewareInv

\* In calm a client runs, and so does the process of a worker that has a request.
LEMMA CalmRuns ==
  ASSUME MiddlewareInv, Calm, NEW r \in Requests
  PROVE  /\ Runs(r) /\ Master \in up
         /\ at[r] # NULL => Held(r)
         /\ \A w \in listed : host[w] \in up
BY ClientsRun DEF MiddlewareInv, CalmOK, TypeOK, Processes, Runs, Held

\* Steps of a request's own thread, of the master and of the workers.
LEMMA RequestSteps ==
  ASSUME MiddlewareInv, NEW r \in Requests,
         Ask(r) \/ AskFails(r) \/ ClientStep(r) \/ Place(r) \/ PlaceHollow(r) \/ WorkerStep(r)
  PROVE  MiddlewareInv'
<1> USE DEF MiddlewareInv
<1>1. ASSUME NEW there \in {"asked", "listening", "answered", "blocked", "empty", "gone"},
             Goto(r, there), UNCHANGED <<host, up, listed, full, at, killed, hasty>>,
             there = "asked" => thread[r] = "start",
             there = "listening" => thread[r] = "asked",
             there \in {"answered", "empty"} => thread[r] \in {"waiting", "blocked"},
             there = "blocked" => thread[r] = "waiting" /\ r \in Unfit,
             there = "gone" => ~Runs(r), there = "empty" => ~Held(r),
             thread[r] # "gone"
      PROVE  MiddlewareInv'
  <2>1. TypeOK'
    BY <1>1 DEF Goto, TypeOK, Processes
  <2>2. PointsOK'
    BY <1>1 DEF Goto, TypeOK, PointsOK, Runs, Held
  <2>3. ThreadsKept'
    <3>1. \A w \in Workers : Serving(w)' \subseteq Serving(w)
      BY <1>1 DEF Goto, Serving, TypeOK
    <3> QED
      BY <3>1, FewerServed
  <2>4. CalmOK'
    <3>1. /\ thread'[r] = there /\ \A q \in Requests \ {r} : thread'[q] = thread[q]
          /\ Processes' = Processes
      BY <1>1 DEF Goto, TypeOK, Processes
    <3>2. Calm' => Calm
      BY <1>1, <3>1, MiddlewareAssumption DEF Calm
    <3> QED
      BY <1>1, <3>1, <3>2 DEF CalmOK, PointsOK
  <2> QED
    BY <2>1, <2>2, <2>3, <2>4
<1>2. CASE Ask(r)
  BY <1>1, <1>2 DEF Ask, PointsOK
<1>3. CASE AskFails(r)
  BY <1>3, CalmRuns, EndsCalm DEF AskFails, Exit
<1>4. CASE Listen(r)
  BY <1>1, <1>4 DEF Listen
<1>5. CASE GetNothing(r)
  <2>1. at[r] # NULL /\ ~Calm
    BY <1>5, CalmRuns DEF GetNothing, PointsOK
  <2>2. CASE Goto(r, "empty") /\ UNCHANGED up
    BY <1>1, <1>5, <2>1, <2>2 DEF GetNothing
  <2>3. CASE Exit(Owner[r]) /\ UNCHANGED thread
    BY <1>5, <2>1, <2>3, EndsCalm DEF GetNothing, Exit
  <2> QED
    BY <1>5, <2>2, <2>3 DEF GetNothing
<1>6. CASE Place(r)
  <2>1. PICK w \in listed :
          \/ at' = [at EXCEPT ![r] = w] /\ UNCHANGED up
          \/ host[w] \notin up /\ up' = up \ {Master} /\ UNCHANGED at
    BY <1>6 DEF Place, Exit
  <2>2. /\ UNCHANGED <<host, listed, full, thread, killed>> /\ w \in Workers
        /\ hasty' \in BOOLEAN /\ hasty' = (hasty \/ thread[r] = "asked")
        /\ thread[r] \in {"asked", "listening"} /\ at[r] = NULL
    BY <1>6 DEF Place, InMaster, TypeOK
  <2>3. TypeOK' /\ PointsOK'
    BY <2>1, <2>2, MiddlewareAssumption DEF TypeOK, PointsOK, Runs, Held, Processes
  <2>4. \A v \in Workers : Serving(v)' \subseteq Serving(v)
    BY <2>1, <2>2 DEF Serving, TypeOK
  <2>5. ASSUME Calm' PROVE Processes' \subseteq up' /\ \A q \in Requests : at'[q] # NULL => thread'[q] # "asked"
    <3>1. Calm /\ thread[r] # "asked"
      BY <2>2, <2>5 DEF Calm
    <3>2. UNCHANGED up /\ Processes' = Processes
      BY <2>1, <2>2, <3>1, CalmRuns DEF Processes
    <3> QED
      BY <2>1, <2>2, <3>1, <3>2 DEF CalmOK, TypeOK
  <2> QED
    BY <2>3, <2>4, <2>5, FewerServed DEF CalmOK
<1>7. CASE PlaceHollow(r)
  <2>1. PICK w \in listed : up' = up \ {host[w]}
    BY <1>7 DEF PlaceHollow, Exit
  <2>2. ~Calm /\ thread[r] = "start" /\ ~Runs(r) /\ thread' = [thread EXCEPT ![r] = "gone"]
        /\ UNCHANGED <<host, listed, full, at, killed, hasty>>
    BY <1>7, CalmRuns DEF PlaceHollow, Goto
  <2>3. TypeOK' /\ PointsOK'
    BY <2>1, <2>2 DEF TypeOK, PointsOK, Runs, Held, Processes
  <2>4. \A v \in Workers : Serving(v)' \subseteq Serving(v)
    BY <2>2 DEF Serving, TypeOK
  <2>5. ~Calm'
    BY <2>2 DEF Calm, TypeOK
  <2> QED
    BY <2>3, <2>4, <2>5, FewerServed DEF CalmOK
<1>8. CASE CallBack(r)
  <2>1. /\ thread' = [thread EXCEPT ![r] = "waiting"] /\ thread[r] = "listening"
        /\ at[r] \in Workers /\ at[r] # NULL /\ Free(at[r])
        /\ UNCHANGED <<host, up, listed, full, at, killed, hasty>>
    BY <1>8 DEF CallBack, Goto, Held, TypeOK
  <2>2. TypeOK' /\ PointsOK'
    BY <2>1 DEF TypeOK, PointsOK, Runs, Held, Processes
  <2>3. ThreadsKept'
    BY <2>1, OneMoreServed DEF TypeOK
  <2>4. CalmOK'
    BY <2>1 DEF CalmOK, Calm, TypeOK, Processes
  <2> QED
    BY <2>2, <2>3, <2>4
<1>9. CASE CallBackFails(r)
  <2>1. ~Calm
    BY <1>9, CalmRuns DEF CallBackFails, CalmOK, Held
  <2> QED
    BY <1>9, <2>1, EndsCalm DEF CallBackFails, Exit
<1>10. CASE Answer(r)
  BY <1>1, <1>10 DEF Answer, Calm
<1>11. CASE Break(r)
  <2>1. ~Calm
    BY <1>11 DEF Break, Calm
  <2> QED
    BY <1>11, <2>1, EndsCalm DEF Break, Exit
<1>12. CASE Cross(r)
  BY <1>1, <1>12 DEF Cross, Calm
<1>13. CASE Desert(r)
  <2>1. PICK p : up' = up \ {p}
    <3>1. CASE UNCHANGED up
      <4>1. PICK p : p \notin up
        BY <1>13 DEF Desert, Runs
      <4> QED
        BY <3>1, <4>1
    <3> QED
      BY <1>13, <3>1 DEF Desert, Exit
  <2>2. ~Calm /\ thread[r] \in {"waiting", "blocked"} /\ ~Runs(r)
        /\ thread' = [thread EXCEPT ![r] = "gone"]
        /\ UNCHANGED <<host, listed, full, at, killed, hasty>>
    BY <1>13, CalmRuns DEF Desert, Goto
  <2>3. TypeOK' /\ PointsOK'
    BY <2>1, <2>2 DEF TypeOK, PointsOK, Runs, Held, Processes
  <2>4. \A v \in Workers : Serving(v)' \subseteq Serving(v)
    BY <2>2 DEF Serving, TypeOK
  <2>5. ~Calm'
    <3>1. ~Runs(r)' /\ Owner[r] \in Processes'
      BY <2>1, <2>2, ClientsRun DEF Runs, Processes
    <3>2. CASE killed \/ hasty
      BY <2>2, <3>2 DEF Calm
    <3>3. CASE r \in Unfit
      BY <2>2, <3>3 DEF Calm, TypeOK
    <3>4. CASE \E q \in Unfit : q # r /\ thread[q] \notin {"start", "asked", "listening"}
      BY <2>2, <3>4, MiddlewareAssumption DEF Calm, TypeOK
    <3> QED
      BY <2>2, <3>2, <3>3, <3>4 DEF Calm
  <2> QED
    BY <2>3, <2>4, <2>5, FewerServed DEF CalmOK
<1> QED
  BY <1>2, <1>3, <1>4, <1>5, <1>6, <1>7, <1>8, <1>9, <1>10, <1>11, <1>12, <1>13
  DEF ClientStep, WorkerStep

\* The other steps.
LEMMA ProcessSteps ==
  ASSUME MiddlewareInv,
         \/ \E w \in Workers : Register(w) \/ LoseMaster(w)
         \/ Load
         \/ \E p \in Clients \cup Workers \cup {Master} : Kill(p)
  PROVE  MiddlewareInv'
<1> USE DEF MiddlewareInv
<1>1. ASSUME UNCHANGED <<host, up, thread, at, killed, hasty>>, listed' \subseteq Workers,
             full' \in BOOLEAN
      PROVE  MiddlewareInv'
  <2>1. TypeOK' /\ PointsOK' /\ CalmOK'
    BY <1>1 DEF TypeOK, PointsOK, CalmOK, Calm, Runs, Held, Processes
  <2>2. ThreadsKept'
    BY <1>1, FewerServed DEF Serving
  <2> QED
    BY <2>1, <2>2
<1>2. ASSUME NEW w \in Workers, Register(w) PROVE MiddlewareInv'
  BY <1>1, <1>2 DEF Register, TypeOK
<1>3. CASE Load
  BY <1>1, <1>3 DEF Load, TypeOK
<1>4. ASSUME NEW w \in Workers, LoseMaster(w) PROVE MiddlewareInv'
  <2>1. ~Calm
    BY <1>4 DEF LoseMaster, CalmOK, Processes
  <2> QED
    BY <1>4, <2>1, EndsCalm DEF LoseMaster, Exit
<1>5. ASSUME NEW p, Kill(p) PROVE MiddlewareInv'
  <2>1. TypeOK' /\ PointsOK'
    BY <1>5 DEF Kill, TypeOK, PointsOK, Exit, Runs, Held, Processes
  <2>2. ThreadsKept'
    BY <1>5, FewerServed DEF Kill, Serving
  <2>3. ~Calm'
    BY <1>5 DEF Kill, Calm
  <2> QED
    BY <2>1, <2>2, <2>3 DEF CalmOK
<1> QED
  BY <1>2, <1>3, <1>4, <1>5

\* Every reachable state satisfies the invariant: types, what a control point says
\* about its request, a worker's threads, and what holds in calm.
THEOREM Invariance == Spec => []MiddlewareInv
<1>1. MiddlewareInv /\ [Next]_vars => MiddlewareInv'
  <2>1. ASSUME MiddlewareInv, UNCHANGED vars PROVE MiddlewareInv'
    <3>1. TypeOK' /\ PointsOK' /\ CalmOK'
      BY <2>1 DEF MiddlewareInv, TypeOK, PointsOK, CalmOK, Calm, Runs, Held, Processes, vars
    <3>2. ThreadsKept'
      BY <2>1, FewerServed DEF Serving, vars
    <3> QED
      BY <3>1, <3>2 DEF MiddlewareInv
  <2> QED
    BY <2>1, RequestSteps, ProcessSteps DEF Next
<1> QED
  BY <1>1, InitInv, PTL DEF Spec

\* No failure starts by itself: until a process is killed, a request is forwarded before
\* its client listens, or an unfit file is exchanged, every process runs and no request
\* is lost.
THEOREM NoFailureAlone == Spec => []CalmKeepsAll
<1>1. MiddlewareInv => CalmKeepsAll
  <2>1. SUFFICES ASSUME MiddlewareInv, Calm
                 PROVE  Processes \subseteq up /\ \A r \in Requests : Fate(r) # "lost"
    BY DEF CalmKeepsAll
  <2>2. Processes \subseteq up
    BY <2>1 DEF MiddlewareInv, CalmOK
  <2>3. ASSUME NEW r \in Requests PROVE ~Orphaned(r)
    BY <2>1, CalmRuns DEF Orphaned
  <2> QED
    BY <2>2, <2>3 DEF Fate
<1> QED
  BY <1>1, Invariance, PTL

-------------------------------------------------------------------------------
(* Middleware implements Service. *)

\* What an end of a process does to the fate of one request.
LEMMA EndOfOne ==
  ASSUME MiddlewareInv, NEW p \in up, up' = up \ {p}, UNCHANGED <<host, at>>,
         NEW r \in Requests,
         \/ thread'[r] = thread[r]
         \/ ~Runs(r) /\ thread[r] # "answered" /\ thread'[r] # "answered"
  PROVE  Fate(r)' = IF Fate(r) # "answered" /\ S!Relies(r, p) THEN "lost" ELSE Fate(r)
<1> USE DEF MiddlewareInv
<1>1. CASE thread[r] = "answered"
  BY <1>1 DEF Fate
<1>2. CASE thread[r] # "answered" /\ Orphaned(r)
  <2>1. Orphaned(r)'
    BY <1>2 DEF Orphaned, Runs, Held, InMaster
  <2> QED
    BY <1>2, <2>1 DEF Fate
<1>3. CASE thread[r] # "answered" /\ ~Orphaned(r)
  <2>1. Runs(r) /\ thread'[r] = thread[r]
    BY <1>3 DEF Orphaned
  <2>2. Orphaned(r)' <=> \/ p = Owner[r]
                         \/ at[r] # NULL /\ p = host[at[r]]
                         \/ InMaster(r) /\ p = Master
    BY <1>3, <2>1 DEF Orphaned, Runs, Held, InMaster
  <2>3. Fate(r) = IF thread[r] = "start" THEN "idle" ELSE "open"
    BY <1>3 DEF Fate
  <2>4. S!Relies(r, p) <=> \/ p = Owner[r]
                           \/ thread[r] # "start" /\ at[r] = NULL /\ p = Master
                           \/ thread[r] # "start" /\ at[r] # NULL /\ p = host[at[r]]
    BY <2>3 DEF S!Relies
  <2>5. thread[r] = "start" => at[r] = NULL
    BY DEF PointsOK
  <2>6. thread[r] # "start" /\ at[r] = NULL <=> InMaster(r)
    BY <1>3, <2>1 DEF PointsOK, TypeOK, InMaster
  <2>7. Orphaned(r)' <=> S!Relies(r, p)
    BY <2>2, <2>4, <2>5, <2>6
  <2> QED
    BY <1>3, <2>1, <2>3, <2>7 DEF Fate
<1> QED
  BY <1>1, <1>2, <1>3

LEMMA EndStep ==
  ASSUME MiddlewareInv, NEW p \in up, up' = up \ {p}, UNCHANGED <<host, at>>,
         \A r \in Requests :
           \/ thread'[r] = thread[r]
           \/ ~Runs(r) /\ thread[r] # "answered" /\ thread'[r] # "answered"
  PROVE  S!Next
<1>1. p \in Processes
  BY DEF MiddlewareInv, TypeOK
<1>2. Processes' = Processes
  BY DEF Processes
<1>3. (Processes \ up)' = (Processes \ up) \cup {p}
  BY <1>1, <1>2
<1>4. \A r \in Requests :
        Fate(r)' = IF Fate(r) # "answered" /\ S!Relies(r, p) THEN "lost" ELSE Fate(r)
  BY EndOfOne
<1>5. S!End(p)
  BY <1>3, <1>4 DEF S!End
<1>6. p \in {Owner[r] : r \in Requests} \cup Workers \cup {Master}
  BY <1>1 DEF Processes, Clients, MiddlewareInv, TypeOK
<1> QED
  BY <1>5, <1>6 DEF S!Next

\* A step that ends no process, gives no request away and keeps every fate.
LEMMA StutterStep ==
  ASSUME UNCHANGED <<host, up, at>>,
         \A r \in Requests : Fate(r)' = Fate(r)
  PROVE  UNCHANGED S!vars
BY DEF S!vars, Processes

\* Initial states map to initial states.
LEMMA InitRefines == Init => S!Init
<1>1. SUFFICES ASSUME Init PROVE S!Init
  OBVIOUS
<1>2. MiddlewareInv /\ Processes = up
  BY <1>1, InitInv, MiddlewareAssumption DEF Init, Processes
<1>3. \A r \in Requests : Fate(r) = "idle"
  BY <1>1, <1>2, ClientsRun DEF Init, Fate, Orphaned, Runs, InMaster
<1> QED
  BY <1>1, <1>2, <1>3 DEF S!Init, Init, MiddlewareInv, TypeOK

\* Every step of a request maps to a step or a stutter.
LEMMA RequestRefines ==
  ASSUME MiddlewareInv, NEW r \in Requests,
         Ask(r) \/ AskFails(r) \/ ClientStep(r) \/ Place(r) \/ PlaceHollow(r) \/ WorkerStep(r)
  PROVE  [S!Next]_(S!vars)
<1> USE DEF MiddlewareInv
<1> DEFINE Same(q) == Fate(q)' = Fate(q)
<1>1. CASE Ask(r)
  <2>1. \A q \in Requests \ {r} : Same(q)
    BY <1>1 DEF Ask, Goto, TypeOK, Fate, Orphaned, Runs, Held, InMaster
  <2>2. Fate(r) = "idle" /\ Fate(r)' = "open"
    BY <1>1 DEF Ask, Goto, TypeOK, PointsOK, Fate, Orphaned, Runs, Held, InMaster
  <2>3. Processes' = Processes
    BY <1>1 DEF Ask, Processes
  <2>4. S!Ask(r)
    BY <1>1, <2>1, <2>2, <2>3 DEF S!Ask, Ask, Runs
  <2> QED
    BY <2>4 DEF S!Next
<1>2. CASE AskFails(r)
  BY <1>2, EndStep DEF AskFails, Exit, Runs
<1>3. CASE Listen(r)
  <2>1. \A q \in Requests : Same(q)
    BY <1>3 DEF Listen, Goto, TypeOK, Fate, Orphaned, Runs, Held, InMaster
  <2> QED
    BY <1>3, <2>1, StutterStep DEF Listen
<1>4. CASE GetNothing(r)
  <2>1. CASE UNCHANGED thread
    BY <1>4, <2>1, EndStep DEF GetNothing, Exit, Runs, Goto, TypeOK
  <2>2. CASE Goto(r, "empty") /\ UNCHANGED up
    <3>1. \A q \in Requests : Same(q)
      BY <1>4, <2>2 DEF GetNothing, Goto, TypeOK, PointsOK, Fate, Orphaned, Runs, Held, InMaster
    <3> QED
      BY <1>4, <2>2, <3>1, StutterStep DEF GetNothing
  <2> QED
    BY <1>4, <2>1, <2>2 DEF GetNothing
<1>5. CASE Place(r)
  <2>1. PICK w \in listed :
          \/ at' = [at EXCEPT ![r] = w] /\ UNCHANGED up
          \/ host[w] \notin up /\ Exit(Master) /\ UNCHANGED at
    BY <1>5 DEF Place
  <2>2. CASE at' = [at EXCEPT ![r] = w] /\ UNCHANGED up
    <3>1. w \in Workers /\ w # NULL /\ Processes' = Processes
      BY <1>5, MiddlewareAssumption DEF TypeOK, Place, Processes
    <3>2. \A q \in Requests \ {r} : Same(q)
      BY <1>5, <2>2 DEF Place, TypeOK, Fate, Orphaned, Runs, Held, InMaster
    <3>3. Fate(r) \in {"open", "lost"} /\ at[r] = NULL
      BY <1>5 DEF Place, Fate, InMaster
    <3>4. Fate(r)' = IF host[w] \in Processes \ up THEN "lost" ELSE Fate(r)
      BY <1>5, <2>2, <3>1 DEF Place, TypeOK, Fate, Orphaned, Runs, Held, InMaster, Processes
    <3>5. S!Assign(r, w)
      BY <1>5, <2>2, <3>1, <3>2, <3>3, <3>4 DEF S!Assign, Place, TypeOK
    <3> QED
      BY <3>1, <3>5 DEF S!Next
  <2>3. CASE host[w] \notin up /\ Exit(Master) /\ UNCHANGED at
    BY <1>5, <2>3, EndStep DEF Place, Exit
  <2> QED
    BY <2>1, <2>2, <2>3
<1>6. CASE PlaceHollow(r)
  <2>1. PICK w \in listed : Exit(host[w])
    BY <1>6 DEF PlaceHollow
  <2>2. \A q \in Requests :
          \/ thread'[q] = thread[q]
          \/ ~Runs(q) /\ thread[q] # "answered" /\ thread'[q] # "answered"
    BY <1>6 DEF PlaceHollow, Goto, TypeOK
  <2>3. CASE host[w] \in up
    BY <1>6, <2>1, <2>2, <2>3, EndStep DEF PlaceHollow, Exit
  <2>4. CASE host[w] \notin up
    <3>1. UNCHANGED up
      BY <2>1, <2>4 DEF Exit
    <3>2. \A q \in Requests : Same(q)
      BY <1>6, <2>2, <3>1 DEF PlaceHollow, Goto, TypeOK, Fate, Orphaned, Runs, Held, InMaster
    <3> QED
      BY <1>6, <3>1, <3>2, StutterStep DEF PlaceHollow
  <2> QED
    BY <2>3, <2>4
<1>7. CASE CallBack(r)
  <2>1. \A q \in Requests : Same(q)
    BY <1>7 DEF CallBack, Goto, TypeOK, Fate, Orphaned, Runs, Held, InMaster
  <2> QED
    BY <1>7, <2>1, StutterStep DEF CallBack
<1>8. CASE CallBackFails(r)
  BY <1>8, EndStep DEF CallBackFails, Exit, Held
<1>9. CASE Answer(r)
  <2>1. \A q \in Requests \ {r} : Same(q)
    BY <1>9 DEF Answer, Goto, TypeOK, Fate, Orphaned, Runs, Held, InMaster
  <2>2. Fate(r) = "open" /\ Fate(r)' = "answered" /\ at[r] # NULL
    BY <1>9 DEF Answer, Goto, TypeOK, PointsOK, Fate, Orphaned, Runs, Held, InMaster
  <2>3. Processes' = Processes
    BY <1>9 DEF Answer, Processes
  <2>4. S!Answer(r)
    BY <1>9, <2>1, <2>2, <2>3 DEF S!Answer, Answer
  <2> QED
    BY <2>4 DEF S!Next
<1>10. CASE Break(r)
  BY <1>10, EndStep DEF Break, Exit, Held, Runs
<1>11. CASE Cross(r)
  <2>1. \A q \in Requests : Same(q)
    BY <1>11 DEF Cross, Goto, TypeOK, Fate, Orphaned, Runs, Held, InMaster
  <2> QED
    BY <1>11, <2>1, StutterStep DEF Cross
<1>12. CASE Desert(r)
  <2>1. \A q \in Requests :
          \/ thread'[q] = thread[q]
          \/ ~Runs(q) /\ thread[q] # "answered" /\ thread'[q] # "answered"
    BY <1>12 DEF Desert, Goto, TypeOK
  <2>2. CASE UNCHANGED up
    <3>1. \A q \in Requests : Same(q)
      BY <1>12, <2>1, <2>2 DEF Desert, Goto, TypeOK, Fate, Orphaned, Runs, Held, InMaster
    <3> QED
      BY <1>12, <2>2, <3>1, StutterStep DEF Desert
  <2>3. CASE Exit(host[at[r]])
    BY <1>12, <2>1, <2>3, EndStep DEF Desert, Exit, Held
  <2> QED
    BY <1>12, <2>2, <2>3 DEF Desert
<1> QED
  BY <1>1, <1>2, <1>3, <1>4, <1>5, <1>6, <1>7, <1>8, <1>9, <1>10, <1>11, <1>12
  DEF ClientStep, WorkerStep

\* So does every other step.
LEMMA ProcessRefines ==
  ASSUME MiddlewareInv,
         \/ \E w \in Workers : Register(w) \/ LoseMaster(w)
         \/ Load
         \/ \E p \in Clients \cup Workers \cup {Master} : Kill(p)
  PROVE  [S!Next]_(S!vars)
<1>1. ASSUME NEW w \in Workers, Register(w) PROVE UNCHANGED S!vars
  <2>1. \A r \in Requests : Fate(r)' = Fate(r)
    BY <1>1 DEF Register, Fate, Orphaned, Runs, Held, InMaster
  <2> QED
    BY <1>1, <2>1, StutterStep DEF Register
<1>2. ASSUME Load PROVE UNCHANGED S!vars
  <2>1. \A r \in Requests : Fate(r)' = Fate(r)
    BY <1>2 DEF Load, Fate, Orphaned, Runs, Held, InMaster
  <2> QED
    BY <1>2, <2>1, StutterStep DEF Load
<1>3. ASSUME NEW w \in Workers, LoseMaster(w) PROVE S!Next
  BY <1>3, EndStep DEF LoseMaster, Exit
<1>4. ASSUME NEW p, Kill(p) PROVE S!Next
  BY <1>4, EndStep DEF Kill, Exit
<1> QED
  BY <1>1, <1>2, <1>3, <1>4

\* Middleware implements Service: a request is lost only with a process it relies on at
\* that moment, or by being given to a worker that has ended, and is given away once.
THEOREM ServiceImplemented == Spec => ServiceSpec
<1>1. MiddlewareInv /\ [Next]_vars => [S!Next]_(S!vars)
  <2>1. ASSUME UNCHANGED vars PROVE UNCHANGED S!vars
    <3>1. \A r \in Requests : Fate(r)' = Fate(r)
      BY <2>1 DEF vars, Fate, Orphaned, Runs, Held, InMaster
    <3> QED
      BY <2>1, <3>1, StutterStep DEF vars
  <2> QED
    BY <2>1, RequestRefines, ProcessRefines DEF Next
<1> QED
  BY <1>1, InitRefines, Invariance, PTL DEF Spec, ServiceSpec, S!Spec
===============================================================================
