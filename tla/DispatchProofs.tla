---------------------------- MODULE DispatchProofs ----------------------------
(***************************************************************************)
(* Proofs about Dispatch for any threads, requests, workers and estimates. *)
(***************************************************************************)
EXTENDS Dispatch, ListsProofs, FiniteSetTheorems, TLAPS

USE DispatchAssumption

\* Types, and which locals are set at which control point, are kept together.
\* Record sets only the history variables, and is expanded for those alone.
LEMMA TypeStep ==
  ASSUME TypeOK, LocalsOK, PlacedOnce, Next
  PROVE  TypeOK' /\ LocalsOK'
<1> USE DEF TypeOK, LocalsOK, ThreadPoints, SleeperPoints, threadVars, tableVars, sleeperVars, worldVars, Goto
<1>0. /\ raced' \in [Workers -> BOOLEAN] /\ steady' \in [Threads -> BOOLEAN]
      /\ crossed' \in [Workers -> Nat]
  BY DEF Next, Record
<1>1. ASSUME NEW w \in Workers, NEW busy \in BOOLEAN, NEW d \in Delays, Register(w, busy, d) PROVE TypeOK' /\ LocalsOK'
  BY <1>0, <1>1 DEF Register
<1>2. ASSUME NEW w \in Workers, NEW busy \in BOOLEAN, NEW d \in Delays, RefreshCpu(w, busy, d) PROVE TypeOK' /\ LocalsOK'
  BY <1>0, <1>2 DEF RefreshCpu
<1>3. ASSUME RefreshDelay PROVE TypeOK' /\ LocalsOK'
  BY <1>0, <1>3 DEF RefreshDelay
<1>4. ASSUME NEW t \in Threads, NEW r \in Requests, Begin(t, r) PROVE TypeOK' /\ LocalsOK'
  BY <1>0, <1>4 DEF Begin
<1>5. ASSUME NEW t \in Threads, Start(t) PROVE TypeOK' /\ LocalsOK'
  BY <1>0, <1>5 DEF Start
<1>6. ASSUME NEW t \in Threads, Visit(t) PROVE TypeOK' /\ LocalsOK'
  <2>1. cursor[t] \in Workers /\ req[t] \in Requests
    BY <1>6 DEF Visit
  <2>2. Estimate(req[t], cursor[t], delay[cursor[t]]) \in Int
    BY <2>1
  <2>3. pc' \in [Threads -> ThreadPoints] /\ cursor' \in [Threads -> Workers \cup {NULL}]
    <3>1. CASE UNCHANGED cursor /\ Goto(t, "tasks")
      BY <1>6, <3>1
    <3>2. CASE UNCHANGED pc /\ cursor' = [cursor EXCEPT ![t] = next[cursor[t]]]
      BY <1>6, <3>2, <2>1
    <3> QED
      BY <1>6, <3>1, <3>2 DEF Visit
  <2>4. TypeOK'
    BY <1>0, <1>6, <2>2, <2>3 DEF Visit
  <2>5. LocalsOK'
    BY <1>6, <2>1 DEF Visit
  <2> QED
    BY <2>4, <2>5
<1>7. ASSUME NEW t \in Threads, CheckTasks(t) PROVE TypeOK' /\ LocalsOK'
  <2>1. pc' \in [Threads -> ThreadPoints] /\ cursor' \in [Threads -> Workers \cup {NULL}]
    <3>1. CASE UNCHANGED cursor /\ Goto(t, "cpu")
      BY <1>7, <3>1
    <3>2. CASE Goto(t, "visit") /\ cursor' = [cursor EXCEPT ![t] = next[cursor[t]]]
      <4>1. cursor[t] \in Workers
        BY <1>7 DEF CheckTasks
      <4> QED
        BY <3>2, <4>1
    <3> QED
      BY <1>7, <3>1, <3>2 DEF CheckTasks
  <2>2. TypeOK'
    BY <1>0, <1>7, <2>1 DEF CheckTasks
  <2>3. LocalsOK'
    BY <1>7 DEF CheckTasks
  <2> QED
    BY <2>2, <2>3
<1>8. ASSUME NEW t \in Threads, CheckCpu(t) PROVE TypeOK' /\ LocalsOK'
  <2>1. /\ pc' \in [Threads -> ThreadPoints] /\ cursor' \in [Threads -> Workers \cup {NULL}]
        /\ best' \in [Threads -> Workers \cup {NULL}] /\ minTime' \in [Threads -> Int]
    <3>1. cursor[t] \in Workers /\ time[t] \in Int /\ pc' = [pc EXCEPT ![t] = "visit"]
          /\ cursor' = [cursor EXCEPT ![t] = next[cursor[t]]]
      BY <1>8 DEF CheckCpu
    <3>2. \/ best' = [best EXCEPT ![t] = cursor[t]] /\ minTime' = [minTime EXCEPT ![t] = time[t]]
          \/ UNCHANGED <<best, minTime>>
      BY <1>8 DEF CheckCpu
    <3> QED
      BY <3>1, <3>2
  <2>2. TypeOK'
    BY <1>0, <1>8, <2>1 DEF CheckCpu
  <2>3. LocalsOK'
    <3>1. /\ pc' = [pc EXCEPT ![t] = "visit"] /\ UNCHANGED <<req, sleeper, slot>>
          /\ \A u \in Threads \ {t} : cursor'[u] = cursor[u] /\ best'[u] = best[u]
      BY <1>8 DEF CheckCpu
    <3>2. pc[t] = "cpu"
      BY <1>8 DEF CheckCpu
    <3> QED
      BY <3>1, <3>2
  <2> QED
    BY <2>2, <2>3
<1>9. ASSUME NEW t \in Threads, EndScan(t) PROVE TypeOK' /\ LocalsOK'
  BY <1>0, <1>9 DEF EndScan
<1>10. ASSUME NEW t \in Threads, LoadSlots(t) PROVE TypeOK' /\ LocalsOK'
  BY <1>0, <1>10 DEF LoadSlots
<1>11. ASSUME NEW t \in Threads, StoreSlots(t) PROVE TypeOK' /\ LocalsOK'
  <2>1. TypeOK'
    BY <1>0, <1>11 DEF StoreSlots
  <2>2. LocalsOK'
    BY <1>11 DEF StoreSlots
  <2> QED
    BY <2>1, <2>2
<1>12. ASSUME NEW t \in Threads, Spawn(t) PROVE TypeOK' /\ LocalsOK'
  <2>1. sleeper' \in [Requests -> SleeperPoints]
    BY <1>12 DEF Spawn
  <2>2. TypeOK'
    BY <1>0, <1>12, <2>1 DEF Spawn
  <2>3. LocalsOK'
    BY <1>12 DEF Spawn, PlacedOnce
  <2> QED
    BY <2>2, <2>3
<1>13. ASSUME NEW t \in Threads, Send(t) PROVE TypeOK' /\ LocalsOK'
  <2>1. running' \in BOOLEAN /\ outcome' \in [Requests -> {"none", "sent", "vanished", "failed"}]
    BY <1>13 DEF Send, Check
  <2>2. TypeOK'
    BY <1>0, <1>13, <2>1 DEF Send
  <2>3. LocalsOK'
    BY <1>13 DEF Send
  <2> QED
    BY <2>2, <2>3
<1>14. ASSUME NEW r \in Requests, Wake(r) PROVE TypeOK' /\ LocalsOK'
  BY <1>0, <1>14 DEF Wake
<1>15. ASSUME NEW r \in Requests, LoadBack(r) PROVE TypeOK' /\ LocalsOK'
  BY <1>0, <1>15 DEF LoadBack
<1>16. ASSUME NEW r \in Requests, StoreBack(r) PROVE TypeOK' /\ LocalsOK'
  BY <1>0, <1>16 DEF StoreBack
<1>17. ASSUME NEW w \in Workers, GoDown(w) PROVE TypeOK' /\ LocalsOK'
  BY <1>0, <1>17 DEF GoDown
<1> QED
  BY <1>1, <1>2, <1>3, <1>4, <1>5, <1>6, <1>7, <1>8, <1>9, <1>10, <1>11, <1>12, <1>13, <1>14, <1>15, <1>16, <1>17 DEF Next, Step, ThreadStep, SleeperStep

\* No step leads a pointer to a node that is not on the list.
LEMMA ListedStep ==
  ASSUME TypeOK, LocalsOK, PointersListed, Next
  PROVE  PointersListed'
<1> USE DEF PointersListed, TypeOK, LocalsOK, threadVars, tableVars, sleeperVars, worldVars, Goto
<1>1. ASSUME NEW w \in Workers, NEW busy \in BOOLEAN, NEW d \in Delays, Register(w, busy, d) PROVE PointersListed'
  BY <1>1 DEF Register
<1>2. ASSUME NEW w \in Workers, NEW busy \in BOOLEAN, NEW d \in Delays, RefreshCpu(w, busy, d) PROVE PointersListed'
  BY <1>2 DEF RefreshCpu
<1>3. ASSUME RefreshDelay PROVE PointersListed'
  BY <1>3 DEF RefreshDelay
<1>4. ASSUME NEW t \in Threads, NEW r \in Requests, Begin(t, r) PROVE PointersListed'
  BY <1>4 DEF Begin
<1>5. ASSUME NEW t \in Threads, Start(t) PROVE PointersListed'
  BY <1>5 DEF Start
<1>6. ASSUME NEW t \in Threads, Visit(t) PROVE PointersListed'
  BY <1>6 DEF Visit
<1>7. ASSUME NEW t \in Threads, CheckTasks(t) PROVE PointersListed'
  BY <1>7 DEF CheckTasks
<1>8. ASSUME NEW t \in Threads, CheckCpu(t) PROVE PointersListed'
  BY <1>8 DEF CheckCpu
<1>9. ASSUME NEW t \in Threads, EndScan(t) PROVE PointersListed'
  BY <1>9 DEF EndScan
<1>10. ASSUME NEW t \in Threads, LoadSlots(t) PROVE PointersListed'
  BY <1>10 DEF LoadSlots
<1>11. ASSUME NEW t \in Threads, StoreSlots(t) PROVE PointersListed'
  BY <1>11 DEF StoreSlots
<1>12. ASSUME NEW t \in Threads, Spawn(t) PROVE PointersListed'
  BY <1>12 DEF Spawn
<1>13. ASSUME NEW t \in Threads, Send(t) PROVE PointersListed'
  BY <1>13 DEF Send
<1>14. ASSUME NEW r \in Requests, Wake(r) PROVE PointersListed'
  BY <1>14 DEF Wake
<1>15. ASSUME NEW r \in Requests, LoadBack(r) PROVE PointersListed'
  BY <1>15 DEF LoadBack
<1>16. ASSUME NEW r \in Requests, StoreBack(r) PROVE PointersListed'
  BY <1>16 DEF StoreBack
<1>17. ASSUME NEW w \in Workers, GoDown(w) PROVE PointersListed'
  BY <1>17 DEF GoDown
<1> QED
  BY <1>1, <1>2, <1>3, <1>4, <1>5, <1>6, <1>7, <1>8, <1>9, <1>10, <1>11, <1>12, <1>13, <1>14, <1>15, <1>16, <1>17 DEF Next, Step, ThreadStep, SleeperStep

\* No step gives a request to a second thread or a second slot.
LEMMA PlacedStep ==
  ASSUME TypeOK, LocalsOK, PlacedOnce, Next
  PROVE  PlacedOnce'
<1> USE DEF PlacedOnce, TypeOK, LocalsOK, Next, threadVars, tableVars, sleeperVars, worldVars, Goto
<1>1. ASSUME NEW w \in Workers, NEW busy \in BOOLEAN, NEW d \in Delays, Register(w, busy, d) PROVE PlacedOnce'
  BY <1>1 DEF Register
<1>2. ASSUME NEW w \in Workers, NEW busy \in BOOLEAN, NEW d \in Delays, RefreshCpu(w, busy, d) PROVE PlacedOnce'
  BY <1>2 DEF RefreshCpu
<1>3. ASSUME RefreshDelay PROVE PlacedOnce'
  BY <1>3 DEF RefreshDelay
<1>4. ASSUME NEW t \in Threads, NEW r \in Requests, Begin(t, r) PROVE PlacedOnce'
  BY <1>4 DEF Begin
<1>5. ASSUME NEW t \in Threads, Start(t) PROVE PlacedOnce'
  BY <1>5 DEF Start
<1>6. ASSUME NEW t \in Threads, Visit(t) PROVE PlacedOnce'
  BY <1>6 DEF Visit
<1>7. ASSUME NEW t \in Threads, CheckTasks(t) PROVE PlacedOnce'
  BY <1>7 DEF CheckTasks
<1>8. ASSUME NEW t \in Threads, CheckCpu(t) PROVE PlacedOnce'
  BY <1>8 DEF CheckCpu
<1>9. ASSUME NEW t \in Threads, EndScan(t) PROVE PlacedOnce'
  BY <1>9 DEF EndScan
<1>10. ASSUME NEW t \in Threads, LoadSlots(t) PROVE PlacedOnce'
  BY <1>10 DEF LoadSlots
<1>11. ASSUME NEW t \in Threads, StoreSlots(t) PROVE PlacedOnce'
  BY <1>11 DEF StoreSlots
<1>12. ASSUME NEW t \in Threads, Spawn(t) PROVE PlacedOnce'
  BY <1>12 DEF Spawn
<1>13. ASSUME NEW t \in Threads, Send(t) PROVE PlacedOnce'
  BY <1>13 DEF Send
<1>14. ASSUME NEW r \in Requests, Wake(r) PROVE PlacedOnce'
  BY <1>14 DEF Wake
<1>15. ASSUME NEW r \in Requests, LoadBack(r) PROVE PlacedOnce'
  BY <1>15 DEF LoadBack
<1>16. ASSUME NEW r \in Requests, StoreBack(r) PROVE PlacedOnce'
  BY <1>16 DEF StoreBack
<1>17. ASSUME NEW w \in Workers, GoDown(w) PROVE PlacedOnce'
  BY <1>17 DEF GoDown
<1> QED
  BY <1>1, <1>2, <1>3, <1>4, <1>5, <1>6, <1>7, <1>8, <1>9, <1>10, <1>11, <1>12, <1>13, <1>14, <1>15, <1>16, <1>17 DEF Next, Step, ThreadStep, SleeperStep

\* At most one thread or sleeper at a time is updating a counter nobody raced on.
LEMMA Exclusive ==
  ASSUME NEW w \in Workers, ~Overlap(w)
  PROVE  /\ \A t, u \in Threads : Selecting(t, w) /\ Selecting(u, w) => t = u
         /\ \A t \in Threads, r \in Requests : ~(Selecting(t, w) /\ Returning(r, w))
         /\ \A r, q \in Requests : Returning(r, w) /\ Returning(q, w) => r = q
  BY DEF Overlap, Updating

\* The placed requests of a worker are finitely many.
LEMMA HoldersFinite ==
  \A w \in Workers : IsFiniteSet(Holders(w)) /\ Cardinality(Holders(w)) \in Nat
  BY FS_Subset, FS_CardinalityType DEF Holders

\* While no two updates of a counter overlap, every step keeps it equal to the
\* number of slots taken, and what an update has loaded stays current.
LEMMA SerialStep ==
  ASSUME TypeOK, LocalsOK, PlacedOnce, PointersListed, Serial, Next
  PROVE  Serial'
<1> SUFFICES ASSUME NEW w \in Workers, ~raced'[w] PROVE SerialAt(w)'
  BY DEF Serial
<1>a. ~Overlap(w)' /\ ~raced[w]
  BY DEF Next, Record, TypeOK
<1>b. SerialAt(w) /\ ~Overlap(w)
  BY <1>a DEF Serial, SerialAt
<1>c. /\ \A t, u \in Threads : Selecting(t, w) /\ Selecting(u, w) => t = u
      /\ \A t \in Threads, r \in Requests : ~(Selecting(t, w) /\ Returning(r, w))
      /\ \A r, q \in Requests : Returning(r, w) /\ Returning(q, w) => r = q
  BY <1>b, Exclusive
<1>d. IsFiniteSet(Holders(w)) /\ Cardinality(Holders(w)) \in Nat /\ MaxTasks[w] \in Nat
  BY HoldersFinite
<1> USE DEF threadVars, tableVars, sleeperVars, worldVars, Goto, TypeOK, LocalsOK
<1>1. ASSUME NEW v \in Workers, NEW busy \in BOOLEAN, NEW d \in Delays, Register(v, busy, d) PROVE SerialAt(w)'
  <2>1. CASE v = w
    <3>1. Holders(w) = {} /\ Holders(w)' = {}
      BY <1>1, <2>1 DEF Register, Holders, PointersListed
    <3>2. est'[w] = 0 /\ Cardinality(Holders(w)') = 0
      BY <1>1, <2>1, <3>1, FS_EmptySet DEF Register
    <3>3. /\ \A t \in Threads : ~Selecting(t, w)'
          /\ \A q \in Requests : ~Returning(q, w)'
      BY <1>1, <2>1 DEF Register, Selecting, Returning, PointersListed
    <3> QED
      BY <1>a, <1>d, <3>2, <3>3 DEF SerialAt
  <2>2. CASE v # w
    <3>1. Holders(w)' = Holders(w) /\ est'[w] = est[w]
      BY <1>1, <2>2 DEF Register, Holders
    <3> QED
      BY <1>a, <1>b, <1>1, <3>1 DEF Register, SerialAt, Selecting, Returning
  <2> QED
    BY <2>1, <2>2
<1>2. ASSUME NEW v \in Workers, NEW busy \in BOOLEAN, NEW d \in Delays, RefreshCpu(v, busy, d) PROVE SerialAt(w)'
  <2>1. Holders(w)' = Holders(w) /\ est'[w] = est[w]
    BY <1>2 DEF RefreshCpu, Holders
  <2> QED
    BY <1>a, <1>b, <1>2, <2>1 DEF RefreshCpu, SerialAt, Selecting, Returning
<1>3. ASSUME RefreshDelay PROVE SerialAt(w)'
  <2>1. Holders(w)' = Holders(w) /\ est'[w] = est[w]
    BY <1>3 DEF RefreshDelay, Holders
  <2> QED
    BY <1>a, <1>b, <1>3, <2>1 DEF RefreshDelay, SerialAt, Selecting, Returning
<1>4. ASSUME NEW t \in Threads, NEW r \in Requests, Begin(t, r) PROVE SerialAt(w)'
  <2>1. Holders(w)' = Holders(w) /\ est'[w] = est[w]
    BY <1>4 DEF Begin, Holders
  <2> QED
    BY <1>a, <1>b, <1>4, <2>1 DEF Begin, SerialAt, Selecting, Returning
<1>5. ASSUME NEW t \in Threads, Start(t) PROVE SerialAt(w)'
  <2>1. Holders(w)' = Holders(w) /\ est'[w] = est[w]
    BY <1>5 DEF Start, Holders
  <2> QED
    BY <1>a, <1>b, <1>5, <2>1 DEF Start, SerialAt, Selecting, Returning
<1>6. ASSUME NEW t \in Threads, Visit(t) PROVE SerialAt(w)'
  <2>1. Holders(w)' = Holders(w) /\ est'[w] = est[w]
    BY <1>6 DEF Visit, Holders
  <2> QED
    BY <1>a, <1>b, <1>6, <2>1 DEF Visit, SerialAt, Selecting, Returning
<1>7. ASSUME NEW t \in Threads, CheckTasks(t) PROVE SerialAt(w)'
  <2>1. Holders(w)' = Holders(w) /\ est'[w] = est[w]
    BY <1>7 DEF CheckTasks, Holders
  <2> QED
    BY <1>a, <1>b, <1>7, <2>1 DEF CheckTasks, SerialAt, Selecting, Returning
<1>8. ASSUME NEW t \in Threads, CheckCpu(t) PROVE SerialAt(w)'
  <2>1. Holders(w)' = Holders(w) /\ est'[w] = est[w]
    BY <1>8 DEF CheckCpu, Holders
  <2> QED
    BY <1>a, <1>b, <1>8, <2>1 DEF CheckCpu, SerialAt, Selecting, Returning
<1>9. ASSUME NEW t \in Threads, EndScan(t) PROVE SerialAt(w)'
  <2>1. Holders(w)' = Holders(w) /\ est'[w] = est[w]
    BY <1>9 DEF EndScan, Holders
  <2> QED
    BY <1>a, <1>b, <1>9, <2>1 DEF EndScan, SerialAt, Selecting, Returning
<1>10. ASSUME NEW t \in Threads, LoadSlots(t) PROVE SerialAt(w)'
  <2>1. Holders(w)' = Holders(w) /\ est'[w] = est[w]
    BY <1>10 DEF LoadSlots, Holders
  <2> QED
    BY <1>a, <1>b, <1>10, <2>1 DEF LoadSlots, SerialAt, Selecting, Returning
<1>11. ASSUME NEW t \in Threads, StoreSlots(t) PROVE SerialAt(w)'
  <2>1. CASE best[t] = w
    <3>1. Selecting(t, w) /\ tmp[t] = est[w] /\ est[w] < MaxTasks[w]
      BY <1>b, <1>11, <2>1 DEF StoreSlots, Selecting, SerialAt
    <3>2. req[t] \in Requests /\ req[t] \notin Holders(w)
      BY <1>11 DEF StoreSlots, Holders, PlacedOnce
    <3>3. Holders(w)' = Holders(w) \cup {req[t]}
      <4>1. slot'[req[t]] = w /\ sleeper'[req[t]] = "due"
        BY <1>11, <2>1, <3>2 DEF StoreSlots
      <4>2. \A r \in Requests \ {req[t]} : slot'[r] = slot[r] /\ sleeper'[r] = sleeper[r]
        BY <1>11, <3>2 DEF StoreSlots
      <4> QED
        BY <3>2, <4>1, <4>2 DEF Holders
    <3>4. Cardinality(Holders(w)') = Cardinality(Holders(w)) + 1
      <4>1. Cardinality(Holders(w) \cup {req[t]}) = Cardinality(Holders(w)) + 1
        BY <1>d, <3>2, FS_AddElement
      <4> QED
        BY <3>3, <4>1
    <3>5. est'[w] = est[w] + 1
      BY <1>11, <2>1, <3>1 DEF StoreSlots
    <3>6. /\ \A u \in Threads : Selecting(u, w) => u = t
          /\ \A q \in Requests : ~Returning(q, w)
      BY <1>c, <3>1
    <3>7. /\ \A u \in Threads : ~Selecting(u, w)'
          /\ \A q \in Requests : ~Returning(q, w)'
      BY <1>11, <3>6 DEF StoreSlots, Selecting, Returning
    <3> QED
      BY <1>a, <1>b, <1>d, <3>1, <3>4, <3>5, <3>7 DEF SerialAt
  <2>2. CASE best[t] # w
    <3>1. Holders(w)' = Holders(w) /\ est'[w] = est[w]
      BY <1>11, <2>2 DEF StoreSlots, Holders, PlacedOnce
    <3> QED
      BY <1>a, <1>b, <1>11, <2>2, <3>1 DEF StoreSlots, SerialAt, Selecting, Returning
  <2> QED
    BY <2>1, <2>2
<1>12. ASSUME NEW t \in Threads, Spawn(t) PROVE SerialAt(w)'
  <2>1. Holders(w)' = Holders(w) /\ est'[w] = est[w]
    BY <1>12 DEF Spawn, Holders, PlacedOnce
  <2> QED
    BY <1>a, <1>b, <1>12, <2>1 DEF Spawn, SerialAt, Selecting, Returning
<1>13. ASSUME NEW t \in Threads, Send(t) PROVE SerialAt(w)'
  <2>1. Holders(w)' = Holders(w) /\ est'[w] = est[w]
    BY <1>13 DEF Send, Holders
  <2> QED
    BY <1>a, <1>b, <1>13, <2>1 DEF Send, SerialAt, Selecting, Returning
<1>14. ASSUME NEW r \in Requests, Wake(r) PROVE SerialAt(w)'
  <2>1. CASE slot[r] = w
    <3>1. r \in Holders(w)
      BY <1>14, <2>1 DEF Wake, Holders
    <3>2. Cardinality(Holders(w)) > 0
      BY <1>d, <3>1, FS_EmptySet
    <3>3. est[slot[r]] > 0
      BY <1>b, <2>1, <3>2 DEF SerialAt
    <3>4. sleeper' = [sleeper EXCEPT ![r] = "checked"] /\ sleeper[r] = "asleep"
      BY <1>14, <3>3 DEF Wake
    <3>5. Holders(w)' = Holders(w)
      BY <1>14, <3>4 DEF Wake, Holders
    <3> QED
      BY <1>a, <1>b, <1>14, <3>4, <3>5 DEF Wake, SerialAt, Selecting, Returning
  <2>2. CASE slot[r] # w
    <3>1. Holders(w)' = Holders(w)
      BY <1>14, <2>2 DEF Wake, Holders
    <3> QED
      BY <1>a, <1>b, <1>14, <2>2, <3>1 DEF Wake, SerialAt, Selecting, Returning
  <2> QED
    BY <2>1, <2>2
<1>15. ASSUME NEW r \in Requests, LoadBack(r) PROVE SerialAt(w)'
  <2>1. Holders(w)' = Holders(w) /\ est'[w] = est[w]
    BY <1>15 DEF LoadBack, Holders
  <2> QED
    BY <1>a, <1>b, <1>15, <2>1 DEF LoadBack, SerialAt, Selecting, Returning
<1>16. ASSUME NEW r \in Requests, StoreBack(r) PROVE SerialAt(w)'
  <2>1. CASE slot[r] = w
    <3>1. r \in Holders(w) /\ Returning(r, w) /\ val[r] = est[w]
      BY <1>b, <1>16, <2>1 DEF StoreBack, Holders, Returning, SerialAt
    <3>2. Holders(w)' = Holders(w) \ {r}
      BY <1>16, <2>1 DEF StoreBack, Holders
    <3>3. Cardinality(Holders(w)') = Cardinality(Holders(w)) - 1
      BY <1>d, <3>1, <3>2, FS_RemoveElement
    <3>4. est'[w] = est[w] - 1
      BY <1>16, <2>1, <3>1 DEF StoreBack
    <3>5. /\ \A t \in Threads : ~Selecting(t, w)
          /\ \A q \in Requests : Returning(q, w) => q = r
      BY <1>c, <3>1
    <3>6. /\ \A t \in Threads : ~Selecting(t, w)'
          /\ \A q \in Requests : ~Returning(q, w)'
      BY <1>16, <3>5 DEF StoreBack, Selecting, Returning
    <3> QED
      BY <1>a, <1>b, <1>d, <3>3, <3>4, <3>6 DEF SerialAt
  <2>2. CASE slot[r] # w
    <3>1. Holders(w)' = Holders(w) /\ est'[w] = est[w]
      BY <1>16, <2>2 DEF StoreBack, Holders
    <3> QED
      BY <1>a, <1>b, <1>16, <2>2, <3>1 DEF StoreBack, SerialAt, Selecting, Returning
  <2> QED
    BY <2>1, <2>2
<1>17. ASSUME NEW v \in Workers, GoDown(v) PROVE SerialAt(w)'
  <2>1. Holders(w)' = Holders(w) /\ est'[w] = est[w]
    BY <1>17 DEF GoDown, Holders
  <2> QED
    BY <1>a, <1>b, <1>17, <2>1 DEF GoDown, SerialAt, Selecting, Returning
<1> QED
  BY <1>1, <1>2, <1>3, <1>4, <1>5, <1>6, <1>7, <1>8, <1>9, <1>10, <1>11, <1>12, <1>13, <1>14, <1>15, <1>16, <1>17 DEF Next, Step, ThreadStep, SleeperStep

(* How far the races can lead a counter astray.                              *)

\* The threads that are about to take a slot of w.
Selectors(w) == {t \in Threads : Selecting(t, w)}

LEMMA SelectorsFinite ==
  \A w \in Workers : /\ IsFiniteSet(Selectors(w))
                     /\ Cardinality(Selectors(w)) \in Nat
                     /\ Cardinality(Selectors(w)) <= Cardinality(Threads)
                     /\ Cardinality(Threads) \in Nat /\ Cardinality(Threads) > 0
<1>1. /\ IsFiniteSet(Threads) /\ Cardinality(Threads) \in Nat
      /\ Cardinality(Threads) > 0
  BY FS_CardinalityType, FS_EmptySet
<1>2. \A w \in Workers : Selectors(w) \subseteq Threads
  BY DEF Selectors
<1> QED
  BY <1>1, <1>2, FS_Subset, FS_CardinalityType

\* A step that takes and gives back no slot, and whose new loads are of the counter
\* as it is, keeps the bound; a thread that joins the selectors has found a slot free.
LEMMA DriftKept ==
  ASSUME TypeOK, Next, NEW w \in Workers, DriftAt(w),
         Holders(w)' = Holders(w), est'[w] = est[w],
         \A t \in Threads : pc'[t] = "store" /\ best'[t] = w =>
           (pc[t] = "store" /\ best[t] = w /\ tmp'[t] = tmp[t]) \/ tmp'[t] = est[w],
         \A r \in Requests : sleeper'[r] = "loaded" /\ slot'[r] = w =>
           (sleeper[r] = "loaded" /\ slot[r] = w /\ val'[r] = val[r]) \/ val'[r] = est[w],
         Selectors(w)' \subseteq Selectors(w) \/ est[w] < MaxTasks[w]
  PROVE  DriftAt(w)'
<1> DEFINE H == Cardinality(Holders(w))
           N == Cardinality(Threads)
<1>1. crossed[w] \in Nat /\ crossed'[w] = crossed[w] /\ (raced[w] => raced'[w])
  BY DEF Next, Record, Crossing, TypeOK
<1>2. H \in Nat /\ H' = H /\ MaxTasks[w] \in Nat /\ est[w] \in Int
  BY HoldersFinite DEF TypeOK
<1>3. /\ Cardinality(Selectors(w)) \in Nat /\ Cardinality(Selectors(w)') \in Nat
      /\ Cardinality(Selectors(w)') <= N /\ N \in Nat
  <2>1. Selectors(w)' \subseteq Threads
    BY DEF Selectors
  <2> QED
    BY <2>1, SelectorsFinite, FS_Subset, FS_CardinalityType
<1>4. Near(est[w], w) /\ H + Cardinality(Selectors(w)) < MaxTasks[w] + N + crossed[w]
  BY DEF DriftAt, Selectors
<1>5. \A n : Near(n, w)' <=> Near(n, w)
  BY <1>1, <1>2 DEF Near
<1>6. H + Cardinality(Selectors(w)') < MaxTasks[w] + N + crossed[w]
  <2>1. CASE Selectors(w)' \subseteq Selectors(w)
    <3>1. Cardinality(Selectors(w)') <= Cardinality(Selectors(w))
      BY <2>1, SelectorsFinite, FS_Subset
    <3> QED
      BY <1>1, <1>2, <1>3, <1>4, <3>1
  <2>2. CASE est[w] < MaxTasks[w]
    <3>1. H - crossed[w] <= est[w]
      BY <1>4 DEF Near
    <3> QED
      BY <1>1, <1>2, <1>3, <2>2, <3>1
  <2> QED
    BY <2>1, <2>2
<1>7. /\ Near(est[w], w)'
      /\ \A t \in Threads : pc'[t] = "store" /\ best'[t] = w => Near(tmp[t], w)'
      /\ \A r \in Requests : sleeper'[r] = "loaded" /\ slot'[r] = w => Near(val[r], w)'
  <2>1. Near(est[w], w)'
    BY <1>1, <1>2, <1>4 DEF Near
  <2>2. ASSUME NEW t \in Threads, pc'[t] = "store", best'[t] = w PROVE Near(tmp[t], w)'
    <3>1. Near(tmp'[t], w)
      BY <1>4, <2>2 DEF DriftAt
    <3> QED
      BY <1>1, <1>2, <3>1 DEF Near
  <2>3. ASSUME NEW r \in Requests, sleeper'[r] = "loaded", slot'[r] = w PROVE Near(val[r], w)'
    <3>1. Near(val'[r], w)
      BY <1>4, <2>3 DEF DriftAt
    <3> QED
      BY <1>1, <1>2, <3>1 DEF Near
  <2> QED
    BY <2>1, <2>2, <2>3
<1>8. (Cardinality(Holders(w)) + Cardinality({t \in Threads : Selecting(t, w)})
         < MaxTasks[w] + Cardinality(Threads) + crossed[w])'
  BY <1>1, <1>2, <1>6 DEF Selectors
<1>9. ~raced'[w] => crossed'[w] = 0
  BY <1>1 DEF DriftAt
<1> QED
  BY <1>7, <1>8, <1>9 DEF DriftAt

\* A step that takes or gives back a slot of w puts the counts that others have loaded
\* off by one, and is counted exactly when there are any.
LEMMA DriftMoved ==
  ASSUME TypeOK, Next, NEW w \in Workers, DriftAt(w),
         Holders(w)' # Holders(w), NEW k \in {-1, 1},
         Cardinality(Holders(w)') = Cardinality(Holders(w)) + k,
         Cardinality(Holders(w)') - crossed[w] <= est'[w],
         est'[w] <= Cardinality(Holders(w)') + crossed[w],
         \A t \in Threads : pc'[t] = "store" /\ best'[t] = w =>
           pc[t] = "store" /\ best[t] = w /\ tmp'[t] = tmp[t],
         \A r \in Requests : sleeper'[r] = "loaded" /\ slot'[r] = w =>
           sleeper[r] = "loaded" /\ slot[r] = w /\ val'[r] = val[r],
         est'[w] \in Int, Cardinality(Selectors(w)') \in Nat,
         Cardinality(Holders(w)') + Cardinality(Selectors(w)')
           <= Cardinality(Holders(w)) + Cardinality(Selectors(w)),
         ~raced'[w] => Loaded(w)' = {}
  PROVE  DriftAt(w)'
<1> DEFINE H == Cardinality(Holders(w))
           N == Cardinality(Threads)
           S == Cardinality(Selectors(w))
<1>1. /\ crossed[w] \in Nat /\ (raced[w] => raced'[w])
      /\ crossed'[w] = crossed[w] + IF Crossing(w) THEN 1 ELSE 0
  BY DEF Next, Record, TypeOK
<1>2. /\ H \in Nat /\ H' \in Int /\ S \in Nat /\ S' \in Nat /\ N \in Nat /\ MaxTasks[w] \in Nat
      /\ est'[w] \in Int
  <2>1. H \in Nat /\ S \in Nat /\ N \in Nat /\ MaxTasks[w] \in Nat
    BY HoldersFinite, SelectorsFinite
  <2> QED
    BY <2>1
<1>3. crossed'[w] \in Nat /\ crossed'[w] >= crossed[w]
  BY <1>1
<1>4. H + S < MaxTasks[w] + N + crossed[w]
  BY DEF DriftAt, Selectors
<1>5. Near(est[w], w)'
  BY <1>1, <1>2, <1>3 DEF Near
<1>6. ASSUME NEW t \in Threads, pc'[t] = "store", best'[t] = w PROVE Near(tmp[t], w)'
  <2>1. Near(tmp[t], w) /\ tmp'[t] = tmp[t] /\ tmp[t] \in Int
    BY <1>6 DEF DriftAt, TypeOK
  <2>2. t \in Loaded(w)'
    BY <1>6 DEF Loaded
  <2>3. Near(tmp'[t], w)
    BY <2>1
  <2> QED
    BY <1>1, <1>2, <2>1, <2>2 DEF Near, Crossing
<1>7. ASSUME NEW r \in Requests, sleeper'[r] = "loaded", slot'[r] = w PROVE Near(val[r], w)'
  <2>1. Near(val[r], w) /\ val'[r] = val[r] /\ val[r] \in Int
    BY <1>7 DEF DriftAt, TypeOK
  <2>2. r \in Loaded(w)'
    BY <1>7 DEF Loaded
  <2> QED
    BY <1>1, <1>2, <2>1, <2>2 DEF Near, Crossing
<1>8. (Cardinality(Holders(w)) + Cardinality({t \in Threads : Selecting(t, w)})
         < MaxTasks[w] + Cardinality(Threads) + crossed[w])'
  <2>1. H' + S' < MaxTasks[w] + N + crossed'[w]
    BY <1>1, <1>2, <1>3, <1>4
  <2> QED
    BY <2>1 DEF Selectors
<1>9. ~raced'[w] => crossed'[w] = 0
  BY <1>1 DEF DriftAt, Crossing
<1> QED
  BY <1>5, <1>6, <1>7, <1>8, <1>9 DEF DriftAt

\* No step leads a counter further astray than its crossings are counted.
LEMMA DriftStep ==
  ASSUME TypeOK, LocalsOK, PlacedOnce, PointersListed, Serial, Drift, Next
  PROVE  Drift'
<1> SUFFICES ASSUME NEW w \in Workers PROVE DriftAt(w)'
  BY DEF Drift
<1>a. DriftAt(w) /\ (~raced'[w] => SerialAt(w) /\ ~Overlap(w))
  BY DEF Drift, Serial, SerialAt, Next, Record
<1>b. IsFiniteSet(Holders(w)) /\ Cardinality(Holders(w)) \in Nat /\ crossed[w] \in Nat
  BY HoldersFinite DEF TypeOK
<1>c. /\ crossed'[w] = crossed[w] + IF Crossing(w) THEN 1 ELSE 0
      /\ ~raced'[w] => ~raced[w]
  BY DEF Next, Record, TypeOK
<1> USE DEF threadVars, tableVars, sleeperVars, worldVars, Goto, TypeOK, LocalsOK
<1>1. ASSUME NEW v \in Workers, NEW busy \in BOOLEAN, NEW d \in Delays, Register(v, busy, d) PROVE DriftAt(w)'
  <2>1. CASE v = w
    <3>1. Holders(w) = {} /\ Holders(w)' = {}
      BY <1>1, <2>1 DEF Register, Holders, PointersListed
    <3>2. est'[w] = 0 /\ Cardinality(Holders(w)) = 0
      BY <1>1, <2>1, <3>1, FS_EmptySet DEF Register
    <3>3. crossed'[w] = crossed[w]
      BY <1>c, <3>1 DEF Crossing
    <3>4. /\ \A t \in Threads : best'[t] # w /\ ~Selecting(t, w) /\ ~Selecting(t, w)'
          /\ \A q \in Requests : slot'[q] # w
      BY <1>1, <2>1 DEF Register, Selecting, PointersListed
    <3>5. Selectors(w) = {} /\ Selectors(w)' = {}
      BY <3>4 DEF Selectors
    <3>6. (Cardinality(Holders(w)) + Cardinality({t \in Threads : Selecting(t, w)})
             < MaxTasks[w] + Cardinality(Threads) + crossed[w])'
      BY <1>a, <3>1, <3>3, <3>5 DEF DriftAt, Selectors
    <3>7. Near(est[w], w)'
      BY <1>b, <3>1, <3>2, <3>3 DEF Near
    <3>8. ~raced'[w] => crossed'[w] = 0
      BY <1>a, <1>c, <3>3 DEF DriftAt
    <3>9. /\ \A t \in Threads : ~(pc'[t] = "store" /\ best'[t] = w)
          /\ \A q \in Requests : ~(sleeper'[q] = "loaded" /\ slot'[q] = w)
      BY <3>4
    <3> QED
      BY <3>6, <3>7, <3>8, <3>9 DEF DriftAt
  <2>2. CASE v # w
    <3>1. Holders(w)' = Holders(w) /\ est'[w] = est[w]
      BY <1>1, <2>2 DEF Register, Holders
    <3>2. Selectors(w)' \subseteq Selectors(w)
      BY <1>1 DEF Register, Selectors, Selecting
    <3> QED
      BY <1>a, <1>1, <3>1, <3>2, DriftKept DEF Register
  <2> QED
    BY <2>1, <2>2
<1>2. ASSUME NEW v \in Workers, NEW busy \in BOOLEAN, NEW d \in Delays, RefreshCpu(v, busy, d) PROVE DriftAt(w)'
  <2>1. Holders(w)' = Holders(w) /\ est'[w] = est[w]
    BY <1>2 DEF RefreshCpu, Holders
  <2>2. Selectors(w)' \subseteq Selectors(w)
    BY <1>2 DEF RefreshCpu, Selectors, Selecting
  <2> QED
    BY <1>a, <1>2, <2>1, <2>2, DriftKept DEF RefreshCpu
<1>3. ASSUME RefreshDelay PROVE DriftAt(w)'
  <2>1. Holders(w)' = Holders(w) /\ est'[w] = est[w]
    BY <1>3 DEF RefreshDelay, Holders
  <2>2. Selectors(w)' \subseteq Selectors(w)
    BY <1>3 DEF RefreshDelay, Selectors, Selecting
  <2> QED
    BY <1>a, <1>3, <2>1, <2>2, DriftKept DEF RefreshDelay
<1>4. ASSUME NEW t \in Threads, NEW r \in Requests, Begin(t, r) PROVE DriftAt(w)'
  <2>1. Holders(w)' = Holders(w) /\ est'[w] = est[w]
    BY <1>4 DEF Begin, Holders
  <2>2. Selectors(w)' \subseteq Selectors(w)
    BY <1>4 DEF Begin, Selectors, Selecting
  <2> QED
    BY <1>a, <1>4, <2>1, <2>2, DriftKept DEF Begin
<1>5. ASSUME NEW t \in Threads, Start(t) PROVE DriftAt(w)'
  <2>1. Holders(w)' = Holders(w) /\ est'[w] = est[w]
    BY <1>5 DEF Start, Holders
  <2>2. Selectors(w)' \subseteq Selectors(w)
    BY <1>5 DEF Start, Selectors, Selecting
  <2> QED
    BY <1>a, <1>5, <2>1, <2>2, DriftKept DEF Start
<1>6. ASSUME NEW t \in Threads, Visit(t) PROVE DriftAt(w)'
  <2>1. Holders(w)' = Holders(w) /\ est'[w] = est[w]
    BY <1>6 DEF Visit, Holders
  <2>2. Selectors(w)' \subseteq Selectors(w)
    BY <1>6 DEF Visit, Selectors, Selecting
  <2> QED
    BY <1>a, <1>6, <2>1, <2>2, DriftKept DEF Visit
<1>7. ASSUME NEW t \in Threads, CheckTasks(t) PROVE DriftAt(w)'
  <2>1. Holders(w)' = Holders(w) /\ est'[w] = est[w]
    BY <1>7 DEF CheckTasks, Holders
  <2>2. Selectors(w)' \subseteq Selectors(w) \/ est[w] < MaxTasks[w]
    BY <1>7 DEF CheckTasks, Selectors, Selecting
  <2>3. \A u \in Threads : pc'[u] = "store" => pc[u] = "store"
    BY <1>7 DEF CheckTasks
  <2> QED
    BY <1>a, <1>7, <2>1, <2>2, <2>3, DriftKept DEF CheckTasks
<1>8. ASSUME NEW t \in Threads, CheckCpu(t) PROVE DriftAt(w)'
  <2>1. Holders(w)' = Holders(w) /\ est'[w] = est[w]
    BY <1>8 DEF CheckCpu, Holders
  <2>2. Selectors(w)' \subseteq Selectors(w)
    BY <1>8 DEF CheckCpu, Selectors, Selecting
  <2> QED
    BY <1>a, <1>8, <2>1, <2>2, DriftKept DEF CheckCpu
<1>9. ASSUME NEW t \in Threads, EndScan(t) PROVE DriftAt(w)'
  <2>1. Holders(w)' = Holders(w) /\ est'[w] = est[w]
    BY <1>9 DEF EndScan, Holders
  <2>2. Selectors(w)' \subseteq Selectors(w)
    BY <1>9 DEF EndScan, Selectors, Selecting
  <2> QED
    BY <1>a, <1>9, <2>1, <2>2, DriftKept DEF EndScan
<1>10. ASSUME NEW t \in Threads, LoadSlots(t) PROVE DriftAt(w)'
  <2>1. Holders(w)' = Holders(w) /\ est'[w] = est[w]
    BY <1>10 DEF LoadSlots, Holders
  <2>2. Selectors(w)' \subseteq Selectors(w)
    BY <1>10 DEF LoadSlots, Selectors, Selecting
  <2> QED
    BY <1>a, <1>10, <2>1, <2>2, DriftKept DEF LoadSlots
<1>11. ASSUME NEW t \in Threads, StoreSlots(t) PROVE DriftAt(w)'
  <2>1. CASE best[t] = w
    <3>1. t \in Selectors(w) /\ Near(tmp[t], w) /\ tmp[t] \in Int
      BY <1>a, <1>11, <2>1 DEF StoreSlots, Selectors, Selecting, DriftAt
    <3>2. req[t] \in Requests /\ req[t] \notin Holders(w)
      BY <1>11 DEF StoreSlots, Holders, PlacedOnce
    <3>3. Holders(w)' = Holders(w) \cup {req[t]}
      <4>1. slot'[req[t]] = w /\ sleeper'[req[t]] = "due"
        BY <1>11, <2>1, <3>2 DEF StoreSlots
      <4>2. \A r \in Requests \ {req[t]} : slot'[r] = slot[r] /\ sleeper'[r] = sleeper[r]
        BY <1>11, <3>2 DEF StoreSlots
      <4> QED
        BY <3>2, <4>1, <4>2 DEF Holders
    <3>4. Cardinality(Holders(w)') = Cardinality(Holders(w)) + 1
      <4>1. Cardinality(Holders(w) \cup {req[t]}) = Cardinality(Holders(w)) + 1
        BY <1>b, <3>2, FS_AddElement
      <4> QED
        BY <3>3, <4>1
    <3>5. est'[w] = tmp[t] + 1
      BY <1>11, <2>1 DEF StoreSlots
    <3>6. /\ Cardinality(Holders(w)') - crossed[w] <= est'[w]
          /\ est'[w] <= Cardinality(Holders(w)') + crossed[w]
      BY <1>b, <3>1, <3>4, <3>5 DEF Near
    <3>7. Selectors(w)' = Selectors(w) \ {t}
      BY <1>11 DEF StoreSlots, Selectors, Selecting
    <3>8. /\ Cardinality(Selectors(w)') = Cardinality(Selectors(w)) - 1
          /\ Cardinality(Selectors(w)) \in Nat /\ Cardinality(Selectors(w)') \in Nat
      <4>1. IsFiniteSet(Selectors(w)) /\ Cardinality(Selectors(w)) \in Nat
        BY SelectorsFinite
      <4>2. /\ Cardinality(Selectors(w) \ {t}) = Cardinality(Selectors(w)) - 1
            /\ Cardinality(Selectors(w) \ {t}) \in Nat
        BY <3>1, <4>1, FS_RemoveElement, FS_CardinalityType
      <4> QED
        BY <3>7, <4>1, <4>2
    <3>9. \A u \in Threads : pc'[u] = "store" /\ best'[u] = w =>
            u # t /\ pc[u] = "store" /\ best[u] = w /\ tmp'[u] = tmp[u]
      BY <1>11 DEF StoreSlots
    <3>10. \A q \in Requests : sleeper'[q] = "loaded" /\ slot'[q] = w =>
             sleeper[q] = "loaded" /\ slot[q] = w /\ val'[q] = val[q]
      BY <1>11, <3>2 DEF StoreSlots
    <3>11. ~raced'[w] => Loaded(w)' = {}
      <4> SUFFICES ASSUME ~Overlap(w), NEW x \in Loaded(w)' PROVE FALSE
        BY <1>a
      <4>1. t \in Updating(w)
        BY <3>1 DEF Updating, Selectors
      <4>2. x # t /\ x \in Updating(w)
        BY <3>9, <3>10 DEF Loaded, Updating, Selecting, Returning
      <4> QED
        BY <4>1, <4>2 DEF Overlap
    <3>12. Cardinality(Holders(w)') + Cardinality(Selectors(w)')
             <= Cardinality(Holders(w)) + Cardinality(Selectors(w))
      BY <1>b, <3>4, <3>8
    <3>13. Holders(w)' # Holders(w) /\ est'[w] \in Int
      BY <3>1, <3>2, <3>3, <3>5
    <3> QED
      BY <1>a, <3>4, <3>6, <3>8, <3>9, <3>10, <3>11, <3>12, <3>13, DriftMoved
  <2>2. CASE best[t] # w
    <3>1. Holders(w)' = Holders(w) /\ est'[w] = est[w]
      BY <1>11, <2>2 DEF StoreSlots, Holders, PlacedOnce
    <3>2. Selectors(w)' \subseteq Selectors(w)
      BY <1>11 DEF StoreSlots, Selectors, Selecting
    <3>3. \A r \in Requests : sleeper'[r] = "loaded" => sleeper[r] = "loaded" /\ slot'[r] = slot[r]
      BY <1>11 DEF StoreSlots
    <3> QED
      BY <1>a, <1>11, <3>1, <3>2, <3>3, DriftKept DEF StoreSlots
  <2> QED
    BY <2>1, <2>2
<1>12. ASSUME NEW t \in Threads, Spawn(t) PROVE DriftAt(w)'
  <2>1. Holders(w)' = Holders(w) /\ est'[w] = est[w]
    BY <1>12 DEF Spawn, Holders, PlacedOnce
  <2>2. Selectors(w)' \subseteq Selectors(w)
    BY <1>12 DEF Spawn, Selectors, Selecting
  <2>3. \A r \in Requests : sleeper'[r] = "loaded" => sleeper[r] = "loaded"
    BY <1>12 DEF Spawn
  <2> QED
    BY <1>a, <1>12, <2>1, <2>2, <2>3, DriftKept DEF Spawn
<1>13. ASSUME NEW t \in Threads, Send(t) PROVE DriftAt(w)'
  <2>1. Holders(w)' = Holders(w) /\ est'[w] = est[w]
    BY <1>13 DEF Send, Holders
  <2>2. Selectors(w)' \subseteq Selectors(w)
    BY <1>13 DEF Send, Selectors, Selecting
  <2> QED
    BY <1>a, <1>13, <2>1, <2>2, DriftKept DEF Send
<1>14. ASSUME NEW r \in Requests, Wake(r) PROVE DriftAt(w)'
  <2>1. /\ est'[w] = est[w] /\ Selectors(w)' = Selectors(w)
        /\ \A q \in Requests : sleeper'[q] = "loaded" => sleeper[q] = "loaded"
    BY <1>14 DEF Wake, Selectors, Selecting
  <2>2. CASE slot[r] = w /\ est[w] <= 0
    <3>1. r \in Holders(w) /\ Holders(w)' = Holders(w) \ {r}
      BY <1>14, <2>2 DEF Wake, Holders
    <3>2. Cardinality(Holders(w)') = Cardinality(Holders(w)) - 1 /\ Cardinality(Holders(w)) > 0
      <4>1. Cardinality(Holders(w) \ {r}) = Cardinality(Holders(w)) - 1
        BY <1>b, <3>1, FS_RemoveElement
      <4>2. Cardinality(Holders(w)) # 0
        BY <1>b, <3>1, FS_EmptySet
      <4> QED
        BY <1>b, <3>1, <4>1, <4>2
    <3>3. /\ Cardinality(Holders(w)') - crossed[w] <= est'[w]
          /\ est'[w] <= Cardinality(Holders(w)') + crossed[w]
      BY <1>a, <1>b, <2>1, <2>2, <3>2 DEF DriftAt, Near
    <3>4. raced'[w]
      BY <1>a, <1>b, <2>2, <3>2 DEF SerialAt
    <3>5. Cardinality(Selectors(w)') \in Nat /\ Cardinality(Selectors(w)') = Cardinality(Selectors(w))
      BY <2>1, SelectorsFinite
    <3>6. Cardinality(Holders(w)') + Cardinality(Selectors(w)')
            <= Cardinality(Holders(w)) + Cardinality(Selectors(w))
      BY <1>b, <3>2, <3>5
    <3>7. Cardinality(Holders(w)') = Cardinality(Holders(w)) + (-1) /\ Holders(w)' # Holders(w)
      BY <1>b, <3>1, <3>2
    <3>8. est'[w] \in Int
      BY <2>1
    <3> QED
      BY <1>a, <1>14, <2>1, <3>3, <3>4, <3>5, <3>6, <3>7, <3>8, DriftMoved DEF Wake
  <2>3. CASE slot[r] # w \/ est[w] > 0
    <3>1. Holders(w)' = Holders(w)
      BY <1>14, <2>3 DEF Wake, Holders
    <3> QED
      BY <1>a, <1>14, <2>1, <3>1, DriftKept DEF Wake
  <2> QED
    BY <2>2, <2>3
<1>15. ASSUME NEW r \in Requests, LoadBack(r) PROVE DriftAt(w)'
  <2>1. Holders(w)' = Holders(w) /\ est'[w] = est[w]
    BY <1>15 DEF LoadBack, Holders
  <2>2. Selectors(w)' \subseteq Selectors(w)
    BY <1>15 DEF LoadBack, Selectors, Selecting
  <2> QED
    BY <1>a, <1>15, <2>1, <2>2, DriftKept DEF LoadBack
<1>16. ASSUME NEW r \in Requests, StoreBack(r) PROVE DriftAt(w)'
  <2>1. /\ Selectors(w)' = Selectors(w)
        /\ \A q \in Requests : sleeper'[q] = "loaded" =>
             q # r /\ sleeper[q] = "loaded" /\ slot'[q] = slot[q] /\ val'[q] = val[q]
    BY <1>16 DEF StoreBack, Selectors, Selecting
  <2>2. CASE slot[r] = w
    <3>1. r \in Holders(w) /\ Near(val[r], w) /\ val[r] \in Int
      BY <1>a, <1>16, <2>2 DEF StoreBack, Holders, DriftAt
    <3>2. Holders(w)' = Holders(w) \ {r}
      BY <1>16, <2>2 DEF StoreBack, Holders
    <3>3. Cardinality(Holders(w)') = Cardinality(Holders(w)) - 1
      BY <1>b, <3>1, <3>2, FS_RemoveElement
    <3>4. est'[w] = val[r] - 1
      BY <1>16, <2>2 DEF StoreBack
    <3>5. /\ Cardinality(Holders(w)') - crossed[w] <= est'[w]
          /\ est'[w] <= Cardinality(Holders(w)') + crossed[w]
      BY <1>b, <3>1, <3>3, <3>4 DEF Near
    <3>6. ~raced'[w] => Loaded(w)' = {}
      <4> SUFFICES ASSUME ~Overlap(w), NEW x \in Loaded(w)' PROVE FALSE
        BY <1>a
      <4>1. r \in Updating(w)
        BY <1>16, <2>2 DEF StoreBack, Updating, Returning
      <4>2. x # r /\ x \in Updating(w)
        BY <1>16, <2>1 DEF StoreBack, Loaded, Updating, Selecting, Returning
      <4> QED
        BY <4>1, <4>2 DEF Overlap
    <3>7. Cardinality(Selectors(w)') \in Nat /\ Cardinality(Selectors(w)') = Cardinality(Selectors(w))
      BY <2>1, SelectorsFinite
    <3>8. Cardinality(Holders(w)') + Cardinality(Selectors(w)')
            <= Cardinality(Holders(w)) + Cardinality(Selectors(w))
      BY <1>b, <3>3, <3>7
    <3>9. Cardinality(Holders(w)') = Cardinality(Holders(w)) + (-1) /\ Holders(w)' # Holders(w)
      BY <1>b, <3>1, <3>2, <3>3
    <3>10. est'[w] \in Int
      BY <3>1, <3>4
    <3> QED
      BY <1>a, <1>16, <2>1, <3>5, <3>6, <3>7, <3>8, <3>9, <3>10, DriftMoved DEF StoreBack
  <2>3. CASE slot[r] # w
    <3>1. Holders(w)' = Holders(w) /\ est'[w] = est[w]
      BY <1>16, <2>3 DEF StoreBack, Holders
    <3> QED
      BY <1>a, <1>16, <2>1, <3>1, DriftKept DEF StoreBack
  <2> QED
    BY <2>2, <2>3
<1>17. ASSUME NEW v \in Workers, GoDown(v) PROVE DriftAt(w)'
  <2>1. Holders(w)' = Holders(w) /\ est'[w] = est[w]
    BY <1>17 DEF GoDown, Holders
  <2>2. Selectors(w)' \subseteq Selectors(w)
    BY <1>17 DEF GoDown, Selectors, Selecting
  <2> QED
    BY <1>a, <1>17, <2>1, <2>2, DriftKept DEF GoDown
<1> QED
  BY <1>1, <1>2, <1>3, <1>4, <1>5, <1>6, <1>7, <1>8, <1>9, <1>10, <1>11, <1>12, <1>13, <1>14, <1>15, <1>16, <1>17 DEF Next, Step, ThreadStep, SleeperStep

-------------------------------------------------------------------------------
(* The scan. *)

LEMMA ListTypes ==
  ASSUME TypeOK
  PROVE  /\ next \in [Workers -> Workers \cup {NULL}] /\ head \in Workers \cup {NULL}
         /\ NULL \notin Workers
BY DEF TypeOK

\* A new node goes in front of all others; nothing else changes the list.
LEMMA WholeStep ==
  ASSUME TypeOK, ListWhole, Next
  PROVE  ListWhole'
<1>1. ASSUME NEW w \in Workers, NEW busy \in BOOLEAN, NEW d \in Delays, Register(w, busy, d) PROVE ListWhole'
  <2>1. /\ w \notin OnList(head, next, NULL) /\ next'[w] = head
        /\ next' \in [Workers -> Workers \cup {NULL}]
        /\ \A v \in OnList(head, next, NULL) : next'[v] = next[v]
    BY <1>1, ListTypes DEF Register, ListWhole
  <2>2. OnList(head, next', NULL) = OnList(head, next, NULL)
    BY <2>1, ListTypes, OnListFrame
  <2>3. OnList(w, next', NULL) = {w} \cup OnList(head, next', NULL)
    BY <2>1, ListTypes, OnListStep
  <2> QED
    BY <1>1, <2>2, <2>3 DEF Register, ListWhole
<1>2. CASE UNCHANGED <<head, next, listed>>
  BY <1>2 DEF ListWhole
<1> QED
  <2>1. ASSUME NEW t \in Threads, ThreadStep(t) PROVE UNCHANGED tableVars
    BY <2>1 DEF ThreadStep, Start, Visit, CheckTasks, CheckCpu, EndScan, LoadSlots, StoreSlots,
                Spawn, Send
  <2>2. ASSUME NEW r \in Requests, SleeperStep(r) PROVE UNCHANGED tableVars
    BY <2>2 DEF SleeperStep, Wake, LoadBack, StoreBack
  <2>3. ASSUME NEW w \in Workers, NEW busy \in BOOLEAN, NEW d \in Delays, RefreshCpu(w, busy, d)
        PROVE  UNCHANGED <<head, next, listed>>
    BY <2>3 DEF RefreshCpu
  <2>4. RefreshDelay => UNCHANGED <<head, next, listed>>
    BY DEF RefreshDelay
  <2>5. \A t \in Threads, r \in Requests : Begin(t, r) => UNCHANGED tableVars
    BY DEF Begin
  <2>6. \A w \in Workers : GoDown(w) => UNCHANGED tableVars
    BY DEF GoDown
  <2> QED
    BY <1>1, <1>2, <2>1, <2>2, <2>3, <2>4, <2>5, <2>6 DEF Next, Step, tableVars

\* A thread's estimates are numbers.
LEMMA CostInt ==
  ASSUME TypeOK, LocalsOK, NEW t \in Threads, pc[t] # "idle", NEW w \in Workers
  PROVE  Cost(t, w) \in Int
<1>1. req[t] \in Requests /\ delay[w] \in Delays
  BY DEF TypeOK, LocalsOK
<1> QED
  BY <1>1 DEF Cost

\* What a scan has established does not depend on what other threads do elsewhere.
LEMMA ScanFrame ==
  ASSUME NEW t \in Threads, ScanAt(t), UNCHANGED <<est, tableVars>>,
         pc'[t] = pc[t], req'[t] = req[t], cursor'[t] = cursor[t], best'[t] = best[t],
         time'[t] = time[t], minTime'[t] = minTime[t], tmp'[t] = tmp[t]
  PROVE  ScanAt(t)'
<1>1. \A w : Admissible(w)' = Admissible(w) /\ Cost(t, w)' = Cost(t, w)
  BY DEF Admissible, Cost, tableVars
<1>2. Best(t)' = Best(t) /\ Ahead(t)' = Ahead(t)
  BY <1>1 DEF Best, Ahead, tableVars
<1> QED
  BY <1>1, <1>2 DEF ScanAt

\* A thread's own step carries on what its scan has established.
LEMMA OwnScanStep ==
  ASSUME TypeOK, LocalsOK, PointersListed, ListWhole, NEW t \in Threads, ThreadStep(t),
         \/ pc[t] = "start" /\ pc'[t] = "visit"
         \/ steady[t] /\ ScanAt(t) /\ UNCHANGED <<est, tableVars>>
  PROVE  ScanAt(t)'
<1> USE ListTypes DEF Goto
<1> DEFINE Known(v) == \A w \in Workers : Admissible(w) => w \in Ahead(t)' \/ v <= Cost(t, w)
<1>1. /\ pc \in [Threads -> ThreadPoints] /\ minTime \in [Threads -> Int]
      /\ cursor \in [Threads -> Workers \cup {NULL}] /\ best \in [Threads -> Workers \cup {NULL}]
      /\ time \in [Threads -> Int] /\ tmp \in [Threads -> Int] /\ est \in [Workers -> Int]
      /\ MaxTasks \in [Workers -> Nat]
  BY DEF TypeOK
<1>2. CASE Start(t)
  <2>1. /\ cursor'[t] = head /\ best'[t] = NULL /\ minTime'[t] = IntMax /\ pc'[t] = "visit"
        /\ UNCHANGED <<req, est, tableVars>>
    BY <1>1, <1>2 DEF Start
  <2>2. Best(t)' /\ Ahead(t)' = listed
    BY <2>1 DEF Best, Ahead, ListWhole, tableVars
  <2>3. \A w \in Workers : Admissible(w)' => w \in listed
    BY <2>1 DEF Admissible, tableVars
  <2> QED
    BY <2>1, <2>2, <2>3 DEF ScanAt
<1> SUFFICES ASSUME ScanAt(t), UNCHANGED <<est, tableVars>>, pc[t] # "start"
             PROVE  ScanAt(t)'
  BY <1>2 DEF ThreadStep, Start, Visit, CheckTasks, CheckCpu, EndScan, LoadSlots, StoreSlots,
              Spawn, Send
<1>3. /\ \A w : Admissible(w)' = Admissible(w)
      /\ \A w \in Workers : Cost(t, w) \in Int
  BY CostInt DEF Admissible, tableVars, ScanAt
<1>4. CASE Visit(t)
  <2>1. /\ pc[t] = "visit" /\ cursor[t] \in Workers /\ time'[t] = Cost(t, cursor[t])
        /\ UNCHANGED <<req, best, minTime, tmp>>
    BY <1>1, <1>4 DEF Visit, Cost
  <2>2. \A w : Cost(t, w)' = Cost(t, w)
    BY <2>1 DEF Cost, tableVars
  <2>3. Best(t)'
    BY <1>3, <2>1, <2>2 DEF Best, ScanAt
  <2>4. CASE Cost(t, cursor[t]) < minTime[t] /\ pc' = [pc EXCEPT ![t] = "tasks"] /\ UNCHANGED cursor
    <3>1. Ahead(t)' = Ahead(t)
      BY <1>1, <2>1, <2>4 DEF Ahead, tableVars
    <3> QED
      BY <1>1, <1>3, <2>1, <2>2, <2>3, <2>4, <3>1 DEF ScanAt
  <2>5. CASE Cost(t, cursor[t]) >= minTime[t] /\ cursor' = [cursor EXCEPT ![t] = next[cursor[t]]] /\ UNCHANGED pc
    <3>1. Ahead(t) = {cursor[t]} \cup Ahead(t)'
      BY <1>1, <2>1, <2>5, OnListStep DEF Ahead, tableVars
    <3> QED
      BY <1>1, <1>3, <2>1, <2>2, <2>3, <2>5, <3>1 DEF ScanAt
  <2> QED
    BY <1>4, <2>4, <2>5 DEF Visit, Cost
<1>5. CASE CheckTasks(t)
  <2>1. /\ pc[t] = "tasks" /\ cursor[t] \in Workers
        /\ UNCHANGED <<req, best, time, minTime, tmp>>
    BY <1>1, <1>5 DEF CheckTasks, LocalsOK
  <2>2. \A w : Cost(t, w)' = Cost(t, w)
    BY <2>1 DEF Cost, tableVars
  <2>3. Best(t)'
    BY <1>3, <2>1, <2>2 DEF Best, ScanAt
  <2>4. CASE est[cursor[t]] < MaxTasks[cursor[t]] /\ pc' = [pc EXCEPT ![t] = "cpu"] /\ UNCHANGED cursor
    <3>1. Ahead(t)' = Ahead(t)
      BY <1>1, <2>1, <2>4 DEF Ahead, tableVars
    <3> QED
      BY <1>1, <1>3, <2>1, <2>2, <2>3, <2>4, <3>1 DEF ScanAt
  <2>5. CASE /\ est[cursor[t]] >= MaxTasks[cursor[t]] /\ pc' = [pc EXCEPT ![t] = "visit"]
             /\ cursor' = [cursor EXCEPT ![t] = next[cursor[t]]]
    <3>1. Ahead(t) = {cursor[t]} \cup Ahead(t)'
      BY <1>1, <2>1, <2>5, OnListStep DEF Ahead, tableVars
    <3>2. ~Admissible(cursor[t])
      BY <1>1, <2>1, <2>5 DEF Admissible
    <3>3. pc'[t] = "visit"
      BY <1>1, <2>5
    <3> QED
      BY <1>3, <2>1, <2>2, <2>3, <3>1, <3>2, <3>3 DEF ScanAt
  <2> QED
    BY <1>5, <2>4, <2>5 DEF CheckTasks
<1>6. CASE CheckCpu(t)
  <2>1. /\ pc[t] = "cpu" /\ cursor[t] \in Workers /\ pc'[t] = "visit"
        /\ cursor'[t] = next[cursor[t]] /\ UNCHANGED <<req, time, tmp>>
    BY <1>1, <1>6 DEF CheckCpu, LocalsOK
  <2>2. \A w : Cost(t, w)' = Cost(t, w)
    BY <2>1 DEF Cost, tableVars
  <2>3. Ahead(t) = {cursor[t]} \cup Ahead(t)'
    BY <1>1, <2>1, OnListStep DEF Ahead, tableVars
  <2>4. CASE ~cpuBusy[cursor[t]] /\ best'[t] = cursor[t] /\ minTime'[t] = time[t]
    <3>1. Admissible(cursor[t]) /\ time[t] = Cost(t, cursor[t]) /\ time[t] < minTime[t]
      BY <2>1, <2>4 DEF Admissible, ScanAt, PointersListed
    <3>2. Best(t)'
      BY <1>3, <2>1, <2>2, <2>4, <3>1 DEF Best
    <3>3. \A w \in Workers : Admissible(w) => w \in Ahead(t)' \/ time[t] <= Cost(t, w)
      BY <1>1, <1>3, <2>3, <3>1 DEF ScanAt
    <3> QED
      BY <1>3, <2>1, <2>2, <2>4, <3>2, <3>3 DEF ScanAt
  <2>5. CASE cpuBusy[cursor[t]] /\ UNCHANGED <<best, minTime>>
    <3>1. ~Admissible(cursor[t]) /\ Best(t)'
      BY <1>3, <2>2, <2>5 DEF Admissible, Best, ScanAt
    <3> QED
      BY <1>3, <2>1, <2>2, <2>3, <2>5, <3>1 DEF ScanAt
  <2> QED
    BY <1>1, <1>6, <2>4, <2>5 DEF CheckCpu
<1>7. CASE EndScan(t)
  <2>1. /\ pc[t] = "visit" /\ cursor[t] = NULL /\ pc'[t] = (IF best[t] = NULL THEN "start" ELSE "load")
        /\ UNCHANGED <<req, cursor, best, time, minTime, tmp>>
    BY <1>1, <1>7 DEF EndScan
  <2>2. Ahead(t) = {}
    BY <2>1, OnListEnd DEF Ahead
  <2>3. \A w : Cost(t, w)' = Cost(t, w)
    BY <2>1 DEF Cost, tableVars
  <2> QED
    BY <1>3, <2>1, <2>2, <2>3 DEF ScanAt, Best
<1>8. CASE LoadSlots(t)
  <2>1. /\ pc[t] = "load" /\ pc'[t] = "store" /\ tmp'[t] = est[best[t]]
        /\ UNCHANGED <<req, cursor, best, time, minTime>>
    BY <1>1, <1>8 DEF LoadSlots
  <2>2. \A w : Cost(t, w)' = Cost(t, w)
    BY <2>1 DEF Cost, tableVars
  <2>3. Ahead(t)' = Ahead(t)
    BY <2>1 DEF Ahead
  <2> QED
    BY <1>3, <2>1, <2>2, <2>3 DEF ScanAt, Best
<1>9. CASE StoreSlots(t)
  <2>1. best[t] \in Workers /\ tmp[t] = est[best[t]] /\ est'[best[t]] = tmp[t] + 1
    BY <1>1, <1>9 DEF StoreSlots, ScanAt, LocalsOK
  <2> QED
    BY <1>1, <2>1
<1>10. CASE Spawn(t) \/ Send(t)
  BY <1>10 DEF Spawn, Send, ScanAt
<1> QED
  BY <1>2, <1>4, <1>5, <1>6, <1>7, <1>8, <1>9, <1>10 DEF ThreadStep, Start

\* No step of anybody breaks what a scan has established, unless it changes the table.
LEMMA ScanStep ==
  ASSUME TypeOK, LocalsOK, PointersListed, ListWhole, ScanOK, Next
  PROVE  ScanOK'
<1> SUFFICES ASSUME NEW t \in Threads, steady'[t] PROVE ScanAt(t)'
  BY DEF ScanOK
<1>1. \/ pc[t] = "start" /\ pc'[t] = "visit"
      \/ steady[t] /\ ScanAt(t) /\ UNCHANGED <<est, tableVars>>
  BY DEF Next, Record, ScanOK
<1>2. CASE UNCHANGED threadVars
  BY <1>1, <1>2, ScanFrame DEF threadVars
<1>3. CASE ThreadStep(t)
  BY <1>1, <1>3, OwnScanStep
<1>4. ASSUME NEW u \in Threads, NEW r \in Requests, Begin(u, r) PROVE ScanAt(t)'
  <2>1. pc \in [Threads -> ThreadPoints] /\ req \in [Threads -> Requests \cup {NULL}]
    BY DEF TypeOK
  <2>2. u # t
    BY <1>1, <1>4, <2>1 DEF Begin, Goto, ScanAt
  <2> QED
    BY <1>1, <1>4, <2>1, <2>2, ScanFrame DEF Begin, Goto
<1>5. ASSUME NEW u \in Threads \ {t}, ThreadStep(u) PROVE ScanAt(t)'
  <2>1. /\ pc'[t] = pc[t] /\ req'[t] = req[t] /\ cursor'[t] = cursor[t] /\ best'[t] = best[t]
        /\ time'[t] = time[t] /\ minTime'[t] = minTime[t] /\ tmp'[t] = tmp[t]
    BY <1>5 DEF ThreadStep, Start, Visit, CheckTasks, CheckCpu, EndScan, LoadSlots, StoreSlots,
                Spawn, Send, Goto, TypeOK
  <2> QED
    BY <1>1, <2>1, ScanFrame
<1> QED
  <2>1. \A r \in Requests : SleeperStep(r) => UNCHANGED threadVars
    BY DEF SleeperStep, Wake, LoadBack, StoreBack
  <2>2. \A w \in Workers, busy \in BOOLEAN, d \in Delays :
          Register(w, busy, d) \/ RefreshCpu(w, busy, d) => UNCHANGED threadVars
    BY DEF Register, RefreshCpu
  <2>3. \A w \in Workers : RefreshDelay \/ GoDown(w) => UNCHANGED threadVars
    BY DEF RefreshDelay, GoDown
  <2>4. RefreshDelay => UNCHANGED threadVars
    BY DEF RefreshDelay
  <2> QED
    BY <1>2, <1>3, <1>4, <1>5, <2>1, <2>2, <2>3, <2>4 DEF Next, Step

-------------------------------------------------------------------------------
\* The initial states satisfy every part of the invariant.
LEMMA InitInv == Init => DispatchInv
<1> SUFFICES ASSUME Init PROVE DispatchInv
  OBVIOUS
<1> USE DEF Init
<1>1. TypeOK
  BY DEF TypeOK, ThreadPoints, SleeperPoints
<1>2. LocalsOK /\ PlacedOnce /\ PointersListed
  BY DEF LocalsOK, PlacedOnce, PointersListed
<1>3. Serial
  <2> SUFFICES ASSUME NEW w \in Workers PROVE SerialAt(w)
    BY DEF Serial
  <2>1. Holders(w) = {}
    BY DEF Holders
  <2>2. /\ \A t \in Threads : ~Selecting(t, w)
        /\ \A r \in Requests : ~Returning(r, w)
    BY DEF Selecting, Returning
  <2> QED
    BY <2>1, <2>2, FS_EmptySet DEF SerialAt, Overlap, Updating
<1>4. Drift
  <2> SUFFICES ASSUME NEW w \in Workers PROVE DriftAt(w)
    BY DEF Drift
  <2>1. Holders(w) = {} /\ Selectors(w) = {}
    BY DEF Holders, Selectors, Selecting
  <2>2. Cardinality(Holders(w)) = 0 /\ Cardinality(Selectors(w)) = 0
    BY <2>1, FS_EmptySet
  <2>3. Cardinality(Threads) \in Nat /\ Cardinality(Threads) > 0 /\ MaxTasks[w] \in Nat
    BY SelectorsFinite
  <2>4. Cardinality(Holders(w)) + Cardinality(Selectors(w)) < MaxTasks[w] + Cardinality(Threads) + crossed[w]
    BY <2>2, <2>3
  <2>5. Near(est[w], w)
    BY <2>2 DEF Near
  <2> QED
    BY <2>4, <2>5 DEF DriftAt, Selectors
<1>5. ListWhole /\ ScanOK
  <2>1. next \in [Workers -> Workers \cup {NULL}]
    OBVIOUS
  <2> QED
    BY <2>1, OnListEnd DEF ListWhole, ScanOK
<1> QED
  BY <1>1, <1>2, <1>3, <1>4, <1>5 DEF DispatchInv

\* Stuttering keeps the invariant.
LEMMA Stutter ==
  ASSUME UNCHANGED vars, DispatchInv
  PROVE  DispatchInv'
<1> USE DEF vars
<1>1. TypeOK => TypeOK'
  BY DEF TypeOK
<1>2. LocalsOK /\ PlacedOnce /\ PointersListed => LocalsOK' /\ PlacedOnce' /\ PointersListed'
  BY DEF LocalsOK, PlacedOnce, PointersListed
<1>3. \A w \in Workers : Holders(w)' = Holders(w) /\ (Overlap(w)' <=> Overlap(w))
  BY DEF Holders, Overlap, Updating, Selecting, Returning
<1>4. Serial => Serial'
  BY <1>3 DEF Serial, SerialAt, Selecting, Returning
<1>5. ListWhole /\ ScanOK => ListWhole' /\ ScanOK'
  BY ScanFrame DEF ListWhole, ScanOK, tableVars
<1>6. Drift => Drift'
  BY <1>3 DEF Drift, DriftAt, Near, Selecting
<1> QED
  BY <1>1, <1>2, <1>4, <1>5, <1>6 DEF DispatchInv

\* The conjunction of types, locals, placement, pointers and the serial count of each
\* worker holds in every reachable state: Init implies it and every step keeps it.
THEOREM DispatchInvariance == Spec => []DispatchInv
<1>1. ASSUME DispatchInv, [Next]_vars PROVE DispatchInv'
  <2>1. CASE Next
    <3> USE <1>1, <2>1 DEF DispatchInv
    <3>1. TypeOK' /\ LocalsOK'
      BY TypeStep
    <3>2. PlacedOnce'
      BY PlacedStep
    <3>3. PointersListed'
      BY ListedStep
    <3>4. Serial'
      BY SerialStep
    <3>5. ListWhole' /\ ScanOK'
      BY WholeStep, ScanStep
    <3>6. Drift'
      BY DriftStep
    <3> QED
      BY <3>1, <3>2, <3>3, <3>4, <3>5, <3>6
  <2>2. CASE UNCHANGED vars
    BY <1>1, <2>2, Stutter
  <2> QED
    BY <1>1, <2>1, <2>2
<1> QED
  BY <1>1, InitInv, PTL DEF Spec

\* Every variable of the dispatcher keeps its type.
THEOREM DispatchTypes == Spec => []TypeOK
<1>1. DispatchInv => TypeOK
  BY DEF DispatchInv
<1> QED
  BY <1>1, DispatchInvariance, PTL

\* estimated_tasks counts the slots taken, unless two updates of it overlapped
\* (metadata_utils.c 412 and 434 against each other or themselves).
THEOREM CounterIsExact == Spec => []CounterExact
<1>1. DispatchInv => CounterExact
  BY DEF DispatchInv, Serial, SerialAt, CounterExact
<1> QED
  BY <1>1, DispatchInvariance, PTL

\* A worker whose counter was never raced on holds max_tasks requests at most.
THEOREM CapacityIsKept == Spec => []CapacityKept
<1>1. DispatchInv => CapacityKept
  BY DEF DispatchInv, Serial, SerialAt, CapacityKept
<1> QED
  BY <1>1, DispatchInvariance, PTL

\* The unlocked updates (metadata_utils.c 412 and 434) put estimated_tasks off by one at
\* most each time a slot is taken or given back between the load and the store of another
\* one, and a worker is never overbooked by more than those crossings and the threads
\* that select at once.
THEOREM DriftIsBounded == Spec => []DriftBounded
<1>1. ASSUME DispatchInv PROVE DriftBounded
  <2> SUFFICES ASSUME NEW w \in Workers
               PROVE  /\ Near(est[w], w)
                      /\ Cardinality(Holders(w)) < MaxTasks[w] + Cardinality(Threads) + crossed[w]
    BY DEF DriftBounded
  <2>1. /\ Near(est[w], w)
        /\ Cardinality(Holders(w)) + Cardinality(Selectors(w))
             < MaxTasks[w] + Cardinality(Threads) + crossed[w]
    BY <1>1 DEF DispatchInv, Drift, DriftAt, Selectors
  <2>2. /\ Cardinality(Holders(w)) \in Nat /\ Cardinality(Selectors(w)) \in Nat
        /\ MaxTasks[w] \in Nat /\ Cardinality(Threads) \in Nat /\ crossed[w] \in Nat
    BY <1>1, HoldersFinite, SelectorsFinite DEF DispatchInv, TypeOK
  <2> QED
    BY <2>1, <2>2
<1> QED
  BY <1>1, DispatchInvariance, PTL

\* A scan that nobody disturbs picks the cheapest worker that can take the request, and
\* comes back empty-handed only when none can (select_worker, metadata_utils.c 416-443).
THEOREM ScanPicksBest == Spec => []ScanIsBest
<1>1. ASSUME DispatchInv PROVE ScanIsBest
  <2>1. SUFFICES ASSUME NEW t \in Threads, steady[t]
                 PROVE  /\ pc[t] = "load" =>
                             /\ Admissible(best[t])
                             /\ \A w \in Workers : Admissible(w) => Cost(t, best[t]) <= Cost(t, w)
                        /\ pc[t] = "start" =>
                             \A w \in Workers : Admissible(w) => Cost(t, w) >= IntMax
    BY DEF ScanIsBest
  <2>2. ScanAt(t) /\ TypeOK /\ LocalsOK
    BY <1>1, <2>1 DEF DispatchInv, ScanOK
  <2>3. CASE pc[t] = "load"
    BY <2>2, <2>3 DEF ScanAt, Best, Ahead, LocalsOK
  <2>4. CASE pc[t] = "start"
    <3>1. \A w \in Workers : Cost(t, w) \in Int
      BY <2>2, <2>4, CostInt
    <3> QED
      BY <2>2, <2>4, <3>1 DEF ScanAt, Best, Ahead
  <2> QED
    BY <2>3, <2>4
<1> QED
  BY <1>1, DispatchInvariance, PTL

-------------------------------------------------------------------------------
(* The refinement of MetadataList. *)

\* Steps that leave the table alone are stutters of the list.
LEMMA TableFrame ==
  ASSUME UNCHANGED tableVars
  PROVE  UNCHANGED M!vars
BY DEF tableVars, Rows, M!vars

LEMMA TableRefines ==
  ASSUME TypeOK, [Next]_vars
  PROVE  [M!Next]_(M!vars)
<1>1. ASSUME NEW w \in Workers, NEW busy \in BOOLEAN, NEW d \in Delays, Register(w, busy, d)
      PROVE  M!Register(w, busy, d)
  <2>1. /\ refreshing = NULL /\ refreshing' = NULL /\ head' = w /\ w \notin listed
        /\ listed' = listed \cup {w}
    BY <1>1 DEF Register
  <2>2. /\ next'[w] = head /\ cpuBusy'[w] = busy /\ delay'[w] = d
        /\ \A u \in listed : next'[u] = next[u] /\ cpuBusy'[u] = cpuBusy[u] /\ delay'[u] = delay[u]
    BY <1>1 DEF Register, TypeOK
  <2>3. DOMAIN Rows = listed
    BY DEF Rows
  <2>4. Rows' = [u \in listed \cup {w} |->
                   IF u = w THEN [next |-> head, usage |-> busy, delay |-> d] ELSE Rows[u]]
    BY <2>1, <2>2 DEF Rows
  <2> QED
    BY <2>1, <2>3, <2>4 DEF M!Register
<1>2. ASSUME NEW w \in Workers, NEW busy \in BOOLEAN, NEW d \in Delays, RefreshCpu(w, busy, d)
      PROVE  M!RefreshUsage(w, busy, d)
  <2>1. /\ refreshing = NULL /\ refreshing' = [worker |-> w, delay |-> d] /\ head' = head
        /\ w \in listed /\ UNCHANGED <<listed, next, delay>>
        /\ cpuBusy' = [cpuBusy EXCEPT ![w] = busy]
    BY <1>2 DEF RefreshCpu
  <2>2. Rows' = [Rows EXCEPT ![w] = [@ EXCEPT !.usage = busy]]
    <3>1. cpuBusy'[w] = busy /\ \A u \in listed \ {w} : cpuBusy'[u] = cpuBusy[u]
      BY <2>1 DEF TypeOK
    <3> QED
      BY <2>1, <3>1 DEF Rows
  <2>3. w \in DOMAIN Rows
    BY <2>1 DEF Rows
  <2> QED
    BY <2>1, <2>2, <2>3 DEF M!RefreshUsage
<1>3. ASSUME RefreshDelay PROVE M!RefreshDelay
  <2>1. /\ refreshing # NULL /\ refreshing' = NULL /\ UNCHANGED <<head, listed, next, cpuBusy>>
        /\ delay' = [delay EXCEPT ![refreshing.worker] = refreshing.delay]
    BY <1>3 DEF RefreshDelay
  <2>2. Rows' = [Rows EXCEPT ![refreshing.worker] = [@ EXCEPT !.delay = refreshing.delay]]
    <3>1. \A u \in listed : delay'[u] = IF u = refreshing.worker THEN refreshing.delay ELSE delay[u]
      BY <2>1 DEF TypeOK
    <3> QED
      BY <2>1, <3>1 DEF Rows
  <2> QED
    BY <2>1, <2>2 DEF M!RefreshDelay
<1>4. ASSUME NEW t \in Threads, ThreadStep(t) PROVE UNCHANGED M!vars
  BY <1>4, TableFrame DEF ThreadStep, Start, Visit, CheckTasks, CheckCpu, EndScan, LoadSlots,
                          StoreSlots, Spawn, Send
<1>5. ASSUME NEW r \in Requests, SleeperStep(r) PROVE UNCHANGED M!vars
  BY <1>5, TableFrame DEF SleeperStep, Wake, LoadBack, StoreBack
<1>6. ASSUME NEW t \in Threads, NEW r \in Requests, Begin(t, r) PROVE UNCHANGED M!vars
  BY <1>6, TableFrame DEF Begin
<1>7. ASSUME NEW w \in Workers, GoDown(w) PROVE UNCHANGED M!vars
  BY <1>7, TableFrame DEF GoDown
<1>8. CASE UNCHANGED vars
  BY <1>8, TableFrame DEF vars, tableVars
<1> QED
  BY <1>1, <1>2, <1>3, <1>4, <1>5, <1>6, <1>7, <1>8 DEF Next, Step, M!Next

\* The table from which requests are placed is the list that WorkerPool's handlers are
\* proved to keep: whatever client threads and sleepers do, it changes only as
\* MetadataList allows.
THEOREM TableIsList == Spec => ListSpec
<1>1. Init => M!Init
  BY DEF Init, Rows, M!Init
<1>2. DispatchInv /\ [Next]_vars => [M!Next]_(M!vars)
  BY TableRefines DEF DispatchInv
<1> QED
  BY <1>1, <1>2, DispatchInvariance, PTL DEF Spec, ListSpec, M!Spec
===============================================================================
