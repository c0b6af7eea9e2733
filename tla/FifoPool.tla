------------------------------- MODULE FifoPool -------------------------------
(***************************************************************************)
(* What an accept loop and its thread pool promise together: a connection  *)
(* that was accepted waits in one queue, is taken by exactly one thread, in *)
(* the order of arrival, and is given back when its handler returns, if it *)
(* does.  No semaphore, no mutex and no pointer appear here; ClientPool    *)
(* shows that the code of the master keeps this promise.                   *)
(***************************************************************************)
EXTENDS Naturals, Sequences

CONSTANTS Conns,    \* the connections (socket descriptors) accept() can return
          Threads,  \* the threads of the pool
          NULL      \* no connection

VARIABLES queue,    \* accepted connections no thread has taken, oldest first
          holding   \* the connection each thread is handling, or NULL

vars == <<queue, holding>>

Waiting == {queue[i] : i \in 1..Len(queue)}
Held    == {holding[t] : t \in Threads} \ {NULL}

Init ==
  /\ queue = <<>>
  /\ holding = [t \in Threads |-> NULL]

\* A descriptor the kernel hands out is not open: neither queued nor held.
Enqueue(c) ==
  /\ c \notin Waiting \cup Held
  /\ queue' = Append(queue, c)
  /\ UNCHANGED holding

Take(t) ==
  /\ holding[t] = NULL
  /\ queue # <<>>
  /\ holding' = [holding EXCEPT ![t] = Head(queue)]
  /\ queue' = Tail(queue)

Release(t) ==
  /\ holding[t] # NULL
  /\ holding' = [holding EXCEPT ![t] = NULL]
  /\ UNCHANGED queue

Next ==
  \/ \E c \in Conns : Enqueue(c)
  \/ \E t \in Threads : Take(t) \/ Release(t)

\* Nothing promises that a handler returns, so nothing is said of Release.
Spec ==
  /\ Init
  /\ [][Next]_vars
  /\ WF_vars(\E t \in Threads : Take(t))
===============================================================================
