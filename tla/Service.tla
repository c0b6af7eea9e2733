------------------------------- MODULE Service --------------------------------
(***************************************************************************)
(* What the middleware promises of each request.  It relies on one or two  *)
(* processes at a time: its client always; from the moment it is asked,    *)
(* the master, until a worker has it, and then that worker.  It is lost at *)
(* once when one of these ends, or when it is given to a worker that has   *)
(* ended, and for no other reason; otherwise it is answered.               *)
(***************************************************************************)
CONSTANTS Requests, Owner, Master, Workers, NULL

VARIABLES
  fate,   \* of each request: "idle", "open", "answered" or "lost"
  server, \* the worker it was given to, or NULL
  host,   \* the process each worker runs in
  down    \* the processes that have ended

vars == <<fate, server, host, down>>

Init ==
  /\ fate = [r \in Requests |-> "idle"]
  /\ server = [r \in Requests |-> NULL]
  /\ host \in [Workers -> Workers \cup {Master}]
  /\ down = {}

Relies(r, p) ==
  \/ p = Owner[r]
  \/ fate[r] = "open" /\ server[r] = NULL /\ p = Master
  \/ fate[r] = "open" /\ server[r] # NULL /\ p = host[server[r]]

Ask(r) ==
  /\ fate[r] = "idle"
  /\ {Owner[r], Master} \cap down = {}
  /\ fate' = [fate EXCEPT ![r] = "open"]
  /\ UNCHANGED <<server, host, down>>

Assign(r, w) ==
  /\ fate[r] \in {"open", "lost"} /\ server[r] = NULL
  /\ Master \notin down
  /\ server' = [server EXCEPT ![r] = w]
  /\ fate' = [fate EXCEPT ![r] = IF host[w] \in down THEN "lost" ELSE @]
  /\ UNCHANGED <<host, down>>

Answer(r) ==
  /\ fate[r] = "open" /\ server[r] # NULL
  /\ fate' = [fate EXCEPT ![r] = "answered"]
  /\ UNCHANGED <<server, host, down>>

End(p) ==
  /\ down' = down \cup {p}
  /\ fate' = [r \in Requests |-> IF fate[r] # "answered" /\ Relies(r, p) THEN "lost" ELSE fate[r]]
  /\ UNCHANGED <<server, host>>

Next ==
  \/ \E r \in Requests : Ask(r) \/ Answer(r) \/ \E w \in Workers : Assign(r, w)
  \/ \E p \in {Owner[r] : r \in Requests} \cup Workers \cup {Master} : End(p)

Spec == Init /\ [][Next]_vars
===============================================================================
