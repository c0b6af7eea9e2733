----------------------------- MODULE MetadataList -----------------------------
(***************************************************************************)
(* What add_to_list promises select_worker, which reads the list without   *)
(* worker_pool_mutex: updates come one after the other, a node appears in  *)
(* front of all others with every field set, a known node's fields are     *)
(* stored one by one, and nothing else is ever written.  Here a node that  *)
(* is not yet published does not exist, and no thread and no mutex appears. *)
(***************************************************************************)
CONSTANTS Nodes,   \* the uuids that may get a node
          Usages,  \* what cpu_usage may be set to
          Delays,  \* what network_delay may be set to
          NULL

VARIABLES head,       \* metadata_head
          row,        \* the fields of each node on the list
          refreshing  \* the update whose second store is still to come, or NULL

vars == <<head, row, refreshing>>

Init ==
  /\ head = NULL
  /\ row = [w \in {} |-> NULL]
  /\ refreshing = NULL

Register(w, busy, d) ==
  /\ refreshing = NULL /\ refreshing' = NULL
  /\ head' = w
  /\ w \notin DOMAIN row
  /\ row' = [u \in DOMAIN row \cup {w} |->
               IF u = w THEN [next |-> head, usage |-> busy, delay |-> d] ELSE row[u]]

RefreshUsage(w, busy, d) ==
  /\ refreshing = NULL /\ refreshing' = [worker |-> w, delay |-> d]
  /\ head' = head
  /\ w \in DOMAIN row
  /\ row' = [row EXCEPT ![w] = [@ EXCEPT !.usage = busy]]

RefreshDelay ==
  /\ refreshing # NULL /\ refreshing' = NULL
  /\ head' = head
  /\ row' = [row EXCEPT ![refreshing.worker] = [@ EXCEPT !.delay = refreshing.delay]]

Next ==
  \/ \E w \in Nodes, busy \in Usages, d \in Delays :
       Register(w, busy, d) \/ RefreshUsage(w, busy, d)
  \/ RefreshDelay

Spec == Init /\ [][Next]_vars
===============================================================================
