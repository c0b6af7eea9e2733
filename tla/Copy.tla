--------------------------------- MODULE Copy ---------------------------------
(***************************************************************************)
(* What the transfer of a file promises: the destination is at all times a *)
(* prefix of the source, and the whole source when the transfer is over.   *)
(* A disturbed transfer promises nothing; one may be disturbed from the    *)
(* start, by its file, or later, by the loss of a party.                   *)
(***************************************************************************)
EXTENDS Sequences, SequencesExt

CONSTANT Files

VARIABLES src, dst, disturbed, over

vars == <<src, dst, disturbed, over>>

Init ==
  /\ src \in Files
  /\ dst = <<>>
  /\ disturbed \in BOOLEAN
  /\ over = FALSE

Deliver ==
  /\ ~over
  /\ IsPrefix(dst, dst')
  /\ disturbed \/ IsPrefix(dst', src)
  /\ UNCHANGED <<src, disturbed, over>>

Finish ==
  /\ ~over
  /\ disturbed \/ dst = src
  /\ over' = TRUE
  /\ UNCHANGED <<src, dst, disturbed>>

\* A party is lost; the transfer may end with it.
Disturb ==
  /\ disturbed' = TRUE
  /\ over => over'
  /\ UNCHANGED <<src, dst>>

Next == Deliver \/ Finish \/ Disturb

Spec == Init /\ [][Next]_vars /\ <>(over \/ disturbed)
===============================================================================
