--------------------------------- MODULE Lists ---------------------------------
(***************************************************************************)
(* Singly linked lists: link is the next field of every node there is,     *)
(* first the node a list starts with, and end the value that is no node.   *)
(* Reachability is stated by closed sets rather than by walking, so that   *)
(* facts about it need no induction.                                       *)
(***************************************************************************)

\* S holds what can be met from first on.
ClosedUnder(S, first, link, end) ==
  first \in S \cup {end} /\ \A u \in S : link[u] \in S \cup {end}

\* The nodes met by following the list from first: the least closed set.
OnList(first, link, end) ==
  LET closed == {S \in SUBSET DOMAIN link : ClosedUnder(S, first, link, end)}
  IN  {u \in DOMAIN link : \A S \in closed : u \in S}

\* Whoever follows the list comes to its end: there is no set of nodes of it that
\* one never leaves.
ComesToEnd(first, link, end) ==
  \A S \in SUBSET OnList(first, link, end) : S # {} => \E u \in S : link[u] \notin S
===============================================================================
