------------------------------ MODULE ListsProofs ------------------------------
(***************************************************************************)
(* What a list's nodes are, from one step to the next, and what inserting  *)
(* at its head does to them.                                               *)
(***************************************************************************)
EXTENDS Lists, Naturals, TLAPS

\* The list's nodes are closed, and they are the least such set.
LEMMA OnListClosed ==
  ASSUME NEW D, NEW end, end \notin D, NEW link \in [D -> D \cup {end}],
         NEW first \in D \cup {end}
  PROVE  /\ OnList(first, link, end) \subseteq D
         /\ ClosedUnder(OnList(first, link, end), first, link, end)
BY DEF OnList, ClosedUnder

LEMMA OnListLeast ==
  ASSUME NEW D, NEW end, NEW link \in [D -> D \cup {end}], NEW first,
         NEW S \in SUBSET D, ClosedUnder(S, first, link, end)
  PROVE  OnList(first, link, end) \subseteq S
BY DEF OnList

LEMMA OnListEnd ==
  ASSUME NEW D, NEW end, NEW link \in [D -> D \cup {end}]
  PROVE  OnList(end, link, end) = {}
<1>1. ClosedUnder({}, end, link, end)
  BY DEF ClosedUnder
<1> QED
  BY <1>1, OnListLeast

\* A list is its first node and the list from there on.
LEMMA OnListStep ==
  ASSUME NEW D, NEW end, end \notin D, NEW link \in [D -> D \cup {end}], NEW first \in D
  PROVE  OnList(first, link, end) = {first} \cup OnList(link[first], link, end)
<1> DEFINE All  == OnList(first, link, end)
           Rest == OnList(link[first], link, end)
<1>1. All \subseteq D /\ ClosedUnder(All, first, link, end)
  BY OnListClosed
<1>2. Rest \subseteq D /\ ClosedUnder(Rest, link[first], link, end)
  BY OnListClosed
<1>3. All \subseteq {first} \cup Rest
  <2>1. ClosedUnder({first} \cup Rest, first, link, end)
    BY <1>2 DEF ClosedUnder
  <2> QED
    BY <1>2, <2>1, OnListLeast
<1>4. first \in All /\ Rest \subseteq All
  <2>1. first \in All
    BY <1>1 DEF ClosedUnder
  <2>2. ClosedUnder(All, link[first], link, end)
    BY <1>1, <2>1 DEF ClosedUnder
  <2> QED
    BY <1>1, <2>1, <2>2, OnListLeast
<1> QED
  BY <1>3, <1>4

\* Who is on a list, and that it ends, depends on its own links only.
LEMMA OnListFrame ==
  ASSUME NEW D, NEW end, end \notin D,
         NEW link \in [D -> D \cup {end}], NEW other \in [D -> D \cup {end}],
         NEW first \in D \cup {end},
         \A u \in OnList(first, link, end) : other[u] = link[u]
  PROVE  /\ OnList(first, other, end) = OnList(first, link, end)
         /\ ComesToEnd(first, link, end) => ComesToEnd(first, other, end)
<1>1. OnList(first, other, end) \subseteq OnList(first, link, end)
  <2>1. ClosedUnder(OnList(first, link, end), first, other, end)
    BY OnListClosed DEF ClosedUnder
  <2> QED
    BY <2>1, OnListClosed, OnListLeast
<1>2. OnList(first, link, end) \subseteq OnList(first, other, end)
  <2>1. /\ OnList(first, other, end) \subseteq D
        /\ ClosedUnder(OnList(first, other, end), first, other, end)
    BY OnListClosed
  <2>2. ClosedUnder(OnList(first, other, end), first, link, end)
    BY <1>1, <2>1 DEF ClosedUnder
  <2> QED
    BY <2>1, <2>2, OnListLeast
<1>3. OnList(first, other, end) = OnList(first, link, end)
  BY <1>1, <1>2
<1> QED
  BY <1>3 DEF ComesToEnd

\* Inserting a node at the head adds it and nothing else, and the list still ends.
LEMMA OnListPush ==
  ASSUME NEW D, NEW end, end \notin D, NEW link \in [D -> D \cup {end}],
         NEW first \in D \cup {end},
         NEW u \in D, u \notin OnList(first, link, end), link[u] = first
  PROVE  /\ OnList(u, link, end) = {u} \cup OnList(first, link, end)
         /\ ComesToEnd(first, link, end) => ComesToEnd(u, link, end)
<1> DEFINE Old == OnList(first, link, end)
<1>1. OnList(u, link, end) = {u} \cup Old
  BY OnListStep
<1>2. ASSUME ComesToEnd(first, link, end), NEW S \in SUBSET ({u} \cup Old), S # {}
      PROVE  \E v \in S : link[v] \notin S
  <2>1. Old \subseteq D /\ ClosedUnder(Old, first, link, end)
    BY OnListClosed
  <2>2. CASE S \cap Old = {}
    BY <1>2, <2>1, <2>2 DEF ClosedUnder
  <2>3. CASE S \cap Old # {}
    <3>1. PICK v \in S \cap Old : link[v] \notin S \cap Old
      BY <1>2, <2>3 DEF ComesToEnd
    <3>2. link[v] \in Old \cup {end}
      BY <2>1, <3>1 DEF ClosedUnder
    <3>3. link[v] \notin S
      BY <2>1, <3>1, <3>2
    <3> QED
      BY <3>1, <3>3
  <2> QED
    BY <2>2, <2>3
<1> QED
  BY <1>1, <1>2 DEF ComesToEnd

\* ComesToEnd means what its name says: every walk along a list that comes to its end
\* reaches it.
THEOREM WalksEnd ==
  ASSUME NEW D, NEW end, end \notin D, NEW link \in [D -> D \cup {end}],
         NEW first \in D \cup {end}, ComesToEnd(first, link, end),
         NEW walk \in [Nat -> D \cup {end}], walk[0] = first,
         \A n \in Nat : walk[n] # end => walk[n + 1] = link[walk[n]]
  PROVE  \E n \in Nat : walk[n] = end
<1>1. SUFFICES ASSUME \A n \in Nat : walk[n] # end
               PROVE  FALSE
  OBVIOUS
<1> DEFINE All == OnList(first, link, end)
           Met == {u \in All : \E n \in Nat : walk[n] = u}
<1>2. ClosedUnder(All, first, link, end)
  BY OnListClosed
<1>3. first \in Met
  BY <1>1, <1>2 DEF ClosedUnder
<1>4. ASSUME NEW u \in Met PROVE link[u] \in Met
  <2>1. PICK n \in Nat : walk[n] = u
    OBVIOUS
  <2>2. walk[n + 1] = link[u] /\ n + 1 \in Nat /\ walk[n + 1] # end
    BY <1>1, <2>1
  <2>3. link[u] \in All
    BY <1>2, <2>2 DEF ClosedUnder
  <2> QED
    BY <2>2, <2>3
<1> QED
  BY <1>3, <1>4 DEF ComesToEnd
===============================================================================
