------------------------------ MODULE MCDispatch ------------------------------
(* Dispatch with the program's estimates for two machines and two types of  *)
(* request.                                                                  *)
EXTENDS Dispatch, TLC

CONSTANTS w1, w2, r1

E == INSTANCE Estimates

\* The second machine is the faster one; for a synchronisation request a delay of 1 ms
\* makes up for it, for an image it does not.
Machine ==
  [w \in {w1, w2} |-> IF w = w1 THEN [cpu |-> 5, ram |-> 4, gpu |-> 0]
                                ELSE [cpu |-> 8, ram |-> 7, gpu |-> 5]]
Type(r) == IF r = r1 THEN 1 ELSE 4
Table ==
  [r \in Requests, w \in Workers, d \in Delays |->
     E!estimate_time_for_request_type(Type(r), Machine[w], d)]
MCEstimate(r, w, d) == Table[r, w, d]

OneTask == [w \in Workers |-> 1]

\* Threads are alike, and so are the requests of one type.
Alike == Permutations(Threads) \cup Permutations(Requests \ {r1})
===============================================================================
