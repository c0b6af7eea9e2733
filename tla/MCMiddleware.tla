----------------------------- MODULE MCMiddleware -----------------------------
(* Middleware with a client process of two requests and one of a single one.   *)
EXTENDS Middleware, TLC

CONSTANTS r1, r2, r3, c1, c2

MCOwner == (r1 :> c1) @@ (r2 :> c1) @@ (r3 :> c2)
===============================================================================
