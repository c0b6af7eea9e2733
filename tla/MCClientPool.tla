----------------------------- MODULE MCClientPool -----------------------------
(* ClientPool, its constants given by the .cfg files.                        *)
EXTENDS ClientPool
===============================================================================
