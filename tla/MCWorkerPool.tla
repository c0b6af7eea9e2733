----------------------------- MODULE MCWorkerPool -----------------------------
(* WorkerPool, its constants given by the .cfg files.                        *)
EXTENDS WorkerPool
===============================================================================
