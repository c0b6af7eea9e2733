------------------------------ MODULE MCTaskPool ------------------------------
(* TaskPool, its constants given by the .cfg files.                          *)
EXTENDS TaskPool
===============================================================================
