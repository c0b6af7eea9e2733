---------------------------- MODULE MCFileTransfer ----------------------------
(* FileTransfer on all files of up to four bytes of every sort, and on files   *)
(* of four chunks, long enough for both directions to fill up.                 *)
EXTENDS FileTransfer

MCBytes == {"a", "nl", "nul", "ff"}
MCFiles == SeqOf(MCBytes, 4) \cup [1..8 -> {"a", "ff"}]
===============================================================================
