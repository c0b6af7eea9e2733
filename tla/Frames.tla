-------------------------------- MODULE Frames --------------------------------
(***************************************************************************)
(* The way of a client's address and port to the worker that will call it  *)
(* back: a line of 24 bytes to the master, a frame of 26 bytes to the       *)
(* worker.  Of each text only its length matters, of each field how many   *)
(* of its characters are left.                                             *)
(***************************************************************************)
EXTENDS Naturals, FiniteSets, FiniteSetsExt

AtMost(n, m) == Min({n, m})
Minus(n, m) == IF n > m THEN n - m ELSE 0

\* "%d-%d-%s": a type of one digit, the port, the address.
TypeAndPort(port) == 1 + 1 + port
LineLength(port, ip) == TypeAndPort(port) + 1 + ip

\* The master reads 24 bytes and puts a terminator in the last.
LineBytes == 24
MasterText(port, ip) == AtMost(LineLength(port, ip), LineBytes - 1)
MasterIp(port, ip) == AtMost(ip, Minus(MasterText(port, ip), TypeAndPort(port) + 1))

\* Mutant of FrameBytes: one byte short.
FrameBytesShort == 25
FrameBytes == 26

\* The master sends the head of "ip | line"; the worker puts a terminator in the
\* last byte.
WorkerText(port, ip) ==
  AtMost(MasterIp(port, ip) + 3 + MasterText(port, ip), FrameBytes - 1)
WorkerPort(port, ip) ==
  AtMost(port, Minus(WorkerText(port, ip), MasterIp(port, ip) + 3 + 2))

\* What malloc(15) leaves room for (glibc, 64 bits).
Block == 24
===============================================================================
