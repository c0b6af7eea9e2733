----------------------------- MODULE FileTransfer -----------------------------
(***************************************************************************)
(* socket_utils.c at work in a request of type 1 (image) or 3 (text): the  *)
(* client sends its file, the worker receives it and sends what it got     *)
(* back, the client receives that.  A file is sent in chunks, one message  *)
(* each, and ended by a message with the single byte EOF (0xFF); the       *)
(* receiver takes any message whose last byte is 0xFF for the end.  recv   *)
(* takes one message: sender and receiver use the same buffer size.        *)
(***************************************************************************)
EXTENDS Naturals, Sequences, SequencesExt, FiniteSets, FiniteSetsExt

CONSTANTS
  Bytes,     \* "nl", "nul", "ff" and others
  Files,     \* contents of files
  ChunkSize, \* FILE_BUFFER_SIZE, or MAX_LINE - 1
  Block,     \* what stdio writes to a file at once
  Window     \* messages a connection buffers in each direction

ASSUME FileTransferAssumption ==
  /\ \A f \in Files : f \in Seq(Bytes)
  /\ ChunkSize \in Nat \ {0} /\ Window \in Nat \ {0}
  /\ Block \in 1..ChunkSize

Final == "ff" \* (char) EOF
Kinds == {"image", "text"}
Sides == {"client", "worker"}
Peer(s) == CHOOSE p \in Sides : p # s

VARIABLES
  kind,   \* of the file
  file,   \* content of the client's file
  pc,     \* what each side is doing
  pos,    \* bytes of its file that each side has read
  out,    \* what each side has received
  junk,   \* what a failing recv has added to the side's file
  wire,   \* messages under way to each side
  reset,  \* the sides whose next recv on an empty wire fails
  killed  \* the sides ended from outside

vars == <<kind, file, pc, pos, out, junk, wire, reset, killed>>

Init ==
  /\ kind \in Kinds
  /\ file \in Files
  /\ pc = [client |-> "send", worker |-> "recv"]
  /\ pos = [s \in Sides |-> 0]
  /\ out = [s \in Sides |-> <<>>]
  /\ junk = [s \in Sides |-> <<>>]
  /\ wire = [s \in Sides |-> <<>>]
  /\ reset = {}
  /\ killed = {}

Open(s) == pc[s] \notin {"done", "dead"}

-------------------------------------------------------------------------------
(* Chunks. *)

\* What fread or fgets takes from position p of a file: a full buffer, but fgets
\* stops after a newline.
Chunk(k, f, p) ==
  LET full  == Min({p + ChunkSize, Len(f)})
      lines == {i \in p + 1..full : k = "text" /\ f[i] = "nl"}
  IN  SubSeq(f, p + 1, Min(lines \cup {full}))

\* The text sender sends strlen bytes of it.
Cut(k, chunk) ==
  LET nuls == {i \in 1..Len(chunk) : k = "text" /\ chunk[i] = "nul"}
  IN  IF nuls = {} THEN chunk ELSE SubSeq(chunk, 1, Min(nuls) - 1)

\* What a side has written to its file, and the file it sends: the worker's is
\* what it has written.
Written(s) == out[s] \o junk[s]
Content(s) == IF s = "client" THEN file ELSE Written(s)

-------------------------------------------------------------------------------
(* Sending. *)

\* A send blocks while the buffer is full.  An empty message is refused, and a
\* message to a side that has left is lost; neither is noticed.  A send that fails
\* takes the error that is waiting for recv, or leaves one.
Transmit(s, msg) ==
  LET p == Peer(s) IN
  \/ /\ Open(p) /\ msg # <<>>
     /\ Len(wire[p]) < Window
     /\ wire' = [wire EXCEPT ![p] = Append(@, msg)]
     /\ UNCHANGED reset
  \/ /\ Open(p) /\ msg = <<>>
     /\ UNCHANGED <<wire, reset>>
  \/ /\ ~Open(p)
     /\ reset' \in {reset \ {s}, reset \cup {s}}
     /\ UNCHANGED wire

SendChunk(s) ==
  /\ pc[s] = "send"
  /\ pos[s] < Len(Content(s))
  /\ LET chunk == Chunk(kind, Content(s), pos[s]) IN
       /\ Transmit(s, Cut(kind, chunk))
       /\ pos' = [pos EXCEPT ![s] = @ + Len(chunk)]
  /\ UNCHANGED <<kind, file, pc, out, junk, killed>>

\* Mutant of SendFinal: the byte that ends the file is not sent.
SendNoFinal(s) ==
  /\ pc[s] = "send"
  /\ pos[s] = Len(Content(s))
  /\ pc' = [pc EXCEPT ![s] = IF s = "client" THEN "recv" ELSE "close"]
  /\ UNCHANGED <<kind, file, pos, out, junk, wire, reset, killed>>

\* The empty message at the end of an image is refused like any other.
SendFinal(s) ==
  /\ pc[s] = "send"
  /\ pos[s] = Len(Content(s))
  /\ Transmit(s, <<Final>>)
  /\ pc' = [pc EXCEPT ![s] = IF s = "client" THEN "recv" ELSE "close"]
  /\ UNCHANGED <<kind, file, pos, out, junk, killed>>

-------------------------------------------------------------------------------
(* Leaving.  A connection closed with messages unread is aborted: what is     *)
(* under way to the other side may be lost and its recv fails.                *)

Leave(s, how) ==
  /\ pc' = [pc EXCEPT ![s] = how]
  /\ LET p == Peer(s) IN
       IF wire[s] = <<>>
       THEN UNCHANGED <<wire, reset>>
       ELSE /\ reset' = reset \cup {p}
            /\ \E n \in 0..Len(wire[p]) :
                 wire' = [x \in Sides |-> IF x = p THEN SubSeq(wire[p], 1, n) ELSE <<>>]
  /\ UNCHANGED <<kind, file, pos, out, junk>>

Close(s) ==
  /\ pc[s] = "close"
  /\ Leave(s, "done")
  /\ UNCHANGED killed

\* A send to a side that has left may also raise SIGPIPE, which nothing catches.
BreakPipe(s) ==
  /\ pc[s] = "send"
  /\ ~Open(Peer(s))
  /\ Leave(s, "dead")
  /\ UNCHANGED killed

Kill(s) ==
  /\ Open(s)
  /\ Leave(s, "dead")
  /\ killed' = killed \cup {s}

-------------------------------------------------------------------------------
(* Receiving. *)

Received(s) == pc' = [pc EXCEPT ![s] = IF s = "client" THEN "close" ELSE "send"]

\* Mutant of Recv: the byte that ends the file is written to it.
RecvKeepsFinal(s) ==
  /\ pc[s] = "recv"
  /\ wire[s] # <<>>
  /\ out' = [out EXCEPT ![s] = @ \o Head(wire[s])]
  /\ IF Last(Head(wire[s])) = Final THEN Received(s) ELSE UNCHANGED pc
  /\ wire' = [wire EXCEPT ![s] = Tail(@)]
  /\ UNCHANGED <<kind, file, pos, junk, reset, killed>>

Recv(s) ==
  /\ pc[s] = "recv"
  /\ wire[s] # <<>>
  /\ LET msg == Head(wire[s]) IN
       \/ /\ Last(msg) = Final
          /\ out' = [out EXCEPT ![s] = @ \o Front(msg)]
          /\ Received(s)
       \/ /\ Last(msg) # Final
          /\ out' = [out EXCEPT ![s] = @ \o msg]
          /\ UNCHANGED pc
  /\ wire' = [wire EXCEPT ![s] = Tail(@)]
  /\ UNCHANGED <<kind, file, pos, junk, reset, killed>>

\* Mutant of RecvNothing: what the other side sent before it left is not read.
RecvNothingEarly(s) ==
  /\ pc[s] = "recv"
  /\ ~Open(Peer(s))
  /\ s \notin reset
  /\ Received(s)
  /\ UNCHANGED <<kind, file, pos, out, junk, wire, reset, killed>>

\* The other side has left and all it sent is read: recv returns 0, the end.
RecvNothing(s) ==
  /\ pc[s] = "recv"
  /\ wire[s] = <<>>
  /\ ~Open(Peer(s))
  /\ s \notin reset
  /\ Received(s)
  /\ UNCHANGED <<kind, file, pos, out, junk, wire, reset, killed>>

\* The NULs with which fwrite fills up its block, if it has one.
Padding(s) ==
  {n \in 0..Block : (Len(Written(s)) + n) % Block = 0 /\ (Written(s) = <<>> => n = 0)}

\* recv fails, once, and -1 is taken for a size.  The buffer is all NULs: fwrite
\* fills its block from it before it gives up, fputs finds nothing to write, and
\* both go on.  Should the byte before the buffer be 0xFF, the image is taken for
\* complete, and strncpy runs off the stack.
RecvError(s) ==
  /\ pc[s] = "recv"
  /\ wire[s] = <<>>
  /\ s \in reset
  /\ \/ /\ kind = "image"
        /\ \E n \in Padding(s) :
             junk' = [junk EXCEPT ![s] = @ \o [i \in 1..n |-> "nul"]]
        /\ UNCHANGED pc \/ Received(s)
        /\ reset' = reset \ {s}
        /\ UNCHANGED <<kind, file, pos, out, wire>>
     \/ /\ kind = "text"
        /\ reset' = reset \ {s}
        /\ UNCHANGED <<kind, file, pc, pos, out, junk, wire>>
     \/ /\ kind = "text"
        /\ Leave(s, "dead")
  /\ UNCHANGED killed

Step(s) ==
  \/ SendChunk(s) \/ SendFinal(s) \/ BreakPipe(s)
  \/ Recv(s) \/ RecvNothing(s) \/ RecvError(s) \/ Close(s)

Next == \E s \in Sides : Step(s) \/ Kill(s)

\* Both sides run; nobody has to be killed.
Spec == Init /\ [][Next]_vars /\ \A s \in Sides : WF_vars(Step(s))

-------------------------------------------------------------------------------
(* Properties. *)

\* The positions at which a chunk begins when a file is read from its start: some full
\* chunks after the beginning of their line.  An image is all one line.
EndsLine(k, f, i) == k = "text" /\ f[i] = "nl"
Starts(k, f) ==
  {p \in 0..Len(f) : p < Len(f) /\ \E l, n \in 0..p :
     /\ l = 0 \/ EndsLine(k, f, l)
     /\ \A i \in l + 1..p : ~EndsLine(k, f, i)
     /\ p = l + n * ChunkSize}

\* A file is unfit when a chunk of it ends in 0xFF, or when it is a text with a NUL.
Unfit ==
  \E p \in Starts(kind, file) :
    LET chunk == Chunk(kind, file, p) IN Last(chunk) = Final \/ Cut(kind, chunk) # chunk

C == INSTANCE Copy WITH src <- file, dst <- Written("client"),
                        disturbed <- Unfit \/ killed # {}, over <- ~Open("client")

\* The round trip is a copy: the client gets its own file back, whole and in order,
\* however chunks and processes interleave, unless the file is unfit or a process is
\* killed.  A byte 0xFF inside a chunk does no harm.
CopySpec == C!Spec

\* The safety part of it, step by step.
CopySafety == C!Init /\ [][C!Next]_C!vars

\* What the sender makes of a file: the bytes that its chunks keep, in order.
Kept(k, f) ==
  UNION {p + 1..p + Len(Cut(k, Chunk(k, f, p))) : p \in Starts(k, f)}
Nth(S, n) == CHOOSE i \in S : Cardinality(S \cap 1..i) = n
Carried(k, f) ==
  LET kept == Kept(k, f) IN [n \in 1..Cardinality(kept) |-> f[Nth(kept, n)]]

\* Nothing is doubled or reordered, whatever the file and whoever is killed: what each
\* side has received is a prefix of what the side before it sent.  All that its file can
\* have beside that comes after it: an image whose connection was aborted is filled up
\* with NULs to a whole block.
NothingInvented ==
  /\ IsPrefix(out["worker"], Carried(kind, file))
  /\ IsPrefix(out["client"], Content("worker"))
  /\ \A s \in Sides : junk[s] # <<>> =>
       /\ kind = "image" /\ (Unfit \/ killed # {})
       /\ Len(Written(s)) % Block = 0
       /\ Len(junk[s]) <= Block /\ \A i \in 1..Len(junk[s]) : junk[s][i] = "nul"

\* Each side is blocked in a send that only the other could free by a recv.
CrossedSends == \A s \in Sides : pc[s] = "send" /\ Len(wire[s]) = Window

\* Every transfer ends, for every file and every kill, or else both sides are
\* blocked sending to each other (an unfit file whose end was taken too early).
TransferEnds == <>((\A s \in Sides : ~Open(s)) \/ (CrossedSends /\ Unfit))

-------------------------------------------------------------------------------
(* The inductive invariant. *)

Points == {"send", "recv", "close", "done", "dead"}

\* Type invariant.  What has been sent of a text has no NUL.
Said == {b \in Bytes \cup {Final, "nul"} : kind = "text" => b # "nul"}
TypeOK ==
  /\ kind \in Kinds /\ file \in Files
  /\ pc \in [Sides -> Points]
  /\ pos \in [Sides -> Nat]
  /\ out \in [Sides -> Seq(Said)]
  /\ junk \in [Sides -> Seq({"nul"})]
  /\ wire \in [Sides -> Seq(Seq(Said) \ {<<>>})]
  /\ reset \subseteq Sides /\ killed \subseteq Sides

\* A sender stands between two chunks, and the worker does not send before it has
\* received.
PosOK ==
  /\ pos["client"] \in Starts(kind, file) \cup {Len(file)}
  /\ pos["worker"] <= Len(out["worker"])
  /\ pc["worker"] = "recv" => pos["worker"] = 0 /\ wire["client"] = <<>> /\ out["client"] = <<>>

\* msgs spell out q from a to b, and each ends at one of ends.
Stream(q, ends, a, msgs, b) ==
  \E at \in [0..Len(msgs) -> ends] :
    /\ at[0] = a /\ at[Len(msgs)] = b
    /\ \A i, j \in 0..Len(msgs) : i <= j => at[i] <= at[j]
    /\ \A i \in 1..Len(msgs) : msgs[i] = SubSeq(q, at[i - 1] + 1, at[i])

\* Where a message of q and its final byte may end; if all is calm it ends in 0xFF only
\* at the end.
Ends(q, calm) ==
  {e \in 0..Len(q) + 1 : calm /\ e \in 1..Len(q) => q[e] # Final}

\* Who has got a part of q gets from msgs what follows it, up to one of stops.
Flow(got, msgs, q, calm, stops) ==
  /\ IsPrefix(got, q)
  /\ \E b \in stops \cap Ends(q, calm) :
       Stream(Append(q, Final), Ends(q, calm), Len(got), msgs, b)

\* While p may receive, that is how far its peer, who sends q and has read n bytes of
\* it, has come; if all is calm, to the end once it has sent all.
Receiving(p, at) == at = "recv" \/ (p = "client" /\ at = "send")
HasSent(s, at) == at \in {"close", "done"} \/ (s = "client" /\ at = "recv")
Stops(s, at, q, n, calm) ==
  {b \in 0..Len(q) + 1 : /\ at = "send" => b = n
                         /\ calm /\ HasSent(s, at) => b = Len(q) + 1}
FlowTo(p, q, n, calm) ==
  LET s == Peer(p) IN
  /\ IsPrefix(out[p], q)
  /\ Receiving(p, pc[p]) => Flow(out[p], wire[p], q, calm, Stops(s, pc[s], q, n, calm))

\* The worker's recv does not fail: a client that leaves has had nothing to read yet.
\* The client's fails once, after all that is received, and adds less than a block.
JunkOK ==
  /\ junk["worker"] = <<>>
  /\ pc["worker"] = "recv" => "worker" \notin reset
  /\ "client" \in reset \/ junk["client"] # <<>> => ~Open("worker")
  /\ junk["client"] # <<>> =>
       /\ kind = "image" /\ wire["client"] = <<>>
       /\ pc["client"] # "send" /\ "client" \notin reset
       /\ Len(Written("client")) % Block = 0 /\ Len(junk["client"]) <= Block

\* Whatever happens, the worker gets what the client's chunks keep, and the client
\* what the worker got.
FlowOK ==
  /\ FlowTo("worker", Carried(kind, file), Cardinality(Kept(kind, file) \cap 1..pos["client"]), FALSE)
  /\ FlowTo("client", out["worker"], pos["worker"], FALSE)

\* A fit file that nobody disturbs passes whole: no connection is aborted, and who has
\* received has all and leaves nothing unread.
Calm == ~Unfit /\ killed = {}
CalmOK ==
  Calm =>
    /\ reset = {} /\ junk["client"] = <<>> /\ \A s \in Sides : pc[s] # "dead"
    /\ FlowTo("worker", file, pos["client"], TRUE)
    /\ FlowTo("client", out["worker"], pos["worker"], TRUE)
    /\ pos["worker"] \in Starts(kind, file) \cup {Len(file)}
    /\ IF pc["worker"] = "recv"
       THEN pc["client"] \in {"send", "recv"}
       ELSE out["worker"] = file /\ wire["worker"] = <<>> /\ pc["client"] # "send"
    /\ pc["client"] \in {"close", "done"} =>
         out["client"] = file /\ wire["client"] = <<>> /\ pc["worker"] \in {"close", "done"}

TransferInv == TypeOK /\ PosOK /\ JunkOK /\ FlowOK /\ CalmOK
===============================================================================
