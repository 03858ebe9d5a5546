--------------------------------- MODULE Conn ---------------------------------
(***************************************************************************)
(* protocol.Conn: ReadPacket and WritePacket, with the locks, the pieces   *)
(* they move over the socket, and the ways in which either can fail half   *)
(* way.  Readers are goroutines in readLoop: they read packets and write   *)
(* the replies to keep-alives.  Writers call Chat or another method that   *)
(* writes a packet.                                                        *)
(*                                                                         *)
(* A packet goes out as one write for every byte of its length (a net.Conn *)
(* is no io.ByteWriter) and one for its body, and a single net.Conn.Write  *)
(* is not interleaved with others.  What the server can make of the bytes  *)
(* is tracked as they go out: the whole packets, and the one the stream is *)
(* in the middle of.  A packet comes in as a length and a body, which      *)
(* arrives later.                                                          *)
(*                                                                         *)
(* IDs, fields and compression are the subject of Codec; here a packet is  *)
(* a name, and a frame is what ReadPacket makes of it.                     *)
(***************************************************************************)
EXTENDS Naturals, Sequences

CONSTANTS
  Writers,    \* goroutines that only write
  Readers,    \* goroutines in readLoop
  Packets,    \* what Writers write
  Unwritable, \* those without an ID, or that do not encode
  Reply,      \* a keep-alive reply
  None,       \* no packet
  Nobody,     \* holder of a free lock
  Frames,     \* kinds of frames the server sends
  MaxLength,  \* bound: bytes in the length of a packet
  MaxWrites,  \* bound: packets each writer writes
  MaxFrames   \* bound: frames the server sends

Goroutines == Writers \cup Readers
AllPackets == Packets \cup {Reply}

ASSUME ConnAssumption ==
  /\ Writers \cap Readers = {}
  /\ Unwritable \subseteq Packets
  /\ None \notin AllPackets
  /\ Nobody \notin Goroutines
  /\ Frames \subseteq {"keepAlive", "other", "unknown", "undecodable", "empty"}
  /\ MaxLength \in Nat \ {0}
  /\ MaxWrites \in Nat
  /\ MaxFrames \in Nat

VARIABLES
  pc,          \* where each goroutine is
  job,         \* the packet of the WritePacket call it is in
  left,        \* the bytes of that packet's length it has still to write
  returned,    \* what its last WritePacket returned
  writes,      \* how many packets each writer has written
  writerLock,
  readerLock,
  broken,      \* the connection was closed or lost: reads and writes fail
  partial,     \* whose packet the outgoing stream is in the middle of, or Nobody
  due,         \* the bytes of its length that are to come
  mixed,       \* the stream has a byte that is not the next of a packet
  written,     \* the whole packets in it
  sent,        \* the frames the server sent
  arrived,     \* how many of them have arrived in full
  taken,       \* how many ReadPacket has taken off the socket
  inFrame,     \* ReadPacket has taken the length of the next one
  read         \* the frames that it was done with, in that order

writeVars == <<job, left, returned, writes, writerLock, partial, due, mixed, written>>
readVars  == <<readerLock, taken, inFrame, read>>
peerVars  == <<broken, sent, arrived>>
vars      == <<pc, writeVars, readVars, peerVars>>

Goto(g, place) == pc' = [pc EXCEPT ![g] = place]

\* Where a goroutine goes on after WritePacket.
Resume(g) == IF g \in Readers THEN "readLock" ELSE "idle"

-----------------------------------------------------------------------------
(* WritePacket.                                                            *)

Call(g, p) ==
  /\ job' = [job EXCEPT ![g] = p]
  /\ Goto(g, "writeLock")

WriteCall(g) ==
  /\ pc[g] = "idle"
  /\ writes[g] < MaxWrites
  /\ writes' = [writes EXCEPT ![g] = @ + 1]
  /\ \E p \in Packets : Call(g, p)
  /\ UNCHANGED <<left, returned, writerLock, partial, due, mixed, written, readVars, peerVars>>

\* The call returns; the deferred Unlock frees the lock.
WriteReturn(g, value) ==
  /\ returned' = [returned EXCEPT ![g] = value]
  /\ job' = [job EXCEPT ![g] = None]
  /\ writerLock' = Nobody
  /\ Goto(g, Resume(g))

\* A mutant of WriteLock: there is no lock.
WriteLockFree(g) ==
  /\ pc[g] = "writeLock"
  /\ writerLock' = g
  /\ Goto(g, "frame")
  /\ UNCHANGED <<job, left, returned, writes, partial, due, mixed, written, readVars, peerVars>>

WriteLock(g) ==
  /\ pc[g] = "writeLock"
  /\ writerLock = Nobody
  /\ writerLock' = g
  /\ Goto(g, "frame")
  /\ UNCHANGED <<job, left, returned, writes, partial, due, mixed, written, readVars, peerVars>>

\* GetPacketID, Encode and the payload: fails before anything is written, or
\* fixes the length.
WriteFrame(g) ==
  /\ pc[g] = "frame"
  /\ \/ /\ job[g] \in Unwritable
        /\ WriteReturn(g, "error")
        /\ UNCHANGED left
     \/ /\ job[g] \notin Unwritable
        /\ \E n \in 1 .. MaxLength : left' = [left EXCEPT ![g] = n]
        /\ Goto(g, "length")
        /\ UNCHANGED <<job, returned, writerLock>>
  /\ UNCHANGED <<writes, partial, due, mixed, written, readVars, peerVars>>

\* A byte of the length enters the stream: the next one of the packet that the
\* stream is in the middle of, or the first of another.
PutLengthByte(g) ==
  LET next == partial = Nobody \/ (partial = g /\ due = left[g]) IN
  /\ partial' = IF next THEN g ELSE partial
  /\ due' = IF next THEN left[g] - 1 ELSE due
  /\ mixed' = IF next THEN mixed ELSE TRUE

\* A mutant of AfterByte: one byte too many.
AfterByteLate(n) == IF n = 0 THEN "body" ELSE "length"

\* Where WriteVarInt goes on after a byte, of n that were left.
AfterByte(n) == IF n = 1 THEN "body" ELSE "length"

\* WriteVarInt(c.Conn, ...) writes byte by byte and stops at the first error,
\* which WritePacket ignores.
WriteLength(g) ==
  /\ pc[g] = "length"
  /\ \/ /\ broken
        /\ Goto(g, "body")
        /\ UNCHANGED <<left, partial, due, mixed>>
     \/ /\ ~broken
        /\ PutLengthByte(g)
        /\ left' = [left EXCEPT ![g] = @ - 1]
        /\ Goto(g, AfterByte(left[g]))
  /\ UNCHANGED <<job, returned, writes, writerLock, written, readVars, peerVars>>

\* The body enters the stream.
PutBody(g) ==
  LET next == partial = g /\ due = 0 IN
  /\ partial' = IF next THEN Nobody ELSE partial
  /\ UNCHANGED due
  /\ mixed' = IF next THEN mixed ELSE TRUE
  /\ written' = IF next THEN Append(written, job[g]) ELSE written

\* A mutant of WriteBody: its error is ignored, as that of the length.
WriteBodyUnchecked(g) ==
  /\ pc[g] = "body"
  /\ \/ /\ broken
        /\ UNCHANGED <<partial, due, mixed, written>>
     \/ /\ ~broken
        /\ PutBody(g)
  /\ WriteReturn(g, "nil")
  /\ UNCHANGED <<left, writes, readVars, peerVars>>

\* A mutant of WriteBody: the return without Unlock.
WriteBodyKeepsLock(g) ==
  /\ pc[g] = "body"
  /\ ~broken
  /\ PutBody(g)
  /\ returned' = [returned EXCEPT ![g] = "nil"]
  /\ job' = [job EXCEPT ![g] = None]
  /\ Goto(g, Resume(g))
  /\ UNCHANGED <<left, writes, writerLock, readVars, peerVars>>

\* c.Conn.Write(finalPayload.B), whose error is returned.
WriteBody(g) ==
  /\ pc[g] = "body"
  /\ \/ /\ broken
        /\ WriteReturn(g, "error")
        /\ UNCHANGED <<partial, due, mixed, written>>
     \/ /\ ~broken
        /\ PutBody(g)
        /\ WriteReturn(g, "nil")
  /\ UNCHANGED <<left, writes, readVars, peerVars>>

WritePacket(g) == WriteLock(g) \/ WriteFrame(g) \/ WriteLength(g) \/ WriteBody(g)

-----------------------------------------------------------------------------
(* ReadPacket, as readLoop calls it.                                       *)

\* A mutant of ReadLock: there is no lock.
ReadLockFree(g) ==
  /\ pc[g] = "readLock"
  /\ readerLock' = g
  /\ Goto(g, "readLength")
  /\ UNCHANGED <<taken, inFrame, read, writeVars, peerVars>>

ReadLock(g) ==
  /\ pc[g] = "readLock"
  /\ readerLock = Nobody
  /\ readerLock' = g
  /\ Goto(g, "readLength")
  /\ UNCHANGED <<taken, inFrame, read, writeVars, peerVars>>

\* An error from the socket: ReadPacket returns it and readLoop ends.
ReadFails(g) ==
  /\ pc[g] \in {"readLength", "readBody"}
  /\ broken
  /\ readerLock' = Nobody
  /\ Goto(g, "done")
  /\ UNCHANGED <<taken, inFrame, read, writeVars, peerVars>>

\* ReadVarInt(c.Conn).  When the body of a packet could not be read, no later
\* read succeeds.
ReadLength(g) ==
  /\ pc[g] = "readLength"
  /\ taken < Len(sent)
  /\ ~inFrame
  /\ inFrame' = TRUE
  /\ Goto(g, "readBody")
  /\ UNCHANGED <<readerLock, taken, read, writeVars, peerVars>>

\* io.CopyN waits for the body; of a length of zero, or below, there is none.
HasBody(frame) == frame # "empty"

ReadBody(g) ==
  /\ pc[g] = "readBody"
  /\ HasBody(sent[taken + 1]) => taken < arrived
  /\ taken' = taken + 1
  /\ inFrame' = FALSE
  /\ Goto(g, "decode")
  /\ UNCHANGED <<readerLock, read, writeVars, peerVars>>

\* What readLoop does with the result: answers a keep-alive, goes on after
\* another packet and after ErrUnknownPacket, ends after any other error.
AfterDecode(frame) ==
  CASE frame = "keepAlive"            -> "reply"
    [] frame \in {"other", "unknown"} -> "readLock"
    [] OTHER                          -> "done"

\* A mutant of ReadDecode: an unknown packet keeps the lock.
ReadDecodeKeepsLock(g) ==
  LET frame == sent[taken] IN
  /\ pc[g] = "decode"
  /\ read' = Append(read, frame)
  /\ readerLock' = IF frame = "unknown" THEN g ELSE Nobody
  /\ Goto(g, AfterDecode(frame))
  /\ UNCHANGED <<taken, inFrame, writeVars, peerVars>>

\* ReadVarInt of the ID, NewPacket and Decode work on the copy ReadBody made;
\* the deferred Unlock frees the lock.
ReadDecode(g) ==
  LET frame == sent[taken] IN
  /\ pc[g] = "decode"
  /\ read' = Append(read, frame)
  /\ readerLock' = Nobody
  /\ Goto(g, AfterDecode(frame))
  /\ UNCHANGED <<taken, inFrame, writeVars, peerVars>>

ReadPacket(g) ==
  ReadLock(g) \/ ReadFails(g) \/ ReadLength(g) \/ ReadBody(g) \/ ReadDecode(g)

\* handlePacket answers a keep-alive with WritePacket.
HandleKeepAlive(g) ==
  /\ pc[g] = "reply"
  /\ Call(g, Reply)
  /\ UNCHANGED <<left, returned, writes, writerLock, partial, due, mixed, written,
                 readVars, peerVars>>

-----------------------------------------------------------------------------
(* The server and the network.  A frame's length arrives when it is sent,  *)
(* its body some time after.                                               *)

ServerSend ==
  /\ ~broken
  /\ arrived = Len(sent)
  /\ Len(sent) < MaxFrames
  /\ \E f \in Frames :
       /\ sent' = Append(sent, f)
       /\ arrived' = IF HasBody(f) THEN arrived ELSE arrived + 1
  /\ UNCHANGED <<pc, writeVars, readVars, broken>>

BodyArrives ==
  /\ ~broken
  /\ arrived < Len(sent)
  /\ arrived' = arrived + 1
  /\ UNCHANGED <<pc, writeVars, readVars, broken, sent>>

\* Close, or the end of the connection.
Break ==
  /\ ~broken
  /\ broken' = TRUE
  /\ UNCHANGED <<pc, writeVars, readVars, sent, arrived>>

-----------------------------------------------------------------------------
Init ==
  /\ pc = [g \in Goroutines |-> Resume(g)]
  /\ job = [g \in Goroutines |-> None]
  /\ left = [g \in Goroutines |-> 0]
  /\ returned = [g \in Goroutines |-> "nothing"]
  /\ writes = [g \in Writers |-> 0]
  /\ writerLock = Nobody
  /\ readerLock = Nobody
  /\ broken = FALSE
  /\ partial = Nobody
  /\ due = 0
  /\ mixed = FALSE
  /\ written = <<>>
  /\ sent = <<>>
  /\ arrived = 0
  /\ taken = 0
  /\ inFrame = FALSE
  /\ read = <<>>

Next ==
  \/ \E g \in Writers : WriteCall(g)
  \/ \E g \in Goroutines : WritePacket(g)
  \/ \E g \in Readers : ReadPacket(g) \/ HandleKeepAlive(g)
  \/ ServerSend \/ BodyArrives \/ Break

Spec == Init /\ [][Next]_vars

\* Every goroutine runs, and Go's mutexes do not starve a waiter, hence strong
\* fairness.  A write may take long, while the server reads nothing, but not
\* for ever, and a body follows its length.
Fairness ==
  /\ \A g \in Goroutines : SF_vars(WritePacket(g))
  /\ \A g \in Readers : SF_vars(ReadPacket(g)) /\ WF_vars(HandleKeepAlive(g))
  /\ WF_vars(BodyArrives)

FairSpec == Spec /\ Fairness

-----------------------------------------------------------------------------
(* Properties.                                                             *)

Places == {"idle", "writeLock", "frame", "length", "body", "readLock",
           "readLength", "readBody", "decode", "reply", "done"}

\* Every variable keeps its type, and no goroutine is behind the server: what
\* is taken has been sent.
TypeOK ==
  /\ pc \in [Goroutines -> Places]
  /\ job \in [Goroutines -> AllPackets \cup {None}]
  /\ left \in [Goroutines -> 0 .. MaxLength]
  /\ returned \in [Goroutines -> {"nothing", "nil", "error"}]
  /\ writes \in [Writers -> 0 .. MaxWrites]
  /\ writerLock \in Goroutines \cup {Nobody}
  /\ readerLock \in Goroutines \cup {Nobody}
  /\ broken \in BOOLEAN
  /\ partial \in Goroutines \cup {Nobody}
  /\ due \in 0 .. MaxLength
  /\ mixed \in BOOLEAN
  /\ written \in Seq(AllPackets)
  /\ sent \in Seq(Frames)
  /\ arrived \in 0 .. Len(sent)
  /\ taken \in 0 .. Len(sent)
  /\ inFrame \in BOOLEAN
  /\ read \in Seq(Frames)

\* Packets of different goroutines never mix on the wire, although each takes
\* several writes and the result of all but the last is ignored.
NeverMixed == ~mixed

\* Between calls of WritePacket the server is between packets, and between
\* calls of ReadPacket the client is: a call that fails with the connection
\* still up has moved whole packets or nothing.
InStep ==
  ~broken =>
    /\ writerLock = Nobody => partial = Nobody
    /\ readerLock = Nobody => ~inFrame /\ Len(read) = taken

\* The stream a Conn implements.
Stream == INSTANCE PacketStream WITH
            Packets <- AllPackets,
            pending <- job,
            up      <- ~broken

\* ReadPacket and WritePacket look atomic to the goroutines that share the Conn.
ImplementsStream == Stream!Spec

\* WritePacket returns, in a reader as in a writer, as long as the server keeps
\* reading: nobody waits for a lock that is never freed.
WriteReturns == \A g \in Goroutines : job[g] # None ~> job[g] = None

\* Every frame sent is read, unless the connection ends or a frame ends the
\* loops of all readers.
EveryFrameRead ==
  \A n \in 1 .. MaxFrames :
    Len(sent) >= n ~> \/ Len(read) >= n
                      \/ broken
                      \/ \A g \in Readers : pc[g] = "done"

===============================================================================
