------------------------------ MODULE ConnProofs ------------------------------
(***************************************************************************)
(* Proofs about Conn, for any number of goroutines, packets and frames.    *)
(*                                                                         *)
(* The argument: a goroutine is inside WritePacket's critical section      *)
(* exactly while it holds writerLock, so the stream is in the middle of a  *)
(* packet only if that is the holder's, and has as many bytes of its       *)
(* length left as the holder has to write.  ReadPacket likewise.           *)
(***************************************************************************)
EXTENDS Conn, TLAPS

Writing == {"frame", "length", "body"}
Reading == {"readLength", "readBody", "decode"}

\* The locks are held where the code holds them.
Locks ==
  \A g \in Goroutines :
    /\ pc[g] \in Writing <=> writerLock = g
    /\ pc[g] \in Reading <=> readerLock = g

\* A goroutine has a packet to write from the call to the return.
Jobs ==
  \A g \in Goroutines :
    /\ job[g] # None <=> pc[g] \in Writing \cup {"writeLock"}
    /\ pc[g] \in {"length", "body"} => job[g] \notin Unwritable
    /\ pc[g] = "length" => left[g] # 0

\* What the outgoing stream is in the middle of.
Outgoing ==
  /\ ~mixed
  /\ ~broken =>
       /\ writerLock = Nobody => partial = Nobody
       /\ \A g \in Goroutines :
            /\ pc[g] = "frame" => partial = Nobody
            /\ pc[g] = "length" => partial = Nobody \/ (partial = g /\ due = left[g])
            /\ pc[g] = "body" => partial = g /\ due = 0

\* How far ReadPacket is with the incoming stream.
Incoming ==
  /\ arrived \in 0 .. Len(sent)
  /\ taken \in 0 .. Len(sent)
  /\ inFrame => taken < Len(sent) /\ (broken \/ readerLock # Nobody)
  /\ readerLock = Nobody => Len(read) = taken
  /\ \A g \in Goroutines :
       /\ pc[g] = "readLength" => Len(read) = taken /\ (inFrame => broken)
       /\ pc[g] = "readBody" => Len(read) = taken /\ inFrame
       /\ pc[g] = "decode" => Len(read) + 1 = taken /\ ~inFrame

ConnInv == TypeOK /\ Locks /\ Jobs /\ Outgoing /\ Incoming

-----------------------------------------------------------------------------
(* The invariant.                                                          *)

LEMMA InitConn == Init => ConnInv
<1> SUFFICES ASSUME Init PROVE ConnInv
  OBVIOUS
<1> USE ConnAssumption DEF Init, Resume, Goroutines, AllPackets
<1>0. Len(<<>>) = 0 /\ <<>> \in Seq(AllPackets) /\ <<>> \in Seq(Frames)
  OBVIOUS
<1>1. TypeOK
  <2>1. pc \in [Goroutines -> Places]
    BY DEF Places
  <2>2. job \in [Goroutines -> AllPackets \cup {None}]
    OBVIOUS
  <2>3. left \in [Goroutines -> 0 .. MaxLength]
    OBVIOUS
  <2>4. returned \in [Goroutines -> {"nothing", "nil", "error"}]
    OBVIOUS
  <2>5. writes \in [Writers -> 0 .. MaxWrites]
    OBVIOUS
  <2>6. broken \in BOOLEAN /\ mixed \in BOOLEAN /\ inFrame \in BOOLEAN
    OBVIOUS
  <2>7. written \in Seq(AllPackets) /\ sent \in Seq(Frames) /\ read \in Seq(Frames)
    BY <1>0
  <2>8. due \in 0 .. MaxLength /\ arrived \in 0 .. Len(sent) /\ taken \in 0 .. Len(sent)
    BY <1>0
  <2>. QED
    BY <2>1, <2>2, <2>3, <2>4, <2>5, <2>6, <2>7, <2>8 DEF TypeOK
<1>2. Locks
  BY DEF Locks, Writing, Reading
<1>3. Jobs
  BY DEF Jobs, Writing
<1>4. Outgoing
  BY DEF Outgoing
<1>5. Incoming
  <2>1. arrived = 0 /\ taken = 0 /\ Len(sent) = 0 /\ Len(read) = 0 /\ ~inFrame
    BY <1>0
  <2>2. \A g \in Goroutines : pc[g] \in {"idle", "readLock"}
    OBVIOUS
  <2> HIDE DEF Init, Resume
  <2>. QED
    BY <2>1, <2>2 DEF Incoming
<1>. QED
  BY <1>1, <1>2, <1>3, <1>4, <1>5 DEF ConnInv

\* WritePacket returns an error, before it wrote or once the connection is gone.
LEMMA ErrorReturn ==
  ASSUME ConnInv, NEW g \in Goroutines,
         pc[g] = "frame" \/ (pc[g] = "body" /\ broken),
         WriteReturn(g, "error"),
         UNCHANGED <<left, writes, partial, due, mixed, written, readVars, peerVars>>
  PROVE  ConnInv'
<1> USE ConnAssumption DEF ConnInv, Writing, Reading, Goroutines, AllPackets, Goto,
            writeVars, readVars, peerVars
<1>1. writerLock = g /\ Resume(g) \in {"idle", "readLock"}
  BY DEF TypeOK, Locks, Resume
<1>2. /\ pc' = [pc EXCEPT ![g] = Resume(g)]
      /\ job' = [job EXCEPT ![g] = None]
      /\ returned' = [returned EXCEPT ![g] = "error"]
      /\ writerLock' = Nobody
  BY DEF WriteReturn
<1>3. TypeOK'
  BY <1>1, <1>2 DEF TypeOK, Places
<1>4. Locks'
  BY <1>1, <1>2 DEF TypeOK, Locks
<1>5. Jobs'
  BY <1>1, <1>2 DEF TypeOK, Jobs
<1>6. Outgoing'
  BY <1>1, <1>2 DEF TypeOK, Locks, Outgoing
<1>7. Incoming'
  BY <1>1, <1>2 DEF TypeOK, Incoming
<1>. QED
  BY <1>3, <1>4, <1>5, <1>6, <1>7

\* The steps of WritePacket.
LEMMA WriteStep ==
  ASSUME ConnInv, NEW g \in Goroutines, WriteLock(g) \/ WriteFrame(g) \/ WriteLength(g) \/ WriteBody(g)
  PROVE  ConnInv'
<1> USE ConnAssumption DEF ConnInv, Writing, Reading, Goroutines, AllPackets, Goto,
            writeVars, readVars, peerVars
<1>1. CASE WriteLock(g)
  <2>1. TypeOK'
    BY <1>1 DEF TypeOK, Places, WriteLock
  <2>2. Locks'
    BY <1>1 DEF TypeOK, Locks, WriteLock
  <2>3. Jobs'
    BY <1>1 DEF TypeOK, Locks, Jobs, WriteLock
  <2>4. Outgoing'
    BY <1>1 DEF TypeOK, Locks, Jobs, Outgoing, WriteLock
  <2>5. Incoming'
    BY <1>1 DEF TypeOK, Locks, Incoming, WriteLock
  <2>. QED
    BY <2>1, <2>2, <2>3, <2>4, <2>5
<1>2. CASE WriteFrame(g)
  <2>1. CASE job[g] \in Unwritable
    BY <1>2, <2>1, ErrorReturn DEF WriteFrame
  <2>2. CASE job[g] \notin Unwritable
    <3>0. PICK n \in 1 .. MaxLength :
            /\ left' = [left EXCEPT ![g] = n]
            /\ pc' = [pc EXCEPT ![g] = "length"]
            /\ UNCHANGED <<job, returned, writes, writerLock, partial, due, mixed,
                           written, readVars, peerVars>>
      BY <1>2, <2>2 DEF WriteFrame
    <3>1. TypeOK'
      <4>1. n \in 0 .. MaxLength
        OBVIOUS
      <4>2. left' \in [Goroutines -> 0 .. MaxLength]
        BY <3>0, <4>1 DEF TypeOK
      <4>3. pc' \in [Goroutines -> Places]
        BY <3>0 DEF TypeOK, Places
      <4>. QED
        BY <3>0, <4>2, <4>3 DEF TypeOK
    <3>2. Locks'
      BY <1>2, <2>2, <3>0 DEF TypeOK, Locks, WriteFrame
    <3>3. Jobs'
      BY <1>2, <2>2, <3>0 DEF TypeOK, Locks, Jobs, WriteFrame
    <3>4. Outgoing'
      BY <1>2, <2>2, <3>0 DEF TypeOK, Locks, Jobs, Outgoing, WriteFrame
    <3>5. Incoming'
      BY <1>2, <3>0 DEF TypeOK, Locks, Incoming, WriteFrame
    <3>. QED
      BY <3>1, <3>2, <3>3, <3>4, <3>5
  <2>. QED
    BY <2>1, <2>2
<1>3. CASE WriteLength(g)
  <2>1. CASE broken
    <3>1. TypeOK'
      BY <1>3, <2>1 DEF TypeOK, Places, WriteLength, PutLengthByte, AfterByte
    <3>2. Locks'
      BY <1>3, <2>1 DEF TypeOK, Locks, WriteLength, PutLengthByte, AfterByte
    <3>3. Jobs'
      BY <1>3, <2>1 DEF TypeOK, Locks, Jobs, WriteLength, PutLengthByte, AfterByte
    <3>4. Outgoing'
      BY <1>3, <2>1 DEF TypeOK, Locks, Jobs, Outgoing, WriteLength, PutLengthByte, AfterByte
    <3>5. Incoming'
      BY <1>3, <2>1 DEF TypeOK, Locks, Incoming, WriteLength, PutLengthByte, AfterByte
    <3>. QED
      BY <3>1, <3>2, <3>3, <3>4, <3>5
  <2>2. CASE ~broken
    <3>1. /\ pc[g] = "length" /\ writerLock = g
          /\ left[g] \in 1 .. MaxLength
          /\ partial = Nobody \/ (partial = g /\ due = left[g])
      BY <1>3, <2>2 DEF WriteLength, TypeOK, Locks, Jobs, Outgoing
    <3>2. /\ left' = [left EXCEPT ![g] = left[g] - 1]
          /\ partial' = g /\ due' = left[g] - 1 /\ mixed' = mixed
          /\ pc' = [pc EXCEPT ![g] = IF left[g] = 1 THEN "body" ELSE "length"]
          /\ UNCHANGED <<job, returned, writes, writerLock, written, readVars, peerVars>>
      BY <1>3, <2>2, <3>1 DEF WriteLength, PutLengthByte, AfterByte
    <3>3. left[g] - 1 \in 0 .. MaxLength
      BY <3>1
    <3>4. TypeOK'
      BY <3>2, <3>3 DEF TypeOK, Places
    <3>5. Locks'
      BY <3>1, <3>2 DEF TypeOK, Locks
    <3>6. Jobs'
      BY <3>1, <3>2 DEF TypeOK, Jobs
    <3>7. Outgoing'
      BY <3>1, <3>2 DEF TypeOK, Locks, Outgoing
    <3>8. Incoming'
      BY <3>1, <3>2 DEF TypeOK, Incoming
    <3>. QED
      BY <3>4, <3>5, <3>6, <3>7, <3>8
  <2>. QED
    BY <2>1, <2>2
<1>4. CASE WriteBody(g)
  <2>1. CASE broken
    BY <1>4, <2>1, ErrorReturn DEF WriteBody
  <2>2. CASE ~broken
    <3>1. /\ pc[g] = "body" /\ writerLock = g
          /\ partial = g /\ due = 0
          /\ job[g] \in AllPackets
      BY <1>4, <2>2 DEF WriteBody, TypeOK, Locks, Jobs, Outgoing
    <3>2. /\ partial' = Nobody /\ due' = due /\ mixed' = mixed
          /\ written' = Append(written, job[g])
          /\ returned' = [returned EXCEPT ![g] = "nil"]
          /\ job' = [job EXCEPT ![g] = None]
          /\ writerLock' = Nobody
          /\ pc' = [pc EXCEPT ![g] = Resume(g)]
          /\ UNCHANGED <<left, writes, readVars, peerVars>>
      BY <1>4, <2>2, <3>1 DEF WriteBody, PutBody, WriteReturn
    <3>3. Resume(g) \in {"idle", "readLock"}
      BY DEF Resume
    <3>4. TypeOK'
      BY <3>1, <3>2, <3>3 DEF TypeOK, Places
    <3>5. Locks'
      BY <3>1, <3>2, <3>3 DEF TypeOK, Locks
    <3>6. Jobs'
      BY <3>1, <3>2, <3>3 DEF TypeOK, Jobs
    <3>7. Outgoing'
      BY <3>1, <3>2, <3>3 DEF TypeOK, Locks, Outgoing
    <3>8. Incoming'
      BY <3>1, <3>2, <3>3 DEF TypeOK, Incoming
    <3>. QED
      BY <3>4, <3>5, <3>6, <3>7, <3>8
  <2>. QED
    BY <2>1, <2>2
<1>. QED
  BY <1>1, <1>2, <1>3, <1>4

\* A call of WritePacket, by a writer.
LEMMA CallStep ==
  ASSUME ConnInv, NEW g \in Writers, WriteCall(g)
  PROVE  ConnInv'
<1> USE ConnAssumption DEF ConnInv, Writing, Reading, Goroutines, AllPackets, Goto,
            writeVars, readVars, peerVars
<1>1. CASE WriteCall(g)
  <2>1. TypeOK'
    <3>1. PICK p \in Packets : Call(g, p)
      BY <1>1 DEF WriteCall
    <3>2. writes[g] \in 0 .. MaxWrites /\ writes[g] < MaxWrites
      BY <1>1 DEF WriteCall, TypeOK
    <3>3. writes' \in [Writers -> 0 .. MaxWrites]
      <4>1. writes[g] + 1 \in 0 .. MaxWrites
        BY <3>2
      <4>. QED
        BY <1>1, <4>1 DEF WriteCall, TypeOK
    <3>4. job' \in [Goroutines -> AllPackets \cup {None}]
      BY <3>1 DEF TypeOK, Call
    <3>5. pc' \in [Goroutines -> Places]
      BY <3>1 DEF TypeOK, Call, Places
    <3>. QED
      BY <1>1, <3>3, <3>4, <3>5 DEF TypeOK, WriteCall
  <2>2. Locks'
    BY <1>1 DEF TypeOK, Locks, WriteCall, Call
  <2>3. Jobs'
    BY <1>1 DEF TypeOK, Locks, Jobs, WriteCall, Call
  <2>4. Outgoing'
    BY <1>1 DEF TypeOK, Locks, Jobs, Outgoing, WriteCall, Call
  <2>5. Incoming'
    BY <1>1 DEF TypeOK, Locks, Incoming, WriteCall, Call
  <2>. QED
    BY <2>1, <2>2, <2>3, <2>4, <2>5
<1>. QED
  BY <1>1

\* The steps of ReadPacket, and the reply to a keep-alive.
LEMMA ReadStep ==
  ASSUME ConnInv, NEW g \in Readers, ReadLock(g) \/ ReadFails(g) \/ ReadLength(g) \/ ReadBody(g) \/ ReadDecode(g) \/ HandleKeepAlive(g)
  PROVE  ConnInv'
<1> USE ConnAssumption DEF ConnInv, Writing, Reading, Goroutines, AllPackets, Goto,
            writeVars, readVars, peerVars
<1>1. CASE ReadLock(g)
  <2>1. TypeOK'
    BY <1>1 DEF TypeOK, Places, ReadLock
  <2>2. Locks'
    BY <1>1 DEF TypeOK, Locks, ReadLock
  <2>3. Jobs'
    BY <1>1 DEF TypeOK, Locks, Jobs, ReadLock
  <2>4. Outgoing'
    BY <1>1 DEF TypeOK, Locks, Jobs, Outgoing, ReadLock
  <2>5. Incoming'
    BY <1>1 DEF TypeOK, Locks, Incoming, ReadLock
  <2>. QED
    BY <2>1, <2>2, <2>3, <2>4, <2>5
<1>2. CASE ReadFails(g)
  <2>1. TypeOK'
    BY <1>2 DEF TypeOK, Places, ReadFails
  <2>2. Locks'
    BY <1>2 DEF TypeOK, Locks, ReadFails
  <2>3. Jobs'
    BY <1>2 DEF TypeOK, Locks, Jobs, ReadFails
  <2>4. Outgoing'
    BY <1>2 DEF TypeOK, Locks, Jobs, Outgoing, ReadFails
  <2>5. Incoming'
    BY <1>2 DEF TypeOK, Locks, Incoming, ReadFails
  <2>. QED
    BY <2>1, <2>2, <2>3, <2>4, <2>5
<1>3. CASE ReadLength(g)
  <2>1. TypeOK'
    BY <1>3 DEF TypeOK, Places, ReadLength
  <2>2. Locks'
    BY <1>3 DEF TypeOK, Locks, ReadLength
  <2>3. Jobs'
    BY <1>3 DEF TypeOK, Locks, Jobs, ReadLength
  <2>4. Outgoing'
    BY <1>3 DEF TypeOK, Locks, Jobs, Outgoing, ReadLength
  <2>5. Incoming'
    BY <1>3 DEF TypeOK, Locks, Incoming, ReadLength
  <2>. QED
    BY <2>1, <2>2, <2>3, <2>4, <2>5
<1>4. CASE ReadBody(g)
  <2>1. TypeOK'
    <3>1. taken \in 0 .. Len(sent) /\ taken < Len(sent)
      BY <1>4 DEF Incoming, ReadBody
    <3>2. taken + 1 \in 0 .. Len(sent)
      BY <3>1 DEF TypeOK
    <3>3. taken' \in 0 .. Len(sent') /\ arrived' \in 0 .. Len(sent')
      BY <1>4, <3>2 DEF TypeOK, ReadBody
    <3>4. pc' \in [Goroutines -> Places]
      BY <1>4 DEF TypeOK, Places, ReadBody
    <3>. QED
      BY <1>4, <3>3, <3>4 DEF TypeOK, ReadBody
  <2>2. Locks'
    BY <1>4 DEF TypeOK, Locks, ReadBody, HasBody
  <2>3. Jobs'
    BY <1>4 DEF TypeOK, Locks, Jobs, ReadBody, HasBody
  <2>4. Outgoing'
    BY <1>4 DEF TypeOK, Locks, Jobs, Outgoing, ReadBody, HasBody
  <2>5. Incoming'
    BY <1>4 DEF TypeOK, Locks, Incoming, ReadBody, HasBody
  <2>. QED
    BY <2>1, <2>2, <2>3, <2>4, <2>5
<1>5. CASE ReadDecode(g)
  <2>1. TypeOK'
    <3>1. taken \in 1 .. Len(sent) /\ read \in Seq(Frames) /\ sent \in Seq(Frames)
      BY <1>5 DEF TypeOK, Incoming, ReadDecode
    <3>2. sent[taken] \in Frames /\ Append(read, sent[taken]) \in Seq(Frames)
      BY <3>1
    <3>3. AfterDecode(sent[taken]) \in Places
      BY DEF AfterDecode, Places
    <3>. QED
      BY <1>5, <3>2, <3>3 DEF TypeOK, ReadDecode
  <2>2. Locks'
    BY <1>5 DEF TypeOK, Locks, ReadDecode, AfterDecode
  <2>3. Jobs'
    BY <1>5 DEF TypeOK, Locks, Jobs, ReadDecode, AfterDecode
  <2>4. Outgoing'
    BY <1>5 DEF TypeOK, Locks, Jobs, Outgoing, ReadDecode, AfterDecode
  <2>5. Incoming'
    BY <1>5 DEF TypeOK, Locks, Incoming, ReadDecode, AfterDecode
  <2>. QED
    BY <2>1, <2>2, <2>3, <2>4, <2>5
<1>6. CASE HandleKeepAlive(g)
  <2>1. TypeOK'
    BY <1>6 DEF TypeOK, Places, HandleKeepAlive, Call
  <2>2. Locks'
    BY <1>6 DEF TypeOK, Locks, HandleKeepAlive, Call
  <2>3. Jobs'
    BY <1>6 DEF TypeOK, Locks, Jobs, HandleKeepAlive, Call
  <2>4. Outgoing'
    BY <1>6 DEF TypeOK, Locks, Jobs, Outgoing, HandleKeepAlive, Call
  <2>5. Incoming'
    BY <1>6 DEF TypeOK, Locks, Incoming, HandleKeepAlive, Call
  <2>. QED
    BY <2>1, <2>2, <2>3, <2>4, <2>5
<1>. QED
  BY <1>1, <1>2, <1>3, <1>4, <1>5, <1>6

\* What the server and the network do.
LEMMA PeerStep ==
  ASSUME ConnInv, ServerSend \/ BodyArrives \/ Break
  PROVE  ConnInv'
<1> USE ConnAssumption DEF ConnInv, Writing, Reading, Goroutines, AllPackets, Goto,
            writeVars, readVars, peerVars
<1>1. CASE ServerSend
  <2>1. PICK f \in Frames :
          /\ sent' = Append(sent, f)
          /\ arrived' = IF HasBody(f) THEN arrived ELSE arrived + 1
    BY <1>1 DEF ServerSend
  <2>2. sent' \in Seq(Frames) /\ Len(sent') = Len(sent) + 1 /\ Len(sent) \in Nat
    BY <2>1 DEF TypeOK
  <2>3. arrived' \in 0 .. Len(sent') /\ taken \in 0 .. Len(sent')
    BY <2>1, <2>2 DEF TypeOK
  <2>4. UNCHANGED <<pc, writeVars, readVars, broken>>
    BY <1>1 DEF ServerSend
  <2>5. TypeOK'
    BY <2>2, <2>3, <2>4 DEF TypeOK
  <2>6. Locks' /\ Jobs' /\ Outgoing'
    BY <2>4 DEF Locks, Jobs, Outgoing
  <2>7. Incoming'
    BY <2>2, <2>3, <2>4 DEF TypeOK, Incoming
  <2>. QED
    BY <2>5, <2>6, <2>7
<1>2. CASE BodyArrives
  <2>1. arrived + 1 \in 0 .. Len(sent)
    BY <1>2 DEF BodyArrives, TypeOK
  <2>2. arrived' \in 0 .. Len(sent') /\ taken' \in 0 .. Len(sent')
    BY <1>2, <2>1 DEF BodyArrives, TypeOK
  <2>3. UNCHANGED <<pc, writeVars, readVars, broken, sent>>
    BY <1>2 DEF BodyArrives
  <2>4. TypeOK'
    BY <2>2, <2>3 DEF TypeOK
  <2>5. Locks' /\ Jobs' /\ Outgoing'
    BY <2>3 DEF Locks, Jobs, Outgoing
  <2>6. Incoming'
    BY <2>2, <2>3 DEF Incoming
  <2>. QED
    BY <2>4, <2>5, <2>6
<1>3. CASE Break
  <2>1. TypeOK'
    BY <1>3 DEF TypeOK, Places, Break
  <2>2. Locks'
    BY <1>3 DEF TypeOK, Locks, Break
  <2>3. Jobs'
    BY <1>3 DEF TypeOK, Locks, Jobs, Break
  <2>4. Outgoing'
    BY <1>3 DEF TypeOK, Locks, Jobs, Outgoing, Break
  <2>5. Incoming'
    BY <1>3 DEF TypeOK, Locks, Incoming, Break
  <2>. QED
    BY <2>1, <2>2, <2>3, <2>4, <2>5
<1>. QED
  BY <1>1, <1>2, <1>3

LEMMA NextConn == ConnInv /\ [Next]_vars => ConnInv'
<1> SUFFICES ASSUME ConnInv, [Next]_vars
             PROVE  ConnInv'
  OBVIOUS
<1>1. CASE \E g \in Writers : WriteCall(g)
  BY <1>1, CallStep
<1>2. CASE \E g \in Goroutines : WritePacket(g)
  BY <1>2, WriteStep DEF WritePacket
<1>3. CASE \E g \in Readers : ReadPacket(g) \/ HandleKeepAlive(g)
  BY <1>3, ReadStep DEF ReadPacket
<1>4. CASE ServerSend \/ BodyArrives \/ Break
  BY <1>4, PeerStep
<1>5. CASE UNCHANGED vars
  BY <1>5 DEF vars, writeVars, readVars, peerVars, ConnInv, TypeOK, Locks, Jobs,
              Outgoing, Incoming
<1>. QED
  BY <1>1, <1>2, <1>3, <1>4, <1>5 DEF Next

\* The invariant of the run conn holds for every set of goroutines, packets and
\* frames and every length: ReadPacket and WritePacket hold their locks from the
\* first byte they move to the last.
THEOREM ConnInvariant == Spec => []ConnInv
<1>1. Init => ConnInv
  BY InitConn
<1>2. ConnInv /\ [Next]_vars => ConnInv'
  BY NextConn
<1>. QED
  BY <1>1, <1>2, PTL DEF Spec

\* Every variable of a Conn keeps its type; what ReadPacket has taken off the
\* socket never exceeds what the server sent.
THEOREM ConnTypeCorrect == Spec => []TypeOK
<1>1. ConnInv => TypeOK
  BY DEF ConnInv
<1>. QED
  BY <1>1, ConnInvariant, PTL

\* Packets of different goroutines never mix on the wire: WritePacket's lock
\* covers the length and the body.
THEOREM FramesNeverMix == Spec => []NeverMixed
<1>1. ConnInv => NeverMixed
  BY DEF ConnInv, Outgoing, NeverMixed
<1>. QED
  BY <1>1, ConnInvariant, PTL

\* Both ends stay in step over the calls of ReadPacket and WritePacket, those
\* that fail with the connection still up included.
THEOREM StaysInStep == Spec => []InStep
<1>1. ConnInv => InStep
  BY DEF ConnInv, Outgoing, Incoming, InStep
<1>. QED
  BY <1>1, ConnInvariant, PTL

-----------------------------------------------------------------------------
(* The refinement: what a step of Conn is to the stream.                   *)

LEMMA InitStream == Init => Stream!Init
BY DEF Init, Stream!Init

LEMMA WriteStream ==
  ASSUME ConnInv, NEW g \in Goroutines, WritePacket(g)
  PROVE  Stream!Next \/ UNCHANGED Stream!vars
<1> USE DEF Goto, readVars, peerVars, Stream!vars
<1>1. CASE WriteLock(g)
  BY <1>1 DEF WriteLock
<1>2. CASE WriteFrame(g)
  <2>1. CASE job[g] \in Unwritable
    <3>1. job[g] # None
      BY <1>2 DEF WriteFrame, ConnInv, Jobs, Writing
    <3>2. Stream!Refuse(g)
      BY <1>2, <2>1, <3>1 DEF WriteFrame, WriteReturn, Stream!Refuse, Stream!Return
    <3>. QED
      BY <3>2 DEF Stream!Next
  <2>2. CASE job[g] \notin Unwritable
    BY <1>2, <2>2 DEF WriteFrame
  <2>. QED
    BY <2>1, <2>2
<1>3. CASE WriteLength(g)
  BY <1>3 DEF WriteLength
<1>4. CASE WriteBody(g)
  <2>1. job[g] # None /\ job[g] \notin Unwritable
    BY <1>4 DEF WriteBody, ConnInv, Jobs, Writing
  <2>2. CASE broken
    <3>1. Stream!Refuse(g)
      BY <1>4, <2>1, <2>2 DEF WriteBody, WriteReturn, Stream!Refuse, Stream!Return
    <3>. QED
      BY <3>1 DEF Stream!Next
  <2>3. CASE ~broken
    <3>1. partial = g /\ due = 0
      BY <1>4, <2>3 DEF WriteBody, ConnInv, Outgoing
    <3>2. Stream!Commit(g)
      BY <1>4, <2>1, <2>3, <3>1
         DEF WriteBody, PutBody, WriteReturn, Stream!Commit, Stream!Return
    <3>. QED
      BY <3>2 DEF Stream!Next
  <2>. QED
    BY <2>2, <2>3
<1>. QED
  BY <1>1, <1>2, <1>3, <1>4 DEF WritePacket

\* A call of WritePacket starts with no other of that goroutine in progress.
LEMMA CallStream ==
  ASSUME ConnInv, NEW g \in Goroutines, NEW p \in AllPackets,
         pc[g] \in {"idle", "reply"}, Call(g, p),
         UNCHANGED <<returned, written, readVars, peerVars>>
  PROVE  Stream!Next
<1>1. job[g] = None
  BY DEF ConnInv, Jobs, Writing
<1>2. Stream!Call(g)
  BY <1>1 DEF Call, Stream!Call, readVars, peerVars
<1>. QED
  BY <1>2 DEF Stream!Next

LEMMA ReadStream ==
  ASSUME ConnInv, NEW g \in Readers, ReadPacket(g)
  PROVE  Stream!Next \/ UNCHANGED Stream!vars
<1> USE DEF Goto, writeVars, peerVars, Stream!vars
<1>1. CASE ReadLock(g) \/ ReadFails(g) \/ ReadLength(g) \/ ReadBody(g)
  BY <1>1 DEF ReadLock, ReadFails, ReadLength, ReadBody
<1>2. CASE ReadDecode(g)
  <2>1. Len(read) + 1 = taken /\ taken \in 0 .. Len(sent)
    BY <1>2 DEF ReadDecode, ConnInv, Incoming, Goroutines
  <2>2. Len(read) < Len(sent)
    BY <2>1 DEF ConnInv, TypeOK
  <2>3. read' = Append(read, sent[Len(read) + 1])
    BY <1>2, <2>1 DEF ReadDecode
  <2>4. UNCHANGED <<job, returned, written, sent, broken>>
    BY <1>2 DEF ReadDecode
  <2>5. Stream!Read
    BY <2>2, <2>3, <2>4 DEF Stream!Read
  <2>. QED
    BY <2>5 DEF Stream!Next
<1>. QED
  BY <1>1, <1>2 DEF ReadPacket

LEMMA PeerStream ==
  ASSUME ServerSend \/ BodyArrives \/ Break
  PROVE  Stream!Next \/ UNCHANGED Stream!vars
<1> USE DEF writeVars, readVars, Stream!vars
<1>1. CASE ServerSend
  <2>1. Stream!Send
    BY <1>1 DEF ServerSend, Stream!Send
  <2>. QED
    BY <2>1 DEF Stream!Next
<1>2. CASE BodyArrives
  BY <1>2 DEF BodyArrives
<1>3. CASE Break
  <2>1. Stream!Break
    BY <1>3 DEF Break, Stream!Break
  <2>. QED
    BY <2>1 DEF Stream!Next
<1>. QED
  BY <1>1, <1>2, <1>3

LEMMA NextStream == ConnInv /\ [Next]_vars => [Stream!Next]_(Stream!vars)
<1> SUFFICES ASSUME ConnInv, [Next]_vars
             PROVE  Stream!Next \/ UNCHANGED Stream!vars
  OBVIOUS
<1>1. CASE \E g \in Writers : WriteCall(g)
  <2>1. PICK g \in Writers : WriteCall(g)
    BY <1>1
  <2>2. PICK p \in Packets : Call(g, p)
    BY <2>1 DEF WriteCall
  <2>. QED
    BY <2>1, <2>2, CallStream DEF WriteCall, Goroutines, AllPackets
<1>2. CASE \E g \in Goroutines : WritePacket(g)
  BY <1>2, WriteStream
<1>3. CASE \E g \in Readers : ReadPacket(g)
  BY <1>3, ReadStream
<1>4. CASE \E g \in Readers : HandleKeepAlive(g)
  BY <1>4, CallStream DEF HandleKeepAlive, Goroutines, AllPackets
<1>5. CASE ServerSend \/ BodyArrives \/ Break
  BY <1>5, PeerStream
<1>6. CASE UNCHANGED vars
  BY <1>6 DEF vars, writeVars, readVars, peerVars, Stream!vars
<1>. QED
  BY <1>1, <1>2, <1>3, <1>4, <1>5, <1>6 DEF Next

\* ReadPacket and WritePacket look atomic: every step of a Conn is a step of the
\* packet stream or leaves it alone, for every set of goroutines and packets.
THEOREM StreamImplemented == Spec => ImplementsStream
<1>1. Init => Stream!Init
  BY InitStream
<1>2. ConnInv /\ [Next]_vars => [Stream!Next]_(Stream!vars)
  BY NextStream
<1>. QED
  BY <1>1, <1>2, ConnInvariant, PTL DEF Spec, ImplementsStream, Stream!Spec

===============================================================================
