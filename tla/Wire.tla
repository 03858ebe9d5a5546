-------------------------------- MODULE Wire --------------------------------
(***************************************************************************)
(* What the protocol package makes of values on the wire, and back: the    *)
(* primitive encodings of protocol.go and the framing of packets in        *)
(* ReadPacket and WritePacket.                                             *)
(*                                                                         *)
(* A wire is a sequence of atoms <<kind, value>>.  A byte is an atom, and  *)
(* so is whatever is written and read as one piece: a fixed-size number, a *)
(* UUID, the bytes of a string.  VarInts, booleans and bytes are made of   *)
(* the same byte atoms, so taking one for the other goes as it does in     *)
(* the code; a reader that takes another kind for its own fails.           *)
(*                                                                         *)
(* Integers are scaled down, with the shape kept: a byte carries GroupSize *)
(* values beside the continuation bit (2^7 in the code), an int32 has      *)
(* IntSize values (2^32), and the last byte of a VarInt is only partly     *)
(* used.                                                                   *)
(***************************************************************************)
EXTENDS Integers, Sequences

CONSTANTS
  GroupSize,         \* values in the payload of a VarInt's byte
  IntSize,           \* values of an int32
  MaxVarIntSize,
  MaxPacketDataSize

\* What the payload of a VarInt's byte counts, after i bytes before it.
Shift[i \in 0 .. MaxVarIntSize] == IF i = 0 THEN 1 ELSE GroupSize * Shift[i - 1]

ASSUME WireAssumption ==
  /\ GroupSize \in Nat /\ GroupSize > 1
  /\ MaxVarIntSize \in Nat /\ MaxVarIntSize > 1
  /\ IntSize \in Shift[MaxVarIntSize - 1] + 1 .. Shift[MaxVarIntSize]
  /\ IntSize % 2 = 0
  /\ MaxPacketDataSize \in Nat /\ 2 * MaxPacketDataSize < IntSize

\* int32(x), for an integer x of any width.
Int32(x) == LET u == x % IntSize IN IF 2 * u < IntSize THEN u ELSE u - IntSize

Int32s == 0 - IntSize \div 2 .. IntSize \div 2 - 1

\* A string or a byte slice: some content, and its length.
Text(content, length) == <<content, length>>
Length(text) == text[2]
Empty == Text("", 0)

AtomSize(atom) ==
  CASE atom[1] \in {"byte", "id"}    -> 1
    [] atom[1] = "short"             -> 2
    [] atom[1] = "int"               -> 4
    [] atom[1] = "long"              -> 8
    [] atom[1] = "uuid"              -> 16
    [] OTHER                         -> Length(atom[2])

\* The number of bytes of a wire.
WireSize(wire) ==
  LET size[n \in 0 .. Len(wire)] == IF n = 0 THEN 0 ELSE size[n - 1] + AtomSize(wire[n])
  IN  size[Len(wire)]

When(condition, wire) == IF condition THEN wire ELSE <<>>

-----------------------------------------------------------------------------
(* Writers.                                                                *)

WriteByte(b)   == << <<"byte", b>> >>
WriteBool(x)   == WriteByte(IF x THEN 1 ELSE 0)
WriteUShort(x) == << <<"short", x>> >>
WriteInt(x)    == << <<"int", x>> >>
WriteLong(x)   == << <<"long", x>> >>
WriteUUID(u)   == << <<"uuid", u>> >>

WriteVarInt(value) ==
  LET bytes[uv \in 0 .. IntSize - 1] ==
        IF uv < GroupSize
        THEN WriteByte(uv)
        ELSE WriteByte((uv % GroupSize) + GroupSize) \o bytes[uv \div GroupSize]
  IN  bytes[value % IntSize]

WriteByteSlice(text) ==
  WriteVarInt(Length(text)) \o When(Length(text) > 0, << <<"text", text>> >>)

WriteString(text) == WriteByteSlice(text)

\* What Write writes of each of the values.
Each(Write(_), values) ==
  LET all[n \in 0 .. Len(values)] == IF n = 0 THEN <<>> ELSE all[n - 1] \o Write(values[n])
  IN  all[Len(values)]

-----------------------------------------------------------------------------
(* Readers.  A reader is what is left of a wire and the values taken off   *)
(* it so far; each operator takes one more, and once one has failed, so do *)
(* all that follow.                                                        *)

Reader(wire) == [ok |-> TRUE, rest |-> wire, got |-> <<>>]

Failed(r) == [r EXCEPT !.ok = FALSE]

\* The first n atoms are taken for the value x.
Took(r, n, x) ==
  [ok |-> r.ok, rest |-> SubSeq(r.rest, n + 1, Len(r.rest)), got |-> Append(r.got, x)]

IsNext(r, kind) == r.ok /\ r.rest # <<>> /\ Head(r.rest)[1] = kind

ReadAtom(r, kind) == IF IsNext(r, kind) THEN Took(r, 1, Head(r.rest)[2]) ELSE Failed(r)

ReadByte(r)   == ReadAtom(r, "byte")
ReadUShort(r) == ReadAtom(r, "short")
ReadInt(r)    == ReadAtom(r, "int")
ReadLong(r)   == ReadAtom(r, "long")
ReadUUID(r)   == ReadAtom(r, "uuid")

ReadBool(r) == IF IsNext(r, "byte") THEN Took(r, 1, Head(r.rest)[2] # 0) ELSE Failed(r)

\* Where a VarInt at the start of the wire ends: at the first byte without a
\* continuation bit, if that is among the first MaxVarIntSize.
VarIntEnds(wire) ==
  { n \in 1 .. MaxVarIntSize :
      /\ n <= Len(wire)
      /\ \A i \in 1 .. n : wire[i][1] = "byte"
      /\ \A i \in 1 .. n - 1 : wire[i][2] >= GroupSize
      /\ wire[n][2] < GroupSize }

\* The first n bytes add up in a uint32: what is shifted out is lost.
VarIntValue(wire, n) ==
  LET val[i \in 0 .. n] ==
        IF i = 0 THEN 0
        ELSE (val[i - 1] + (wire[i][2] % GroupSize) * Shift[i - 1]) % IntSize
  IN  Int32(val[n])

\* The VarInt of n bytes is taken.
TookVarInt(r, n) == Took(r, n, VarIntValue(r.rest, n))

ReadVarInt(r) ==
  IF r.ok /\ VarIntEnds(r.rest) # {}
  THEN TookVarInt(r, CHOOSE n \in VarIntEnds(r.rest) : TRUE)
  ELSE Failed(r)

\* The value read last, and a reader without it.
Last(r) == r.got[Len(r.got)]
Drop(r) == [r EXCEPT !.got = SubSeq(r.got, 1, Len(r.got) - 1)]

LengthAllowed(length) == 0 <= length /\ length <= MaxPacketDataSize

\* Of a reader that has taken a length: the bytes, in its place.
BytesAfter(l) ==
  IF ~l.ok \/ ~LengthAllowed(Last(l)) THEN Failed(l)
  ELSE IF Last(l) = 0 THEN Took(Drop(l), 0, Empty)
  ELSE IF IsNext(l, "text") /\ Length(Head(l.rest)[2]) = Last(l) THEN ReadAtom(Drop(l), "text")
  ELSE Failed(l)

ReadBytes(r) == BytesAfter(ReadVarInt(r))

ReadString(r) == ReadBytes(r)

\* uuid.Parse takes the form with dashes, 36 characters; of the one without,
\* 32 characters, ReadStringUUID makes the other.
ParseUUID(s) ==
  IF s.ok /\ Length(Last(s)) \in {32, 36} THEN Took(Drop(s), 0, Last(s)[1]) ELSE Failed(s)

ReadStringUUID(r) == ParseUUID(ReadString(r))

\* io.ReadAll and io.Copy.
ReadRest(r) == IF r.ok THEN Took(r, Len(r.rest), r.rest) ELSE r

\* What Read takes, n times over; it is dropped unless the loop keeps it.
Times(Read(_), n, r) ==
  LET loop[i \in 0 .. n] == IF i = 0 THEN r ELSE Read(loop[i - 1]) IN loop[n]

-----------------------------------------------------------------------------
(* Framing.  The length in front of a frame is the subject of Conn.        *)

\* A mutant of Compresses: a threshold of zero counts as none.
CompressesAboveZero(threshold) == threshold > 0

Compresses(threshold) == threshold >= 0

\* WritePacket: the payload made of a packet's ID and fields.
Payload(threshold, data) ==
  CASE ~Compresses(threshold) -> data
    [] Compresses(threshold) /\ WireSize(data) >= threshold
                              -> WriteVarInt(WireSize(data)) \o << <<"zlib", data>> >>
    [] OTHER                  -> WriteVarInt(0) \o data

\* What follows the data length in a frame, as a compressing peer takes it.
DataAfter(r) ==
  CASE r.ok /\ Last(r) = 0                      -> r.rest
    [] r.ok /\ Last(r) # 0 /\ IsNext(r, "zlib") -> Head(r.rest)[2]
    [] OTHER                                    -> <<>>

\* What the payload holds for a peer that frames by the threshold.
Unframed(threshold, payload) ==
  IF threshold < 0 THEN payload ELSE DataAfter(ReadVarInt(Reader(payload)))

=============================================================================
