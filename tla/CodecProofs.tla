---------------------------- MODULE CodecProofs ----------------------------
(***************************************************************************)
(* Proofs about Codec, for every set of versions, IDs, thresholds, UUIDs   *)
(* and keys, and every size of an int32 and of the longest text.           *)
(*                                                                         *)
(* The argument has three parts.                                           *)
(*                                                                         *)
(* Packets: what Encode writes of a packet the server sends, Decode takes  *)
(* value by value (Carried), and no packet of either side has so many      *)
(* bytes that its length would not go through a VarInt (RequestSmall and   *)
(* the lemmas of the client's packets), so its frame is found again        *)
(* (WiredFrame).  Loops have as many rounds as the packets' lists.         *)
(*                                                                         *)
(* Steps: CodecInv says what is on the way and who knows what meanwhile.   *)
(* A packet is decoded for the version, the state and the threshold it was *)
(* written for (Underway); SetCompression changes the threshold of one     *)
(* side before the other (Agreed).  CodecAlways proves it inductive.       *)
(*                                                                         *)
(* Alternatives: two packets of a type are written piece by piece; pieces  *)
(* that are alike, or part at a byte, make packets that are alike or part  *)
(* at a byte (ApartCat), and a client packet's optional value is there by  *)
(* the version or by a byte in front of it (Distinguished).                *)
(***************************************************************************)
EXTENDS Codec, WireProofs

\* The number of bytes no packet has more of.
Limit == MaxPacketDataSize + 9 * MaxVarIntSize + 64

\* What the constants have to allow: the longest packet is far from overflowing an int.
LEMMA Limits ==
  /\ MaxPacketDataSize \in Nat /\ MaxPacketDataSize >= 36
  /\ MaxVarIntSize \in Nat
  /\ Limit \in Nat /\ Limit < IntSize /\ IntSize \in Nat
<1>1. MaxPacketDataSize + 9 * MaxVarIntSize + 64 < IntSize /\ MaxPacketDataSize >= 36
  BY CodecAssumption
<1>2. MaxPacketDataSize \in Nat /\ MaxVarIntSize \in Nat /\ IntSize \in Nat
  BY WireAssumption, Sizes
<1> QED BY <1>1, <1>2 DEF Limit

-----------------------------------------------------------------------------
(* Wires, one after the other.                                             *)

\* Concatenation by a name of its own, so that it is expanded only where a fact
\* about it is needed.
Cat(s, t) == s \o t

\* Where the writers' pieces are cut makes no difference.
LEMMA CatAssociated ==
  \A s, t, u : IsSeq(s) /\ IsSeq(t) /\ IsSeq(u) => Cat(Cat(s, t), u) = Cat(s, Cat(t, u))
BY Associated DEF Cat

\* Two wires, one after the other, are a wire.
LEMMA CatIsSeq == \A s, t : IsSeq(s) /\ IsSeq(t) => IsSeq(Cat(s, t))
BY JoinedSeq DEF Cat

\* The pieces of what is written, from the first to the last.
LEMMA FourParts ==
  \A a, b, c, t : IsSeq(a) /\ IsSeq(b) /\ IsSeq(c) /\ IsSeq(t) =>
    Cat(Cat(Cat(a, b), c), t) = Cat(a, Cat(b, Cat(c, t)))
BY CatAssociated, CatIsSeq

\* Their sizes add up.
LEMMA CatMeasured ==
  \A s, t : Measured(s) /\ Measured(t) => Measured(Cat(s, t)) /\ WireSize(Cat(s, t)) = WireSize(s) + WireSize(t)
BY Measure DEF Cat

-----------------------------------------------------------------------------
(* Texts and lists of them.                                                *)

\* A text ReadString takes.
Readable(text) ==
  /\ Length(text) \in 0 .. MaxPacketDataSize
  /\ Length(text) = 0 => text = Empty

\* The texts of the model can be read, the longest included.
LEMMA Texts ==
  /\ Length(Empty) = 0 /\ Length(Short) = 1 /\ Length(Name) = 4 /\ Length(Brand) = 15
  /\ Length(Long) = MaxPacketDataSize
  /\ Readable(Empty) /\ Readable(Short) /\ Readable(Name) /\ Readable(Brand) /\ Readable(Long)
<1>1. Length(Empty) = 0
  BY DEF Length, Empty, Text
<1>2. Length(Short) = 1
  BY DEF Length, Short, Text
<1>3. Length(Name) = 4
  BY DEF Length, Name, Text
<1>4. Length(Brand) = 15
  BY DEF Length, Brand, Text
<1>5. Length(Long) = MaxPacketDataSize
  BY DEF Length, Long, Text
<1> QED BY <1>1, <1>2, <1>3, <1>4, <1>5, Limits DEF Readable

\* A string in front of a wire is read as it was written, and leaves the wire.
LEMMA StringAt ==
  \A text, t, g : Readable(text) /\ IsSeq(t) /\ IsSeq(g) =>
    ReadString(At(Cat(WriteString(text), t), g)) = At(t, Append(g, text))
<1> SUFFICES ASSUME NEW text, NEW t, NEW g, Readable(text), IsSeq(t), IsSeq(g)
             PROVE  ReadString(At(Cat(WriteString(text), t), g)) = At(t, Append(g, text))
  OBVIOUS
<1> QED BY TextAt DEF Readable, Cat

\* So is an atom of any kind.
LEMMA AtomCat ==
  \A kind, x, t, g : IsSeq(t) => ReadAtom(At(Cat(<< <<kind, x>> >>, t), g), kind) = At(t, Append(g, x))
BY AtomAt DEF Cat

\* So is a boolean.
LEMMA BoolCat ==
  \A x \in BOOLEAN : \A t, g : IsSeq(t) => ReadBool(At(Cat(WriteBool(x), t), g)) = At(t, Append(g, x))
BY BoolAt DEF Cat

\* So is a VarInt, as an int32.
LEMMA VarIntCat ==
  \A x \in Int : \A t, g : IsSeq(t) => ReadVarInt(At(Cat(WriteVarInt(x), t), g)) = At(t, Append(g, Int32(x)))
BY VarIntAt DEF Cat

\* What WriteString writes is a wire with a size.
LEMMA StringIsSeq ==
  \A text : Readable(text) => IsSeq(WriteString(text)) /\ Measured(WriteString(text))
<1> SUFFICES ASSUME NEW text, Readable(text)
             PROVE  IsSeq(WriteString(text)) /\ Measured(WriteString(text))
  OBVIOUS
<1>1. Length(text) \in Nat
  BY DEF Readable
<1>2. Measured(WriteString(text))
  BY <1>1, MeasureString
<1> QED BY <1>2, WireIsSeq DEF Measured

\* What is left of a wire once it has been read.
End == <<>>

\* The end of the wire in front of it or behind it adds nothing.
LEMMA AtEnd == IsSeq(End) /\ \A t : IsSeq(t) => Cat(t, End) = t /\ Cat(End, t) = t
BY IsSeqEmpty, EmptyFirst DEF End, Cat

\* A string at the end of a wire is read as it was written.
LEMMA LastString ==
  \A text, g : Readable(text) /\ IsSeq(g) =>
    ReadString(At(WriteString(text), g)) = At(End, Append(g, text))
BY StringIsSeq, StringAt, AtEnd

\* So is an atom.
LEMMA LastAtom ==
  \A kind, x, g : ReadAtom(At(<< <<kind, x>> >>, g), kind) = At(End, Append(g, x))
<1> TAKE kind, x, g
<1> DEFINE a == << <<kind, x>> >>
<1>1. IsSeq(a)
  BY OneOfSeq DEF IsSeq
<1>2. ReadAtom(At(Cat(a, End), g), kind) = At(End, Append(g, x))
  BY AtomCat, AtEnd
<1> HIDE DEF a
<1>3. Cat(a, End) = a
  BY <1>1, AtEnd
<1> QED BY <1>2, <1>3 DEF a

\* So is a VarInt.
LEMMA LastVarInt ==
  \A x \in Int : \A g : ReadVarInt(At(WriteVarInt(x), g)) = At(End, Append(g, Int32(x)))
<1> SUFFICES ASSUME NEW x \in Int, NEW g
             PROVE  ReadVarInt(At(WriteVarInt(x), g)) = At(End, Append(g, Int32(x)))
  OBVIOUS
<1>1. IsSeq(WriteVarInt(x))
  BY MeasureVarInt, WireIsSeq DEF Measured
<1> QED BY <1>1, VarIntCat, AtEnd

\* A count in front of a list is read as it was written.
LEMMA Counted == Int32(0) = 0 /\ Int32(1) = 1 /\ Int32(2) = 2
<1> DEFINE h == IntSize \div 2
<1>1. h \in Nat /\ IntSize = 2 * h /\ h >= 3
  BY Limits, WireAssumption DEF Limit
<1>2. 0 \in Int32s /\ 1 \in Int32s /\ 2 \in Int32s
  <2>1. Int32s = 0 - h .. h - 1
    BY DEF Int32s
  <2> HIDE DEF h
  <2> QED BY <1>1, <2>1
<1> QED BY <1>2, Int32Identity

\* Two values, taken one after the other, are a pair.
LEMMA TwoFields == \A x, y : Append(<<x>>, y) = <<x, y>>
<1> TAKE x, y
<1> DEFINE S == {x, y}
           s == <<x>>
           a == Append(s, y)
           t == <<x, y>>
<1>1. s \in Seq(S) /\ Len(s) = 1 /\ s[1] = x
  OBVIOUS
<1>10. s \in Seq(S)
  OBVIOUS
<1>2. t \in Seq(S) /\ Len(t) = 2 /\ t[1] = x /\ t[2] = y
  OBVIOUS
<1> HIDE DEF s, t
<1>3. y \in S
  OBVIOUS
<1> HIDE DEF S
<1>4. a \in Seq(S) /\ Len(a) = Len(s) + 1 /\ a[Len(s) + 1] = y /\ \A i \in 1 .. Len(s) : a[i] = s[i]
  BY <1>10, <1>3, AppendProperties
<1> HIDE DEF a
<1>5. Len(a) = 2 /\ a[1] = x /\ a[2] = y
  BY <1>1, <1>4
<1>6. a = t
  BY <1>2, <1>4, <1>5, SeqEqual
<1> QED BY <1>6 DEF a, s, t

\* Values taken one by one are the fields of a packet.
LEMMA Fields ==
  \A x, y : /\ Append(Untaken, x) = <<x>>
            /\ Append(Append(Untaken, x), y) = <<x, y>>
<1> TAKE x, y
<1>1. Append(Untaken, x) = <<x>>
  BY DEF Untaken
<1> QED BY Zenon, <1>1, TwoFields

\* Three values are a triple.
LEMMA ThreeFields == \A x, y, z : Append(Append(Append(Untaken, x), y), z) = <<x, y, z>>
<1> TAKE x, y, z
<1> DEFINE S == {x, y, z}
           s == <<x, y>>
           a == Append(s, z)
           t == <<x, y, z>>
<1>1. s \in Seq(S) /\ Len(s) = 2 /\ s[1] = x /\ s[2] = y
  OBVIOUS
<1>10. s \in Seq(S)
  OBVIOUS
<1>2. t \in Seq(S) /\ Len(t) = 3 /\ t[1] = x /\ t[2] = y /\ t[3] = z
  OBVIOUS
<1> HIDE DEF s, t
<1>3. z \in S
  OBVIOUS
<1> HIDE DEF S
<1>4. a \in Seq(S) /\ Len(a) = Len(s) + 1 /\ a[Len(s) + 1] = z /\ \A i \in 1 .. Len(s) : a[i] = s[i]
  BY <1>10, <1>3, AppendProperties
<1> HIDE DEF a
<1>5. Len(a) = 3 /\ a[1] = x /\ a[2] = y /\ a[3] = z
  BY <1>1, <1>4
<1>6. a = t
  BY <1>2, <1>4, <1>5, SeqEqual
<1>7. Append(<<x, y>>, z) = <<x, y, z>>
  BY <1>6 DEF a, s, t
<1> QED BY Zenon, <1>7, Fields

\* Values that were taken are a sequence.
LEMMA FieldsAreSeq ==
  \A x, y, z : /\ IsSeq(Append(Untaken, x))
               /\ IsSeq(Append(Append(Untaken, x), y))
               /\ IsSeq(Append(Append(Append(Untaken, x), y), z))
BY IsSeqUntaken, TakenIsSeq

-----------------------------------------------------------------------------
(* Loops of the decoders, of as many rounds as the packets need.           *)

\* ReadString in a loop of no rounds and of two.
LEMMA TimesString ==
  \A r : /\ Times(ReadString, 0, r) = r
         /\ Times(ReadString, 2, r) = ReadString(ReadString(r))
<1> TAKE r
<1>1. Times(ReadString, 0, r) = r
  <2> DEFINE loop[i \in 0 .. 0] == IF i = 0 THEN r ELSE ReadString(loop[i - 1])
             f == [i \in 0 .. 0 |-> r]
  <2>1. f = [i \in 0 .. 0 |-> IF i = 0 THEN r ELSE ReadString(f[i - 1])]
    OBVIOUS
  <2> HIDE DEF f
  <2>2. loop = [i \in 0 .. 0 |-> IF i = 0 THEN r ELSE ReadString(loop[i - 1])]
    BY <2>1
  <2>3. Times(ReadString, 0, r) = loop[0]
    BY DEF Times
  <2> HIDE DEF loop
  <2>4. loop[0] = r
    BY <2>2
  <2> QED BY Zenon, <2>3, <2>4
<1>2. Times(ReadString, 2, r) = ReadString(ReadString(r))
  <2> DEFINE loop[i \in 0 .. 2] == IF i = 0 THEN r ELSE ReadString(loop[i - 1])
             f == [i \in 0 .. 2 |-> IF i = 0 THEN r ELSE IF i = 1 THEN ReadString(r) ELSE ReadString(ReadString(r))]
  <2>1. f = [i \in 0 .. 2 |-> IF i = 0 THEN r ELSE ReadString(f[i - 1])]
    OBVIOUS
  <2> HIDE DEF f
  <2>2. loop = [i \in 0 .. 2 |-> IF i = 0 THEN r ELSE ReadString(loop[i - 1])]
    BY <2>1
  <2>3. Times(ReadString, 2, r) = loop[2]
    BY DEF Times
  <2> HIDE DEF loop
  <2>4. loop[0] = r
    BY <2>2
  <2>5. loop[1] = ReadString(loop[0])
    BY <2>2
  <2>6. loop[2] = ReadString(loop[1])
    BY <2>2
  <2> QED BY Zenon, <2>3, <2>4, <2>5, <2>6
<1> QED BY <1>1, <1>2

\* ReadPack in a loop of no rounds and of two.
LEMMA TimesPack ==
  \A r : /\ Times(ReadPack, 0, r) = r
         /\ Times(ReadPack, 2, r) = ReadPack(ReadPack(r))
<1> TAKE r
<1>1. Times(ReadPack, 0, r) = r
  <2> DEFINE loop[i \in 0 .. 0] == IF i = 0 THEN r ELSE ReadPack(loop[i - 1])
             f == [i \in 0 .. 0 |-> r]
  <2>1. f = [i \in 0 .. 0 |-> IF i = 0 THEN r ELSE ReadPack(f[i - 1])]
    OBVIOUS
  <2> HIDE DEF f
  <2>2. loop = [i \in 0 .. 0 |-> IF i = 0 THEN r ELSE ReadPack(loop[i - 1])]
    BY <2>1
  <2>3. Times(ReadPack, 0, r) = loop[0]
    BY DEF Times
  <2> HIDE DEF loop
  <2>4. loop[0] = r
    BY <2>2
  <2> QED BY Zenon, <2>3, <2>4
<1>2. Times(ReadPack, 2, r) = ReadPack(ReadPack(r))
  <2> DEFINE loop[i \in 0 .. 2] == IF i = 0 THEN r ELSE ReadPack(loop[i - 1])
             f == [i \in 0 .. 2 |-> IF i = 0 THEN r ELSE IF i = 1 THEN ReadPack(r) ELSE ReadPack(ReadPack(r))]
  <2>1. f = [i \in 0 .. 2 |-> IF i = 0 THEN r ELSE ReadPack(f[i - 1])]
    OBVIOUS
  <2> HIDE DEF f
  <2>2. loop = [i \in 0 .. 2 |-> IF i = 0 THEN r ELSE ReadPack(loop[i - 1])]
    BY <2>1
  <2>3. Times(ReadPack, 2, r) = loop[2]
    BY DEF Times
  <2> HIDE DEF loop
  <2>4. loop[0] = r
    BY <2>2
  <2>5. loop[1] = ReadPack(loop[0])
    BY <2>2
  <2>6. loop[2] = ReadPack(loop[1])
    BY <2>2
  <2> QED BY Zenon, <2>3, <2>4, <2>5, <2>6
<1> QED BY <1>1, <1>2

\* ReadProperty in a loop of up to two rounds.
LEMMA TimesProperty ==
  \A r : /\ Times(ReadProperty, 0, r) = r
         /\ Times(ReadProperty, 1, r) = ReadProperty(r)
         /\ Times(ReadProperty, 2, r) = ReadProperty(ReadProperty(r))
<1> TAKE r
<1>1. Times(ReadProperty, 0, r) = r
  <2> DEFINE loop[i \in 0 .. 0] == IF i = 0 THEN r ELSE ReadProperty(loop[i - 1])
             f == [i \in 0 .. 0 |-> r]
  <2>1. f = [i \in 0 .. 0 |-> IF i = 0 THEN r ELSE ReadProperty(f[i - 1])]
    OBVIOUS
  <2> HIDE DEF f
  <2>2. loop = [i \in 0 .. 0 |-> IF i = 0 THEN r ELSE ReadProperty(loop[i - 1])]
    BY <2>1
  <2>3. Times(ReadProperty, 0, r) = loop[0]
    BY DEF Times
  <2> HIDE DEF loop
  <2>4. loop[0] = r
    BY <2>2
  <2> QED BY Zenon, <2>3, <2>4
<1>2. Times(ReadProperty, 1, r) = ReadProperty(r)
  <2> DEFINE loop[i \in 0 .. 1] == IF i = 0 THEN r ELSE ReadProperty(loop[i - 1])
             f == [i \in 0 .. 1 |-> IF i = 0 THEN r ELSE ReadProperty(r)]
  <2>1. f = [i \in 0 .. 1 |-> IF i = 0 THEN r ELSE ReadProperty(f[i - 1])]
    OBVIOUS
  <2> HIDE DEF f
  <2>2. loop = [i \in 0 .. 1 |-> IF i = 0 THEN r ELSE ReadProperty(loop[i - 1])]
    BY <2>1
  <2>3. Times(ReadProperty, 1, r) = loop[1]
    BY DEF Times
  <2> HIDE DEF loop
  <2>4. loop[0] = r
    BY <2>2
  <2>5. loop[1] = ReadProperty(loop[0])
    BY <2>2
  <2> QED BY Zenon, <2>3, <2>4, <2>5
<1>3. Times(ReadProperty, 2, r) = ReadProperty(ReadProperty(r))
  <2> DEFINE loop[i \in 0 .. 2] == IF i = 0 THEN r ELSE ReadProperty(loop[i - 1])
             f == [i \in 0 .. 2 |-> IF i = 0 THEN r ELSE IF i = 1 THEN ReadProperty(r) ELSE ReadProperty(ReadProperty(r))]
  <2>1. f = [i \in 0 .. 2 |-> IF i = 0 THEN r ELSE ReadProperty(f[i - 1])]
    OBVIOUS
  <2> HIDE DEF f
  <2>2. loop = [i \in 0 .. 2 |-> IF i = 0 THEN r ELSE ReadProperty(loop[i - 1])]
    BY <2>1
  <2>3. Times(ReadProperty, 2, r) = loop[2]
    BY DEF Times
  <2> HIDE DEF loop
  <2>4. loop[0] = r
    BY <2>2
  <2>5. loop[1] = ReadProperty(loop[0])
    BY <2>2
  <2>6. loop[2] = ReadProperty(loop[1])
    BY <2>2
  <2> QED BY Zenon, <2>3, <2>4, <2>5, <2>6
<1> QED BY <1>1, <1>2, <1>3

-----------------------------------------------------------------------------
(* Lists.                                                                  *)

\* Writing a list of no strings.
LEMMA NoStrings ==
  ASSUME NEW list, Len(list) = 0
  PROVE  Each(WriteString, list) = End
<1> DEFINE all[n \in 0 .. Len(list)] == IF n = 0 THEN <<>> ELSE all[n - 1] \o WriteString(list[n])
           f == [n \in 0 .. 0 |-> End]
<1>1. f = [n \in 0 .. 0 |-> IF n = 0 THEN End ELSE f[n - 1] \o WriteString(list[n])]
  OBVIOUS
<1> HIDE DEF f
<1>2. all = [n \in 0 .. 0 |-> IF n = 0 THEN End ELSE all[n - 1] \o WriteString(list[n])]
  BY <1>1 DEF End
<1>3. Each(WriteString, list) = all[0]
  BY DEF Each
<1> HIDE DEF all
<1>4. all[0] = End
  BY <1>2
<1> QED BY Zenon, <1>3, <1>4

\* Writing a list of two strings.
LEMMA TwoStrings ==
  ASSUME NEW list, Len(list) = 2
  PROVE  Each(WriteString, list) = (End \o WriteString(list[1])) \o WriteString(list[2])
<1> DEFINE all[n \in 0 .. Len(list)] == IF n = 0 THEN <<>> ELSE all[n - 1] \o WriteString(list[n])
           f == [n \in 0 .. 2 |-> IF n = 0 THEN End
                              ELSE IF n = 1 THEN End \o WriteString(list[1])
                              ELSE (End \o WriteString(list[1])) \o WriteString(list[2])]
<1>1. f = [n \in 0 .. 2 |-> IF n = 0 THEN End ELSE f[n - 1] \o WriteString(list[n])]
  OBVIOUS
<1> HIDE DEF f
<1>2. all = [n \in 0 .. 2 |-> IF n = 0 THEN End ELSE all[n - 1] \o WriteString(list[n])]
  BY <1>1 DEF End
<1>3. Each(WriteString, list) = all[2]
  BY DEF Each
<1> HIDE DEF all
<1>4. all[0] = End
  BY <1>2
<1>5. all[1] = all[0] \o WriteString(list[1])
  <2>1. 1 \in 0 .. 2 /\ 1 # 0 /\ 1 - 1 = 0
    OBVIOUS
  <2>2. all[1] = all[1 - 1] \o WriteString(list[1])
    BY <1>2, <2>1
  <2> QED BY <2>1, <2>2
<1>6. all[2] = all[1] \o WriteString(list[2])
  <2>1. 2 \in 0 .. 2 /\ 2 # 0 /\ 2 - 1 = 1
    OBVIOUS
  <2>2. all[2] = all[2 - 1] \o WriteString(list[2])
    BY <1>2, <2>1
  <2> QED BY <2>1, <2>2
<1> QED BY Zenon, <1>3, <1>4, <1>5, <1>6

\* Writing a list of no packs.
LEMMA NoPacks ==
  ASSUME NEW list, Len(list) = 0
  PROVE  Each(WritePack, list) = End
<1> DEFINE all[n \in 0 .. Len(list)] == IF n = 0 THEN <<>> ELSE all[n - 1] \o WritePack(list[n])
           f == [n \in 0 .. 0 |-> End]
<1>1. f = [n \in 0 .. 0 |-> IF n = 0 THEN End ELSE f[n - 1] \o WritePack(list[n])]
  OBVIOUS
<1> HIDE DEF f
<1>2. all = [n \in 0 .. 0 |-> IF n = 0 THEN End ELSE all[n - 1] \o WritePack(list[n])]
  BY <1>1 DEF End
<1>3. Each(WritePack, list) = all[0]
  BY DEF Each
<1> HIDE DEF all
<1>4. all[0] = End
  BY <1>2
<1> QED BY Zenon, <1>3, <1>4

\* Writing a list of two packs.
LEMMA TwoPacks ==
  ASSUME NEW list, Len(list) = 2
  PROVE  Each(WritePack, list) = (End \o WritePack(list[1])) \o WritePack(list[2])
<1> DEFINE all[n \in 0 .. Len(list)] == IF n = 0 THEN <<>> ELSE all[n - 1] \o WritePack(list[n])
           f == [n \in 0 .. 2 |-> IF n = 0 THEN End
                              ELSE IF n = 1 THEN End \o WritePack(list[1])
                              ELSE (End \o WritePack(list[1])) \o WritePack(list[2])]
<1>1. f = [n \in 0 .. 2 |-> IF n = 0 THEN End ELSE f[n - 1] \o WritePack(list[n])]
  OBVIOUS
<1> HIDE DEF f
<1>2. all = [n \in 0 .. 2 |-> IF n = 0 THEN End ELSE all[n - 1] \o WritePack(list[n])]
  BY <1>1 DEF End
<1>3. Each(WritePack, list) = all[2]
  BY DEF Each
<1> HIDE DEF all
<1>4. all[0] = End
  BY <1>2
<1>5. all[1] = all[0] \o WritePack(list[1])
  <2>1. 1 \in 0 .. 2 /\ 1 # 0 /\ 1 - 1 = 0
    OBVIOUS
  <2>2. all[1] = all[1 - 1] \o WritePack(list[1])
    BY <1>2, <2>1
  <2> QED BY <2>1, <2>2
<1>6. all[2] = all[1] \o WritePack(list[2])
  <2>1. 2 \in 0 .. 2 /\ 2 # 0 /\ 2 - 1 = 1
    OBVIOUS
  <2>2. all[2] = all[2 - 1] \o WritePack(list[2])
    BY <1>2, <2>1
  <2> QED BY <2>1, <2>2
<1> QED BY Zenon, <1>3, <1>4, <1>5, <1>6

\* Writing a list of no properties.
LEMMA NoProperties ==
  ASSUME NEW list, Len(list) = 0
  PROVE  Each(WriteProperty, list) = End
<1> DEFINE all[n \in 0 .. Len(list)] == IF n = 0 THEN <<>> ELSE all[n - 1] \o WriteProperty(list[n])
           f == [n \in 0 .. 0 |-> End]
<1>1. f = [n \in 0 .. 0 |-> IF n = 0 THEN End ELSE f[n - 1] \o WriteProperty(list[n])]
  OBVIOUS
<1> HIDE DEF f
<1>2. all = [n \in 0 .. 0 |-> IF n = 0 THEN End ELSE all[n - 1] \o WriteProperty(list[n])]
  BY <1>1 DEF End
<1>3. Each(WriteProperty, list) = all[0]
  BY DEF Each
<1> HIDE DEF all
<1>4. all[0] = End
  BY <1>2
<1> QED BY Zenon, <1>3, <1>4

\* Writing a list of one property.
LEMMA OneProperties ==
  ASSUME NEW list, Len(list) = 1
  PROVE  Each(WriteProperty, list) = End \o WriteProperty(list[1])
<1> DEFINE all[n \in 0 .. Len(list)] == IF n = 0 THEN <<>> ELSE all[n - 1] \o WriteProperty(list[n])
           f == [n \in 0 .. 1 |-> IF n = 0 THEN End ELSE End \o WriteProperty(list[1])]
<1>1. f = [n \in 0 .. 1 |-> IF n = 0 THEN End ELSE f[n - 1] \o WriteProperty(list[n])]
  OBVIOUS
<1> HIDE DEF f
<1>2. all = [n \in 0 .. 1 |-> IF n = 0 THEN End ELSE all[n - 1] \o WriteProperty(list[n])]
  BY <1>1 DEF End
<1>3. Each(WriteProperty, list) = all[1]
  BY DEF Each
<1> HIDE DEF all
<1>4. all[0] = End
  BY <1>2
<1>5. all[1] = all[0] \o WriteProperty(list[1])
  <2>1. 1 \in 0 .. 1 /\ 1 # 0 /\ 1 - 1 = 0
    OBVIOUS
  <2>2. all[1] = all[1 - 1] \o WriteProperty(list[1])
    BY <1>2, <2>1
  <2> QED BY <2>1, <2>2
<1> QED BY Zenon, <1>3, <1>4, <1>5

\* Writing a list of two properties.
LEMMA TwoProperties ==
  ASSUME NEW list, Len(list) = 2
  PROVE  Each(WriteProperty, list) = (End \o WriteProperty(list[1])) \o WriteProperty(list[2])
<1> DEFINE all[n \in 0 .. Len(list)] == IF n = 0 THEN <<>> ELSE all[n - 1] \o WriteProperty(list[n])
           f == [n \in 0 .. 2 |-> IF n = 0 THEN End
                              ELSE IF n = 1 THEN End \o WriteProperty(list[1])
                              ELSE (End \o WriteProperty(list[1])) \o WriteProperty(list[2])]
<1>1. f = [n \in 0 .. 2 |-> IF n = 0 THEN End ELSE f[n - 1] \o WriteProperty(list[n])]
  OBVIOUS
<1> HIDE DEF f
<1>2. all = [n \in 0 .. 2 |-> IF n = 0 THEN End ELSE all[n - 1] \o WriteProperty(list[n])]
  BY <1>1 DEF End
<1>3. Each(WriteProperty, list) = all[2]
  BY DEF Each
<1> HIDE DEF all
<1>4. all[0] = End
  BY <1>2
<1>5. all[1] = all[0] \o WriteProperty(list[1])
  <2>1. 1 \in 0 .. 2 /\ 1 # 0 /\ 1 - 1 = 0
    OBVIOUS
  <2>2. all[1] = all[1 - 1] \o WriteProperty(list[1])
    BY <1>2, <2>1
  <2> QED BY <2>1, <2>2
<1>6. all[2] = all[1] \o WriteProperty(list[2])
  <2>1. 2 \in 0 .. 2 /\ 2 # 0 /\ 2 - 1 = 1
    OBVIOUS
  <2>2. all[2] = all[2 - 1] \o WriteProperty(list[2])
    BY <1>2, <2>1
  <2> QED BY <2>1, <2>2
<1> QED BY Zenon, <1>3, <1>4, <1>5, <1>6

-----------------------------------------------------------------------------
(* What the decoders take for one value.                                   *)

\* The values a loop's body took count as one.
LEMMA AsOneAt == \A t, h, g : AsOne(At(t, h), g) = At(t, Append(g, h))
<1> TAKE t, h, g
<1>1. At(t, h).got = h
  BY DEF At
<1> DEFINE a == Append(g, h)
<1>2. AsOne(At(t, h), g) = [At(t, h) EXCEPT !.got = a]
  BY <1>1 DEF AsOne
<1> HIDE DEF a
<1> QED BY <1>2, WithGot DEF a

\* A pack is read as it was written, its three strings as one value.
LEMMA PackAt ==
  \A t, g : IsSeq(t) /\ IsSeq(g) => ReadPack(At(Cat(WritePack(Pack), t), g)) = At(t, Append(g, Pack))
<1> SUFFICES ASSUME NEW t, NEW g, IsSeq(t), IsSeq(g)
             PROVE  ReadPack(At(Cat(WritePack(Pack), t), g)) = At(t, Append(g, Pack))
  OBVIOUS
<1> DEFINE a == WriteString(Short)
           b == WriteString(Name)
           w == Cat(WritePack(Pack), t)
           u == Untaken
<1>1. Readable(Short) /\ Readable(Name)
  BY Texts
<1>2. IsSeq(a) /\ IsSeq(b)
  BY <1>1, StringIsSeq
<1>3. IsSeq(Cat(a, t)) /\ IsSeq(Cat(b, Cat(a, t)))
  BY <1>2, CatIsSeq
<1>4. w = Cat(a, Cat(b, Cat(a, t)))
  <2>1. WritePack(Pack) = Cat(Cat(a, b), a)
    BY DEF WritePack, Pack, Cat
  <2> HIDE DEF a, b
  <2> QED BY <1>2, <2>1, FourParts
<1>5. [At(w, g) EXCEPT !.got = u] = At(w, u)
  <2> HIDE DEF w, u
  <2> QED BY WithGot
<1>6. ReadPack(At(w, g)) = AsOne(ReadString(ReadString(ReadString([At(w, g) EXCEPT !.got = u]))), g)
  BY DEF ReadPack, Untaken, At
<1>7. ReadString(ReadString(ReadString(At(w, u)))) = At(t, Append(Append(Append(u, Short), Name), Short))
  <2>1. ReadString(At(w, u)) = At(Cat(b, Cat(a, t)), Append(u, Short))
    BY <1>1, <1>3, <1>4, StringAt, IsSeqUntaken
  <2>2. ReadString(At(Cat(b, Cat(a, t)), Append(u, Short))) = At(Cat(a, t), Append(Append(u, Short), Name))
    BY <1>1, <1>3, StringAt, FieldsAreSeq
  <2>3. ReadString(At(Cat(a, t), Append(Append(u, Short), Name)))
          = At(t, Append(Append(Append(u, Short), Name), Short))
    BY <1>1, StringAt, FieldsAreSeq
  <2> HIDE DEF w, u, a, b
  <2> QED BY <2>1, <2>2, <2>3
<1>8. Append(Append(Append(u, Short), Name), Short) = Pack
  BY ThreeFields DEF Pack
<1>9. ReadString(ReadString(ReadString(At(w, u)))) = At(t, Pack)
  BY Zenon, <1>7, <1>8
<1> HIDE DEF w, u
<1>10. ReadPack(At(w, g)) = AsOne(At(t, Pack), g)
  BY Zenon, <1>5, <1>6, <1>9
<1> QED BY Zenon, <1>10, AsOneAt DEF w

\* A property is taken whole, and not kept.
LEMMA PropertyAt ==
  \A signed \in BOOLEAN : \A t, g : IsSeq(t) /\ IsSeq(g) =>
    ReadProperty(At(Cat(WriteProperty(signed), t), g)) = At(t, g)
<1> SUFFICES ASSUME NEW signed \in BOOLEAN, NEW t, NEW g, IsSeq(t), IsSeq(g)
             PROVE  ReadProperty(At(Cat(WriteProperty(signed), t), g)) = At(t, g)
  OBVIOUS
<1> DEFINE a == WriteString(Short)
           b == WriteString(Name)
           c == WriteBool(signed)
           d == When(signed, a)
           e == Cat(d, t)
           w == Cat(WriteProperty(signed), t)
           flag == At(e, Append(g, signed))
<1>1. Readable(Short) /\ Readable(Name)
  BY Texts
<1>2. IsSeq(a) /\ IsSeq(b)
  BY <1>1, StringIsSeq
<1>3. IsSeq(c)
  BY MeasureFixed, WireIsSeq DEF Measured
<1>4. IsSeq(d)
  BY <1>2, IsSeqEmpty DEF When
<1>5. IsSeq(e) /\ IsSeq(Cat(c, e)) /\ IsSeq(Cat(b, Cat(c, e)))
  BY <1>2, <1>3, <1>4, CatIsSeq
<1>6. w = Cat(a, Cat(b, Cat(c, e)))
  <2>1. WriteProperty(signed) = Cat(Cat(Cat(a, b), c), d)
    BY DEF WriteProperty, Cat
  <2> HIDE DEF a, b, c, d
  <2>2. IsSeq(Cat(Cat(a, b), c))
    BY <1>2, <1>3, CatIsSeq
  <2>3. w = Cat(Cat(Cat(a, b), c), e)
    BY <1>4, <2>1, <2>2, CatAssociated
  <2> HIDE DEF e
  <2> QED BY <1>2, <1>3, <1>5, <2>3, FourParts
<1> HIDE DEF e
<1>7. Drop(ReadString(At(w, g))) = At(Cat(b, Cat(c, e)), g)
  BY <1>1, <1>5, <1>6, StringAt, Taken
<1>8. Drop(ReadString(At(Cat(b, Cat(c, e)), g))) = At(Cat(c, e), g)
  BY <1>1, <1>5, StringAt, Taken
<1>9. ReadBool(At(Cat(c, e), g)) = flag
  BY <1>5, BoolCat
<1>10. flag.ok /\ Last(flag) = signed /\ Drop(flag) = At(e, g)
  <2>1. flag.ok
    BY DEF At
  <2> QED BY <2>1, Taken
<1>11. SignatureAfter(At(Cat(c, e), g), flag) = At(t, g)
  <2>1. CASE signed
    <3>1. d = a
      BY <2>1 DEF When
    <3>2. Drop(ReadString(At(e, g))) = At(t, g)
      BY <1>1, <3>1, StringAt, Taken DEF e
    <3> HIDE DEF a, d, flag
    <3> QED BY <1>10, <2>1, <3>2 DEF SignatureAfter
  <2>2. CASE ~signed
    <3>1. d = End
      BY <2>2 DEF When, End
    <3>2. e = t
      BY <3>1, AtEnd DEF e
    <3> HIDE DEF d, flag
    <3> QED BY <1>10, <2>2, <3>2 DEF SignatureAfter
  <2> QED BY <2>1, <2>2
<1> HIDE DEF a, b, c, d, w, flag
<1>12. ReadProperty(At(w, g)) = SignatureAfter(At(Cat(c, e), g), flag)
  BY Zenon, <1>7, <1>8, <1>9 DEF ReadProperty, PropertyAfter
<1> QED BY <1>11, <1>12 DEF w

-----------------------------------------------------------------------------
(* Lists, as they are written and read.                                    *)

\* The loop over the properties, by a name of its own.
PropertyRounds(n, r) == Times(ReadProperty, n, r)

\* A list of properties, with its count.
PropertyList(list) == Cat(WriteVarInt(Len(list)), Each(WriteProperty, list))

\* The loop runs as often as the count in front of it says.
LEMMA PropertiesAfterAt ==
  \A n, w, g : IsSeq(g) => PropertiesAfter(At(w, Append(g, n))) = PropertyRounds(n, At(w, g))
<1> SUFFICES ASSUME NEW n, NEW w, NEW g, IsSeq(g)
             PROVE  PropertiesAfter(At(w, Append(g, n))) = PropertyRounds(n, At(w, g))
  OBVIOUS
<1> DEFINE count == At(w, Append(g, n))
<1>1. count.ok
  BY DEF At
<1>2. Last(count) = n /\ Drop(count) = At(w, g)
  BY Taken
<1> HIDE DEF count
<1>3. PropertiesAfter(count) = PropertyRounds(Last(count), Drop(count))
  BY <1>1 DEF PropertiesAfter, PropertyRounds
<1> QED BY Zenon, <1>2, <1>3 DEF count

\* What is written of a property is a wire, signed or not.
LEMMA PropertyIsSeq == \A signed \in BOOLEAN : IsSeq(WriteProperty(signed))
<1> TAKE signed \in BOOLEAN
<1> DEFINE a == WriteString(Short)
           b == WriteString(Name)
           c == WriteBool(signed)
           d == When(signed, a)
<1>1. IsSeq(a) /\ IsSeq(b)
  BY Texts, StringIsSeq
<1>2. IsSeq(c)
  BY MeasureFixed, WireIsSeq DEF Measured
<1>3. IsSeq(d)
  BY <1>1, IsSeqEmpty DEF When
<1>4. WriteProperty(signed) = Cat(Cat(Cat(a, b), c), d)
  BY DEF WriteProperty, Cat
<1> HIDE DEF a, b, c, d
<1> QED BY <1>1, <1>2, <1>3, <1>4, CatIsSeq

\* An empty list of properties is passed over.
LEMMA NoPropertiesAt ==
  ASSUME NEW list, Len(list) = 0, NEW t, NEW g, IsSeq(t), IsSeq(g)
  PROVE  PropertiesAfter(ReadVarInt(At(Cat(PropertyList(list), t), g))) = At(t, g)
<1> DEFINE n == WriteVarInt(0)
<1>1. Int32(0) = 0
  BY Counted
<1>2. IsSeq(n)
  BY MeasureVarInt, WireIsSeq DEF Measured
<1>3. PropertyList(list) = n
  <2>1. Each(WriteProperty, list) = End
    BY NoProperties
  <2>2. PropertyList(list) = Cat(n, End)
    BY Zenon, <2>1 DEF PropertyList
  <2> HIDE DEF n
  <2> QED BY <1>2, <2>2, AtEnd
<1>4. ReadVarInt(At(Cat(n, t), g)) = At(t, Append(g, 0))
  BY <1>1, VarIntCat
<1>5. PropertyRounds(0, At(t, g)) = At(t, g)
  BY TimesProperty DEF PropertyRounds
<1> HIDE DEF n
<1>6. ReadVarInt(At(Cat(PropertyList(list), t), g)) = At(t, Append(g, 0))
  BY Zenon, <1>3, <1>4
<1> QED BY Zenon, <1>5, <1>6, PropertiesAfterAt

\* A list of one property is passed over, signature or not.
LEMMA OnePropertyAt ==
  ASSUME NEW list, Len(list) = 1, list[1] \in BOOLEAN, NEW t, NEW g, IsSeq(t), IsSeq(g)
  PROVE  PropertiesAfter(ReadVarInt(At(Cat(PropertyList(list), t), g))) = At(t, g)
<1> DEFINE n == WriteVarInt(1)
           a == WriteProperty(list[1])
<1>1. Int32(1) = 1
  BY Counted
<1>2. IsSeq(n)
  BY MeasureVarInt, WireIsSeq DEF Measured
<1>3. IsSeq(a) /\ IsSeq(Cat(a, t))
  BY PropertyIsSeq, CatIsSeq
<1>4. PropertyList(list) = Cat(n, a)
  <2>1. Each(WriteProperty, list) = Cat(End, a)
    BY OneProperties DEF Cat
  <2>2. PropertyList(list) = Cat(n, Cat(End, a))
    BY Zenon, <2>1 DEF PropertyList
  <2> HIDE DEF n, a
  <2> QED BY <1>3, <2>2, AtEnd
<1>5. ReadVarInt(At(Cat(n, Cat(a, t)), g)) = At(Cat(a, t), Append(g, 1))
  BY <1>1, <1>3, VarIntCat
<1>6. PropertyRounds(1, At(Cat(a, t), g)) = At(t, g)
  <2>1. PropertyRounds(1, At(Cat(a, t), g)) = ReadProperty(At(Cat(a, t), g))
    BY Zenon, TimesProperty DEF PropertyRounds
  <2>2. ReadProperty(At(Cat(a, t), g)) = At(t, g)
    BY PropertyAt
  <2> QED BY Zenon, <2>1, <2>2
<1> HIDE DEF n, a
<1>7. Cat(PropertyList(list), t) = Cat(n, Cat(a, t))
  BY <1>2, <1>3, <1>4, CatAssociated
<1>8. ReadVarInt(At(Cat(PropertyList(list), t), g)) = At(Cat(a, t), Append(g, 1))
  BY Zenon, <1>5, <1>7
<1> QED BY Zenon, <1>6, <1>8, PropertiesAfterAt

\* A list of two properties is passed over, whichever of them are signed.
LEMMA TwoPropertiesAt ==
  ASSUME NEW list, Len(list) = 2, list[1] \in BOOLEAN, list[2] \in BOOLEAN,
         NEW t, NEW g, IsSeq(t), IsSeq(g)
  PROVE  PropertiesAfter(ReadVarInt(At(Cat(PropertyList(list), t), g))) = At(t, g)
<1> DEFINE n == WriteVarInt(2)
           a == WriteProperty(list[1])
           b == WriteProperty(list[2])
           w == Cat(a, Cat(b, t))
<1>1. Int32(2) = 2
  BY Counted
<1>2. IsSeq(n)
  BY MeasureVarInt, WireIsSeq DEF Measured
<1>3. IsSeq(a) /\ IsSeq(b) /\ IsSeq(Cat(b, t)) /\ IsSeq(w)
  BY PropertyIsSeq, CatIsSeq
<1>4. PropertyList(list) = Cat(n, Cat(a, b))
  <2>1. Each(WriteProperty, list) = Cat(Cat(End, a), b)
    BY TwoProperties DEF Cat
  <2>2. PropertyList(list) = Cat(n, Cat(Cat(End, a), b))
    BY Zenon, <2>1 DEF PropertyList
  <2> HIDE DEF n, a, b
  <2> QED BY <1>3, <2>2, AtEnd
<1>5. ReadVarInt(At(Cat(n, w), g)) = At(w, Append(g, 2))
  BY <1>1, <1>3, VarIntCat
<1>6. PropertyRounds(2, At(w, g)) = At(t, g)
  <2>1. PropertyRounds(2, At(w, g)) = ReadProperty(ReadProperty(At(w, g)))
    BY Zenon, TimesProperty DEF PropertyRounds
  <2>2. ReadProperty(At(w, g)) = At(Cat(b, t), g)
    BY <1>3, PropertyAt
  <2>3. ReadProperty(At(Cat(b, t), g)) = At(t, g)
    BY PropertyAt
  <2> QED BY Zenon, <2>1, <2>2, <2>3
<1> HIDE DEF n, a, b
<1>7. Cat(PropertyList(list), t) = Cat(n, w)
  BY <1>2, <1>3, <1>4, CatAssociated, CatIsSeq
<1> HIDE DEF w
<1>8. ReadVarInt(At(Cat(PropertyList(list), t), g)) = At(w, Append(g, 2))
  BY Zenon, <1>5, <1>7
<1> QED BY Zenon, <1>6, <1>8, PropertiesAfterAt

\* The loop over names.
NameRounds(n, r) == Times(ReadString, n, r)
\* The loop over packs.
PackRounds(n, r) == Times(ReadPack, n, r)
\* What the loop over names does after it has read their count.
NameItems(count) == ItemsAfter(ReadString, count)
\* What the loop over packs does after it has read their count.
PackItems(count) == ItemsAfter(ReadPack, count)

\* The loop over names runs as often as the count in front of it says.
LEMMA ListOfNamesAt ==
  \A n, w, g : IsSeq(g) => NameItems(At(w, Append(g, n))) = NameRounds(n, At(w, Untaken))
<1> SUFFICES ASSUME NEW n, NEW w, NEW g, IsSeq(g)
             PROVE  NameItems(At(w, Append(g, n))) = NameRounds(n, At(w, Untaken))
  OBVIOUS
<1> DEFINE count == At(w, Append(g, n))
           u == Untaken
<1>1. count.ok
  BY DEF At
<1>2. Last(count) = n /\ Drop(count) = At(w, g)
  BY Taken
<1> HIDE DEF count
<1>3. NameItems(count) = NameRounds(Last(count), [Drop(count) EXCEPT !.got = u])
  BY <1>1 DEF NameItems, ItemsAfter, NameRounds, Untaken
<1> HIDE DEF u
<1>4. [At(w, g) EXCEPT !.got = u] = At(w, u)
  BY WithGot
<1> QED BY Zenon, <1>2, <1>3, <1>4 DEF count, u

\* The loop over packs runs as often as the count in front of it says.
LEMMA ListOfPacksAt ==
  \A n, w, g : IsSeq(g) => PackItems(At(w, Append(g, n))) = PackRounds(n, At(w, Untaken))
<1> SUFFICES ASSUME NEW n, NEW w, NEW g, IsSeq(g)
             PROVE  PackItems(At(w, Append(g, n))) = PackRounds(n, At(w, Untaken))
  OBVIOUS
<1> DEFINE count == At(w, Append(g, n))
           u == Untaken
<1>1. count.ok
  BY DEF At
<1>2. Last(count) = n /\ Drop(count) = At(w, g)
  BY Taken
<1> HIDE DEF count
<1>3. PackItems(count) = PackRounds(Last(count), [Drop(count) EXCEPT !.got = u])
  BY <1>1 DEF PackItems, ItemsAfter, PackRounds, Untaken
<1> HIDE DEF u
<1>4. [At(w, g) EXCEPT !.got = u] = At(w, u)
  BY WithGot
<1> QED BY Zenon, <1>2, <1>3, <1>4 DEF count, u

\* Of a list without items, and of one with two, the values are the list.
LEMMA FeatureFlagsRead ==
  /\ DecodeFeatureFlags(At(EncodeFeatureFlags(<< <<>> >>), Untaken)) = At(End, Append(Untaken, <<>>))
  /\ DecodeFeatureFlags(At(EncodeFeatureFlags(<< <<Short, Long>> >>), Untaken))
       = At(End, Append(Untaken, <<Short, Long>>))
<1>1. Readable(Short) /\ Readable(Long)
  BY Texts
<1>2. IsSeq(WriteVarInt(0)) /\ IsSeq(WriteVarInt(2)) /\ Int32(0) = 0 /\ Int32(2) = 2
  BY MeasureVarInt, WireIsSeq, Counted DEF Measured
<1>3. \A w : At(w, Untaken).got = Untaken
  BY DEF At
<1>4. ASSUME NEW list, Len(list) = 0
      PROVE  DecodeFeatureFlags(At(EncodeFeatureFlags(<<list>>), Untaken)) = At(End, Append(Untaken, Untaken))
  <2> DEFINE n == WriteVarInt(0)
             w == EncodeFeatureFlags(<<list>>)
  <2>1. w = Cat(n, End)
    <3>1. Each(WriteString, list) = End
      BY <1>4, NoStrings
    <3>2. w = Cat(WriteVarInt(Len(list)), Each(WriteString, list))
      BY DEF EncodeFeatureFlags, Cat
    <3> QED BY Zenon, <1>4, <3>1, <3>2
  <2> HIDE DEF n, w
  <2>2. ReadVarInt(At(w, Untaken)) = At(End, Append(Untaken, 0))
    BY <1>2, <2>1, AtEnd, VarIntCat DEF n
  <2>3. NameRounds(0, At(End, Untaken)) = At(End, Untaken)
    BY TimesString DEF NameRounds
  <2>4. NameItems(At(End, Append(Untaken, 0))) = At(End, Untaken)
    BY Zenon, <2>3, IsSeqUntaken, ListOfNamesAt
  <2>5. DecodeFeatureFlags(At(w, Untaken))
          = AsOne(NameItems(ReadVarInt(At(w, Untaken))), At(w, Untaken).got)
    BY DEF DecodeFeatureFlags, ReadList, NameItems
  <2>6. DecodeFeatureFlags(At(w, Untaken)) = AsOne(At(End, Untaken), Untaken)
    BY Zenon, <1>3, <2>2, <2>4, <2>5
  <2> QED BY Zenon, <2>6, AsOneAt DEF w
<1>5. ASSUME NEW list, Len(list) = 2, Readable(list[1]), Readable(list[2])
      PROVE  DecodeFeatureFlags(At(EncodeFeatureFlags(<<list>>), Untaken))
               = At(End, Append(Untaken, Append(Append(Untaken, list[1]), list[2])))
  <2> DEFINE n == WriteVarInt(2)
             a == WriteString(list[1])
             b == WriteString(list[2])
             w == EncodeFeatureFlags(<<list>>)
             items == At(End, Append(Append(Untaken, list[1]), list[2]))
  <2>0. IsSeq(a) /\ IsSeq(b) /\ IsSeq(Cat(a, b))
    BY <1>5, StringIsSeq, CatIsSeq
  <2>1. w = Cat(n, Cat(a, b))
    <3>1. Each(WriteString, list) = Cat(Cat(End, a), b)
      BY <1>5, TwoStrings DEF Cat
    <3>2. w = Cat(WriteVarInt(Len(list)), Each(WriteString, list))
      BY DEF EncodeFeatureFlags, Cat
    <3> HIDE DEF a, b
    <3>3. Cat(End, a) = a
      BY <2>0, AtEnd
    <3> QED BY Zenon, <1>5, <3>1, <3>2, <3>3
  <2> HIDE DEF n, w
  <2>2. ReadVarInt(At(w, Untaken)) = At(Cat(a, b), Append(Untaken, 2))
    BY <1>2, <2>0, <2>1, VarIntCat DEF n
  <2>3. NameRounds(2, At(Cat(a, b), Untaken)) = items
    <3>1. NameRounds(2, At(Cat(a, b), Untaken)) = ReadString(ReadString(At(Cat(a, b), Untaken)))
      BY Zenon, TimesString DEF NameRounds
    <3>2. ReadString(At(Cat(a, b), Untaken)) = At(b, Append(Untaken, list[1]))
      BY <1>5, <2>0, StringAt, IsSeqUntaken
    <3>3. ReadString(At(b, Append(Untaken, list[1]))) = items
      BY <1>5, LastString, FieldsAreSeq
    <3> QED BY Zenon, <3>1, <3>2, <3>3
  <2> HIDE DEF a, b
  <2>4. NameItems(At(Cat(a, b), Append(Untaken, 2))) = items
    BY Zenon, <2>3, IsSeqUntaken, ListOfNamesAt
  <2>5. DecodeFeatureFlags(At(w, Untaken))
          = AsOne(NameItems(ReadVarInt(At(w, Untaken))), At(w, Untaken).got)
    BY DEF DecodeFeatureFlags, ReadList, NameItems
  <2> HIDE DEF items
  <2>6. DecodeFeatureFlags(At(w, Untaken)) = AsOne(items, Untaken)
    BY Zenon, <1>3, <2>2, <2>4, <2>5
  <2> QED BY Zenon, <2>6, AsOneAt DEF w, items
<1> DEFINE list == <<Short, Long>>
<1>6. Len(list) = 2 /\ list[1] = Short /\ list[2] = Long
  OBVIOUS
<1>7. Append(Append(Untaken, Short), Long) = list
  BY Fields
<1> HIDE DEF list
<1>8. DecodeFeatureFlags(At(EncodeFeatureFlags(<<list>>), Untaken)) = At(End, Append(Untaken, list))
  BY Zenon, <1>1, <1>5, <1>6, <1>7
<1>9. Len(Untaken) = 0
  BY DEF Untaken
<1>10. DecodeFeatureFlags(At(EncodeFeatureFlags(<<Untaken>>), Untaken)) = At(End, Append(Untaken, Untaken))
  BY Zenon, <1>4, <1>9
<1> DEFINE u == Untaken
<1>11. u = <<>>
  BY DEF Untaken
<1> QED BY Zenon, <1>8, <1>10, <1>11 DEF list

\* What is written of a pack is a wire.
LEMMA PackIsSeq == IsSeq(WritePack(Pack))
<1> DEFINE a == WriteString(Short)
           b == WriteString(Name)
<1>1. IsSeq(a) /\ IsSeq(b)
  BY Texts, StringIsSeq
<1>2. WritePack(Pack) = Cat(Cat(a, b), a)
  BY DEF WritePack, Pack, Cat
<1> HIDE DEF a, b
<1> QED BY <1>1, <1>2, CatIsSeq

\* ServerboundSelectKnownPacks is decoded to the packs it was written with.
LEMMA KnownPacksRead ==
  /\ DecodeSelectKnownPacks(At(EncodeSelectKnownPacks(<< <<>> >>), Untaken)) = At(End, Append(Untaken, <<>>))
  /\ DecodeSelectKnownPacks(At(EncodeSelectKnownPacks(<< <<Pack, Pack>> >>), Untaken))
       = At(End, Append(Untaken, <<Pack, Pack>>))
<1>2. IsSeq(WriteVarInt(0)) /\ IsSeq(WriteVarInt(2)) /\ Int32(0) = 0 /\ Int32(2) = 2
  BY MeasureVarInt, WireIsSeq, Counted DEF Measured
<1>3. \A w : At(w, Untaken).got = Untaken
  BY DEF At
<1>4. ASSUME NEW list, Len(list) = 0
      PROVE  DecodeSelectKnownPacks(At(EncodeSelectKnownPacks(<<list>>), Untaken)) = At(End, Append(Untaken, Untaken))
  <2> DEFINE n == WriteVarInt(0)
             w == EncodeSelectKnownPacks(<<list>>)
  <2>1. w = Cat(n, End)
    <3>1. Each(WritePack, list) = End
      BY <1>4, NoPacks
    <3>2. w = Cat(WriteVarInt(Len(list)), Each(WritePack, list))
      BY DEF EncodeSelectKnownPacks, Cat
    <3> QED BY Zenon, <1>4, <3>1, <3>2
  <2> HIDE DEF n, w
  <2>2. ReadVarInt(At(w, Untaken)) = At(End, Append(Untaken, 0))
    BY <1>2, <2>1, AtEnd, VarIntCat DEF n
  <2>3. PackRounds(0, At(End, Untaken)) = At(End, Untaken)
    BY TimesPack DEF PackRounds
  <2>4. PackItems(At(End, Append(Untaken, 0))) = At(End, Untaken)
    BY Zenon, <2>3, IsSeqUntaken, ListOfPacksAt
  <2>5. DecodeSelectKnownPacks(At(w, Untaken))
          = AsOne(PackItems(ReadVarInt(At(w, Untaken))), At(w, Untaken).got)
    BY DEF DecodeSelectKnownPacks, ReadList, PackItems
  <2>6. DecodeSelectKnownPacks(At(w, Untaken)) = AsOne(At(End, Untaken), Untaken)
    BY Zenon, <1>3, <2>2, <2>4, <2>5
  <2> QED BY Zenon, <2>6, AsOneAt DEF w
<1>5. ASSUME NEW list, Len(list) = 2, list[1] = Pack, list[2] = Pack
      PROVE  DecodeSelectKnownPacks(At(EncodeSelectKnownPacks(<<list>>), Untaken))
               = At(End, Append(Untaken, Append(Append(Untaken, list[1]), list[2])))
  <2> DEFINE n == WriteVarInt(2)
             a == WritePack(list[1])
             b == WritePack(list[2])
             w == EncodeSelectKnownPacks(<<list>>)
             items == At(End, Append(Append(Untaken, list[1]), list[2]))
  <2>0. IsSeq(a) /\ IsSeq(b) /\ IsSeq(Cat(a, b))
    BY <1>5, PackIsSeq, CatIsSeq
  <2>1. w = Cat(n, Cat(a, b))
    <3>1. Each(WritePack, list) = Cat(Cat(End, a), b)
      BY <1>5, TwoPacks DEF Cat
    <3>2. w = Cat(WriteVarInt(Len(list)), Each(WritePack, list))
      BY DEF EncodeSelectKnownPacks, Cat
    <3> HIDE DEF a, b
    <3>3. Cat(End, a) = a
      BY <2>0, AtEnd
    <3> QED BY Zenon, <1>5, <3>1, <3>2, <3>3
  <2> HIDE DEF n, w
  <2>2. ReadVarInt(At(w, Untaken)) = At(Cat(a, b), Append(Untaken, 2))
    BY <1>2, <2>0, <2>1, VarIntCat DEF n
  <2>3. PackRounds(2, At(Cat(a, b), Untaken)) = items
    <3>1. PackRounds(2, At(Cat(a, b), Untaken)) = ReadPack(ReadPack(At(Cat(a, b), Untaken)))
      BY Zenon, TimesPack DEF PackRounds
    <3>2. ReadPack(At(Cat(a, b), Untaken)) = At(b, Append(Untaken, list[1]))
      BY <1>5, <2>0, PackAt, IsSeqUntaken
    <3>3. ReadPack(At(b, Append(Untaken, list[1]))) = items
      BY <1>5, <2>0, PackAt, AtEnd, FieldsAreSeq
    <3> QED BY Zenon, <3>1, <3>2, <3>3
  <2> HIDE DEF a, b
  <2>4. PackItems(At(Cat(a, b), Append(Untaken, 2))) = items
    BY Zenon, <2>3, IsSeqUntaken, ListOfPacksAt
  <2>5. DecodeSelectKnownPacks(At(w, Untaken))
          = AsOne(PackItems(ReadVarInt(At(w, Untaken))), At(w, Untaken).got)
    BY DEF DecodeSelectKnownPacks, ReadList, PackItems
  <2> HIDE DEF items
  <2>6. DecodeSelectKnownPacks(At(w, Untaken)) = AsOne(items, Untaken)
    BY Zenon, <1>3, <2>2, <2>4, <2>5
  <2> QED BY Zenon, <2>6, AsOneAt DEF w, items
<1> DEFINE list == <<Pack, Pack>>
<1>6. Len(list) = 2 /\ list[1] = Pack /\ list[2] = Pack
  OBVIOUS
<1>7. Append(Append(Untaken, Pack), Pack) = list
  BY Fields
<1> HIDE DEF list
<1>8. DecodeSelectKnownPacks(At(EncodeSelectKnownPacks(<<list>>), Untaken)) = At(End, Append(Untaken, list))
  BY Zenon, <1>5, <1>6, <1>7
<1>9. Len(Untaken) = 0
  BY DEF Untaken
<1>10. DecodeSelectKnownPacks(At(EncodeSelectKnownPacks(<<Untaken>>), Untaken)) = At(End, Append(Untaken, Untaken))
  BY Zenon, <1>4, <1>9
<1> DEFINE u == Untaken
<1>11. u = <<>>
  BY DEF Untaken
<1> QED BY Zenon, <1>8, <1>10, <1>11 DEF list

\* The lists of properties that the server sends.
PropertyValues(list) ==
  \/ Len(list) = 0
  \/ Len(list) = 1 /\ list[1] \in BOOLEAN
  \/ Len(list) = 2 /\ list[1] \in BOOLEAN /\ list[2] \in BOOLEAN

\* Any list of up to two properties is passed over.
LEMMA PropertiesAt ==
  \A list, t, g : PropertyValues(list) /\ IsSeq(t) /\ IsSeq(g) =>
    PropertiesAfter(ReadVarInt(At(Cat(PropertyList(list), t), g))) = At(t, g)
BY NoPropertiesAt, OnePropertyAt, TwoPropertiesAt DEF PropertyValues

\* What is written of it is a wire.
LEMMA PropertyListIsSeq == \A list : PropertyValues(list) => IsSeq(PropertyList(list))
<1> SUFFICES ASSUME NEW list, PropertyValues(list) PROVE IsSeq(PropertyList(list))
  OBVIOUS
<1>1. IsSeq(Each(WriteProperty, list))
  <2>1. CASE Len(list) = 0
    BY <2>1, NoProperties, AtEnd
  <2>2. CASE Len(list) = 1 /\ list[1] \in BOOLEAN
    <3>1. Each(WriteProperty, list) = Cat(End, WriteProperty(list[1]))
      BY <2>2, OneProperties DEF Cat
    <3>2. IsSeq(Cat(End, WriteProperty(list[1])))
      BY <2>2, PropertyIsSeq, AtEnd, CatIsSeq
    <3> QED BY Zenon, <3>1, <3>2
  <2>3. CASE Len(list) = 2 /\ list[1] \in BOOLEAN /\ list[2] \in BOOLEAN
    <3>1. Each(WriteProperty, list) = Cat(Cat(End, WriteProperty(list[1])), WriteProperty(list[2]))
      BY <2>3, TwoProperties DEF Cat
    <3>2. IsSeq(Cat(Cat(End, WriteProperty(list[1])), WriteProperty(list[2])))
      BY <2>3, PropertyIsSeq, AtEnd, CatIsSeq
    <3> QED BY Zenon, <3>1, <3>2
  <2> QED BY <2>1, <2>2, <2>3 DEF PropertyValues
<1>2. Len(list) \in Int
  BY DEF PropertyValues
<1>3. IsSeq(WriteVarInt(Len(list)))
  BY <1>2, MeasureVarInt, WireIsSeq DEF Measured
<1>4. IsSeq(Cat(WriteVarInt(Len(list)), Each(WriteProperty, list)))
  BY Zenon, <1>1, <1>3, CatIsSeq
<1> QED BY Zenon, <1>4 DEF PropertyList

\* The UUID, in either form.
LEMMA UUIDAt ==
  \A v : \A form \in {32, 36} : \A t : IsSeq(t) =>
    LET uuid == IF v >= V1_16 THEN WriteUUID("player") ELSE WriteString(Text("player", form))
        r == At(Cat(uuid, t), Untaken)
    IN  (IF v >= V1_16 THEN ReadUUID(r) ELSE ReadStringUUID(r)) = At(t, Append(Untaken, "player"))
<1> SUFFICES ASSUME NEW v, NEW form \in {32, 36}, NEW t, IsSeq(t)
             PROVE  /\ v >= V1_16 => ReadUUID(At(Cat(WriteUUID("player"), t), Untaken)) = At(t, Append(Untaken, "player"))
                    /\ ReadStringUUID(At(Cat(WriteString(Text("player", form)), t), Untaken))
                         = At(t, Append(Untaken, "player"))
  OBVIOUS
<1>1. ReadUUID(At(Cat(WriteUUID("player"), t), Untaken)) = At(t, Append(Untaken, "player"))
  BY AtomCat DEF ReadUUID, WriteUUID
<1> DEFINE text == Text("player", form)
           s == At(t, Append(Untaken, text))
<1>2. Length(text) = form /\ text[1] = "player"
  BY DEF Length, Text
<1> HIDE DEF text
<1>3. Readable(text)
  BY <1>2, Limits DEF Readable
<1>4. ReadString(At(Cat(WriteString(text), t), Untaken)) = s
  BY <1>3, StringAt, IsSeqUntaken
<1>5. s.ok /\ Last(s) = text /\ Drop(s) = At(t, Untaken)
  <2>1. s.ok
    BY DEF At
  <2> QED BY <2>1, FirstTaken
<1> HIDE DEF s
<1>6. ParseUUID(s) = Took(At(t, Untaken), 0, "player")
  <2>1. Length(Last(s)) \in {32, 36} /\ Last(s)[1] = "player"
    BY <1>2, <1>5
  <2> QED BY <1>5, <2>1 DEF ParseUUID
<1>7. Took(At(t, Untaken), 0, "player") = At(t, Append(Untaken, "player"))
  <2>1. Took(At(t, Untaken), 0, "player") = At(SubSeq(t, 0 + 1, Len(t)), Append(Untaken, "player"))
    BY TookAt
  <2>2. SubSeq(t, 0 + 1, Len(t)) = t
    <3>1. SubSeq(t, 1, Len(t)) = t
      BY SubSeqFull DEF IsSeq
    <3>2. 0 + 1 = 1
      OBVIOUS
    <3> QED BY Zenon, <3>1, <3>2
  <2> QED BY Zenon, <2>1, <2>2
<1>8. ReadStringUUID(At(Cat(WriteString(text), t), Untaken)) = At(t, Append(Untaken, "player"))
  BY Zenon, <1>4, <1>6, <1>7 DEF ReadStringUUID
<1> QED BY <1>1, <1>8 DEF text

\* ClientboundLoginSuccess is decoded to the ID and the name, in both forms of the ID.
LEMMA LoginSuccessRead ==
  ASSUME NEW v, NEW list, PropertyValues(list), NEW form \in {32, 36}
  PROVE  DecodeLoginSuccess(At(EncodeLoginSuccess(<<"player", Name, list, form>>, v), Untaken), v)
           = At(End, Append(Append(Untaken, "player"), Name))
<1> DEFINE uuid == IF v >= V1_16 THEN WriteUUID("player") ELSE WriteString(Text("player", form))
           name == WriteString(Name)
           listed == v >= V1_19
           strictly == v \in V1_20_5 .. V1_21_1
           props == When(listed, PropertyList(list))
           strict == When(strictly, WriteBool(TRUE))
           w == EncodeLoginSuccess(<<"player", Name, list, form>>, v)
           g == Append(Untaken, "player")
           h == Append(g, Name)
<1>1. IsSeq(uuid)
  <2>1. Readable(Text("player", form))
    BY Limits DEF Readable, Length, Text
  <2>2. IsSeq(WriteString(Text("player", form)))
    BY <2>1, StringIsSeq
  <2>3. IsSeq(WriteUUID("player"))
    BY MeasureFixed, WireIsSeq DEF Measured
  <2> QED BY <2>2, <2>3
<1>2. Readable(Name) /\ IsSeq(name)
  BY Texts, StringIsSeq
<1>3. IsSeq(props)
  BY PropertyListIsSeq, IsSeqEmpty DEF When
<1>4. IsSeq(strict)
  BY MeasureFixed, WireIsSeq, IsSeqEmpty DEF When, Measured
<1>5. w = Cat(uuid, Cat(name, Cat(props, strict)))
  <2>1. w = Cat(Cat(Cat(uuid, name), props), strict)
    BY DEF EncodeLoginSuccess, Cat, PropertyList
  <2> HIDE DEF uuid, name, props, strict, w
  <2> QED BY <1>1, <1>2, <1>3, <1>4, <2>1, FourParts
<1>6. IsSeq(Cat(props, strict)) /\ IsSeq(Cat(name, Cat(props, strict)))
  BY <1>2, <1>3, <1>4, CatIsSeq
<1>7. (IF v >= V1_16 THEN ReadUUID(At(w, Untaken)) ELSE ReadStringUUID(At(w, Untaken)))
        = At(Cat(name, Cat(props, strict)), g)
  <2> HIDE DEF name, props, strict, w
  <2> QED BY <1>5, <1>6, UUIDAt
<1>8. ReadString(At(Cat(name, Cat(props, strict)), g)) = At(Cat(props, strict), h)
  BY <1>2, <1>6, StringAt, FieldsAreSeq
<1>9. ReadProperties(At(Cat(props, strict), h), v) = At(strict, h)
  <2>1. CASE listed
    <3>1. props = PropertyList(list)
      BY <2>1 DEF When
    <3>2. PropertiesAfter(ReadVarInt(At(Cat(PropertyList(list), strict), h))) = At(strict, h)
      BY <1>4, PropertiesAt, FieldsAreSeq
    <3> HIDE DEF props, strict
    <3> QED BY Zenon, <2>1, <3>1, <3>2 DEF ReadProperties
  <2>2. CASE ~listed
    <3>1. props = End
      BY <2>2 DEF When, End
    <3> HIDE DEF props, strict
    <3>2. Cat(props, strict) = strict
      BY <1>4, <3>1, AtEnd
    <3> QED BY Zenon, <2>2, <3>2 DEF ReadProperties
  <2> QED BY <2>1, <2>2
<1>10. ReadStrictErrors(At(strict, h), v) = At(End, h)
  <2>1. CASE strictly
    <3>1. strict = WriteBool(TRUE)
      BY <2>1 DEF When
    <3>2. IsSeq(strict)
      BY <1>4
    <3> HIDE DEF strict
    <3>3. ReadBool(At(Cat(WriteBool(TRUE), End), h)) = At(End, Append(h, TRUE))
      BY BoolCat, AtEnd
    <3>4. Cat(WriteBool(TRUE), End) = strict
      BY <3>1, <3>2, AtEnd
    <3>5. Drop(At(End, Append(h, TRUE))) = At(End, h)
      BY FieldsAreSeq, Taken
    <3>6. Drop(ReadBool(At(strict, h))) = At(End, h)
      BY Zenon, <3>3, <3>4, <3>5
    <3> QED BY Zenon, <2>1, <3>6 DEF ReadStrictErrors
  <2>2. CASE ~strictly
    <3>1. strict = End
      BY <2>2 DEF When, End
    <3> HIDE DEF strict
    <3> QED BY Zenon, <2>2, <3>1 DEF ReadStrictErrors
  <2> QED BY <2>1, <2>2
<1> HIDE DEF uuid, name, props, strict, w, g, h
<1>11. DecodeLoginSuccess(At(w, Untaken), v) = At(End, h)
  BY Zenon, <1>7, <1>8, <1>9, <1>10 DEF DecodeLoginSuccess
<1> QED BY <1>11 DEF w, g, h

-----------------------------------------------------------------------------
(* Every packet the server sends is decoded to what it holds.              *)

\* Decode of a packet's fields, as Encode or the server writes them.
Arrives(p, v) ==
  LET r == Decode(p.type, At(ServerEncode(p, v), Untaken), v) IN r.ok /\ r.got = Kept(p)

\* A reader that goes on has failed at nothing.
LEMMA Values == \A t, g : At(t, g).ok /\ At(t, g).got = g
BY DEF At

\* The type and the fields of a packet.
LEMMA PacketParts == \A type, f : Packet(type, f).type = type /\ Packet(type, f).f = f
BY DEF Packet

\* A packet arrives when Decode takes its values from what Encode wrote.
LEMMA ArrivesAt ==
  ASSUME NEW p, NEW v, NEW t, Decode(p.type, At(ServerEncode(p, v), Untaken), v) = At(t, Kept(p))
  PROVE  Arrives(p, v)
BY Values DEF Arrives

\* The packets that hold one text arrive.
LEMMA TextArrives ==
  ASSUME NEW v, NEW text \in {Empty, Short, Long},
         NEW type \in {"ClientboundStatusResponse", "ClientboundDisconnect", "ClientboundCookieRequest"}
  PROVE  Arrives(Packet(type, <<text>>), v)
<1> DEFINE p == Packet(type, <<text>>)
           w == ServerEncode(p, v)
<1>1. p.type = type /\ p.f = <<text>> /\ <<text>>[1] = text
  BY PacketParts
<1> HIDE DEF p
<1>2. Decode(p.type, At(w, Untaken), v) = ReadString(At(w, Untaken))
  BY <1>1 DEF Decode
<1>3. w = WriteString(text)
  BY <1>1 DEF ServerEncode
<1>4. Kept(p) = <<text>>
  BY <1>1 DEF Kept
<1>5. Readable(text)
  BY Texts
<1> HIDE DEF w
<1>6. ReadString(At(w, Untaken)) = At(End, Append(Untaken, text))
  BY <1>3, <1>5, LastString, IsSeqUntaken
<1>7. Append(Untaken, text) = <<text>>
  BY Fields
<1>8. Decode(p.type, At(w, Untaken), v) = At(End, Kept(p))
  BY Zenon, <1>2, <1>4, <1>6, <1>7
<1> QED BY Zenon, <1>8, ArrivesAt DEF p, w

\* The message of ServerboundChatMessage arrives.
LEMMA ChatArrives ==
  ASSUME NEW v, NEW text \in {Empty, Short, Long}
  PROVE  Arrives(Packet("ServerboundChatMessage", <<text>>), v)
<1> DEFINE p == Packet("ServerboundChatMessage", <<text>>)
           w == ServerEncode(p, v)
           b == WriteByte(1)
<1>1. p.type = "ServerboundChatMessage" /\ p.f = <<text>> /\ <<text>>[1] = text
  BY PacketParts
<1> HIDE DEF p
<1>2. Decode(p.type, At(w, Untaken), v) = ReadString(At(w, Untaken))
  BY <1>1 DEF Decode
<1>3. w = Cat(WriteString(text), b)
  BY <1>1 DEF ServerEncode, Cat
<1>4. Kept(p) = <<text>>
  BY <1>1 DEF Kept
<1>5. Readable(text) /\ IsSeq(b)
  BY Texts, MeasureFixed, WireIsSeq DEF Measured
<1> HIDE DEF w, b
<1>6. ReadString(At(w, Untaken)) = At(b, Append(Untaken, text))
  BY <1>3, <1>5, StringAt, IsSeqUntaken
<1>7. Append(Untaken, text) = <<text>>
  BY Fields
<1>8. Decode(p.type, At(w, Untaken), v) = At(b, Kept(p))
  BY Zenon, <1>2, <1>4, <1>6, <1>7
<1> QED BY Zenon, <1>8, ArrivesAt DEF p, w

\* The packets that hold one long arrive, from 1.12.2 the keep-alive among them.
LEMMA LongArrives ==
  ASSUME NEW v, NEW i,
         NEW type \in {"ClientboundPong", "ClientboundConfigKeepAlive", "ClientboundKeepAlive"},
         type = "ClientboundKeepAlive" => v >= V1_12_2
  PROVE  Arrives(Packet(type, <<i>>), v)
<1> DEFINE p == Packet(type, <<i>>)
           w == ServerEncode(p, v)
<1>1. p.type = type /\ p.f = <<i>> /\ <<i>>[1] = i
  BY PacketParts
<1> HIDE DEF p
<1>2. Decode(p.type, At(w, Untaken), v) = ReadLong(At(w, Untaken))
  BY <1>1 DEF Decode, DecodeKeepAlive
<1>3. w = WriteLong(i)
  BY <1>1 DEF ServerEncode
<1>4. Kept(p) = <<i>>
  BY <1>1 DEF Kept
<1> HIDE DEF w
<1>5. ReadLong(At(w, Untaken)) = At(End, Append(Untaken, i))
  BY <1>3, LastAtom DEF ReadLong, WriteLong
<1>6. Append(Untaken, i) = <<i>>
  BY Fields
<1>8. Decode(p.type, At(w, Untaken), v) = At(End, Kept(p))
  BY Zenon, <1>2, <1>4, <1>5, <1>6
<1> QED BY Zenon, <1>8, ArrivesAt DEF p, w

\* ClientboundConfigPing arrives.
LEMMA IntArrives ==
  ASSUME NEW v, NEW i
  PROVE  Arrives(Packet("ClientboundConfigPing", <<i>>), v)
<1> DEFINE p == Packet("ClientboundConfigPing", <<i>>)
           w == ServerEncode(p, v)
<1>1. p.type = "ClientboundConfigPing" /\ p.f = <<i>> /\ <<i>>[1] = i
  BY PacketParts
<1> HIDE DEF p
<1>2. Decode(p.type, At(w, Untaken), v) = ReadInt(At(w, Untaken))
  BY <1>1 DEF Decode
<1>3. w = WriteInt(i)
  BY <1>1 DEF ServerEncode
<1>4. Kept(p) = <<i>>
  BY <1>1 DEF Kept
<1> HIDE DEF w
<1>5. ReadInt(At(w, Untaken)) = At(End, Append(Untaken, i))
  BY <1>3, LastAtom DEF ReadInt, WriteInt
<1>6. Append(Untaken, i) = <<i>>
  BY Fields
<1>8. Decode(p.type, At(w, Untaken), v) = At(End, Kept(p))
  BY Zenon, <1>2, <1>4, <1>5, <1>6
<1> QED BY Zenon, <1>8, ArrivesAt DEF p, w

\* The packets that hold one VarInt arrive, up to 1.12.1 the keep-alive among them.
LEMMA VarIntArrives ==
  ASSUME NEW v, NEW i \in Int32s, NEW type \in {"ClientboundSetCompression", "ClientboundKeepAlive"},
         type = "ClientboundKeepAlive" => ~(v >= V1_12_2)
  PROVE  Arrives(Packet(type, <<i>>), v)
<1> DEFINE p == Packet(type, <<i>>)
           w == ServerEncode(p, v)
<1>1. p.type = type /\ p.f = <<i>> /\ <<i>>[1] = i
  BY PacketParts
<1> HIDE DEF p
<1>2. Decode(p.type, At(w, Untaken), v) = ReadVarInt(At(w, Untaken))
  BY <1>1 DEF Decode, DecodeKeepAlive
<1>3. w = WriteVarInt(i)
  BY <1>1 DEF ServerEncode
<1>4. Kept(p) = <<i>>
  BY <1>1 DEF Kept
<1>5. Int32(i) = i /\ i \in Int
  BY Int32Identity DEF Int32s
<1> HIDE DEF w
<1>6. ReadVarInt(At(w, Untaken)) = At(End, Append(Untaken, i))
  <2>1. ReadVarInt(At(WriteVarInt(i), Untaken)) = At(End, Append(Untaken, Int32(i)))
    BY <1>5, LastVarInt
  <2> QED BY Zenon, <1>3, <1>5, <2>1
<1>7. Append(Untaken, i) = <<i>>
  BY Fields
<1>8. Decode(p.type, At(w, Untaken), v) = At(End, Kept(p))
  BY Zenon, <1>2, <1>4, <1>6, <1>7
<1> QED BY Zenon, <1>8, ArrivesAt DEF p, w

\* ClientboundLoginSuccess arrives without its properties, which Decode leaves.
LEMMA LoginSuccessArrives ==
  ASSUME NEW v, NEW list, PropertyValues(list), NEW form \in {32, 36}
  PROVE  Arrives(Packet("ClientboundLoginSuccess", <<"player", Name, list, form>>), v)
<1> DEFINE f == <<"player", Name, list, form>>
           p == Packet("ClientboundLoginSuccess", f)
           w == ServerEncode(p, v)
<1>1. p.type = "ClientboundLoginSuccess" /\ p.f = f
  BY PacketParts
<1>2. f[1] = "player" /\ f[2] = Name
  OBVIOUS
<1> HIDE DEF p
<1>3. Decode(p.type, At(w, Untaken), v) = DecodeLoginSuccess(At(w, Untaken), v)
  BY <1>1 DEF Decode
<1>4. w = EncodeLoginSuccess(f, v)
  BY <1>1 DEF ServerEncode
<1>5. Kept(p) = <<f[1], f[2]>>
  BY <1>1 DEF Kept
<1>6. DecodeLoginSuccess(At(EncodeLoginSuccess(f, v), Untaken), v) = At(End, Append(Append(Untaken, "player"), Name))
  BY Zenon, LoginSuccessRead
<1>7. Append(Append(Untaken, "player"), Name) = <<"player", Name>>
  BY Fields
<1> HIDE DEF w, f
<1>8. Decode(p.type, At(w, Untaken), v) = At(End, Kept(p))
  BY Zenon, <1>2, <1>3, <1>4, <1>5, <1>6, <1>7
<1> QED BY Zenon, <1>8, ArrivesAt DEF p, w, f

\* ClientboundSelectKnownPacks arrives.
LEMMA PacksArrive ==
  ASSUME NEW v, NEW list \in {<<>>, <<Pack, Pack>>}
  PROVE  Arrives(Packet("ClientboundSelectKnownPacks", <<list>>), v)
<1> DEFINE f == <<list>>
           p == Packet("ClientboundSelectKnownPacks", f)
           w == ServerEncode(p, v)
<1>1. p.type = "ClientboundSelectKnownPacks" /\ p.f = f
  BY PacketParts
<1> HIDE DEF p
<1>2. Decode(p.type, At(w, Untaken), v) = DecodeSelectKnownPacks(At(w, Untaken))
  BY <1>1 DEF Decode
<1>3. w = EncodeSelectKnownPacks(f)
  BY <1>1 DEF ServerEncode
<1>4. Kept(p) = f
  BY <1>1 DEF Kept
<1> HIDE DEF w
<1>5. DecodeSelectKnownPacks(At(EncodeSelectKnownPacks(<<list>>), Untaken)) = At(End, Append(Untaken, list))
  BY Zenon, KnownPacksRead
<1>6. Append(Untaken, list) = f
  BY Fields
<1>7. Decode(p.type, At(w, Untaken), v) = At(End, Kept(p))
  BY Zenon, <1>2, <1>3, <1>4, <1>5, <1>6
<1> QED BY Zenon, <1>7, ArrivesAt DEF p, w

\* ClientboundFeatureFlags arrives.
LEMMA FlagsArrive ==
  ASSUME NEW v, NEW list \in {<<>>, <<Short, Long>>}
  PROVE  Arrives(Packet("ClientboundFeatureFlags", <<list>>), v)
<1> DEFINE f == <<list>>
           p == Packet("ClientboundFeatureFlags", f)
           w == ServerEncode(p, v)
<1>1. p.type = "ClientboundFeatureFlags" /\ p.f = f
  BY PacketParts
<1> HIDE DEF p
<1>2. Decode(p.type, At(w, Untaken), v) = DecodeFeatureFlags(At(w, Untaken))
  BY <1>1 DEF Decode
<1>3. w = EncodeFeatureFlags(f)
  BY <1>1 DEF ServerEncode
<1>4. Kept(p) = f
  BY <1>1 DEF Kept
<1> HIDE DEF w
<1>5. DecodeFeatureFlags(At(EncodeFeatureFlags(<<list>>), Untaken)) = At(End, Append(Untaken, list))
  BY Zenon, FeatureFlagsRead
<1>6. Append(Untaken, list) = f
  BY Fields
<1>7. Decode(p.type, At(w, Untaken), v) = At(End, Kept(p))
  BY Zenon, <1>2, <1>3, <1>4, <1>5, <1>6
<1> QED BY Zenon, <1>7, ArrivesAt DEF p, w

\* Whatever is left of a wire can be taken as it is.
LEMMA RestAt == \A t, g : \E s : ReadRest(At(t, g)) = At(s, Append(g, t))
<1> TAKE t, g
<1>1. ReadRest(At(t, g)) = Took(At(t, g), Len(t), t)
  BY DEF ReadRest, At
<1> QED BY <1>1, TookAt

\* ClientboundJoinGame arrives, of which Decode takes nothing.
LEMMA JoinGameArrives ==
  ASSUME NEW v
  PROVE  Arrives(Packet("ClientboundJoinGame", <<>>), v)
<1> DEFINE e == Untaken
           p == Packet("ClientboundJoinGame", e)
           w == ServerEncode(p, v)
<1>1. p.type = "ClientboundJoinGame" /\ p.f = e
  BY PacketParts
<1> HIDE DEF p
<1>2. Decode(p.type, At(w, Untaken), v) = Drop(ReadRest(At(w, Untaken)))
  BY <1>1 DEF Decode
<1>3. Kept(p) = Untaken
  BY <1>1 DEF Kept
<1> HIDE DEF w
<1>4. PICK s : ReadRest(At(w, Untaken)) = At(s, Append(Untaken, w))
  BY RestAt
<1>5. Drop(At(s, Append(Untaken, w))) = At(s, Untaken)
  BY FirstTaken
<1>6. Decode(p.type, At(w, Untaken), v) = At(s, Kept(p))
  BY Zenon, <1>2, <1>3, <1>4, <1>5
<1>7. Arrives(p, v)
  BY Zenon, <1>6, ArrivesAt DEF w
<1> QED BY <1>7 DEF p, Untaken

\* ClientboundCustomPayload arrives, with what is left after the channel as its data.
LEMMA PayloadArrives ==
  ASSUME NEW v, NEW channel, Readable(channel), NEW data, IsSeq(data)
  PROVE  Arrives(Packet("ClientboundCustomPayload", <<channel, data>>), v)
<1> DEFINE f == <<channel, data>>
           p == Packet("ClientboundCustomPayload", f)
           w == ServerEncode(p, v)
           g == Append(Untaken, channel)
<1>1. p.type = "ClientboundCustomPayload" /\ p.f = f
  BY PacketParts
<1>2. f[1] = channel /\ f[2] = data
  OBVIOUS
<1>3. Append(g, data) = f
  BY Fields
<1> HIDE DEF p, f
<1>4. Decode(p.type, At(w, Untaken), v) = ReadRest(ReadString(At(w, Untaken)))
  BY <1>1 DEF Decode
<1>5. w = Cat(WriteString(channel), data)
  BY <1>1, <1>2 DEF ServerEncode, EncodeCustomPayload, Cat
<1>6. Kept(p) = f
  BY <1>1 DEF Kept
<1> HIDE DEF w
<1>7. ReadString(At(w, Untaken)) = At(data, g)
  BY <1>5, StringAt, IsSeqUntaken
<1> HIDE DEF g
<1>8. PICK s : ReadRest(At(data, g)) = At(s, Append(g, data))
  BY RestAt
<1>9. Decode(p.type, At(w, Untaken), v) = At(s, Kept(p))
  BY Zenon, <1>3, <1>4, <1>6, <1>7, <1>8
<1>10. Arrives(p, v)
  BY Zenon, <1>9, ArrivesAt DEF w
<1> QED BY <1>10 DEF p, f

\* ClientboundRegistryData arrives.
LEMMA RegistryDataArrives ==
  ASSUME NEW v
  PROVE  Arrives(Packet("ClientboundRegistryData", <<Short, Long>>), v)
<1> DEFINE f == <<Short, Long>>
           p == Packet("ClientboundRegistryData", f)
           w == ServerEncode(p, v)
           a == WriteString(Short)
           b == WriteString(Long)
           g == Append(Untaken, Short)
           h == Append(g, Long)
           r == ReadString(ReadString(At(w, Untaken)))
<1>1. p.type = "ClientboundRegistryData" /\ p.f = f
  BY PacketParts
<1>2. f[1] = Short /\ f[2] = Long
  OBVIOUS
<1>3. h = f
  BY Fields
<1> HIDE DEF p, f
<1>4. Decode(p.type, At(w, Untaken), v) = [r EXCEPT !.ok = TRUE]
  BY <1>1 DEF Decode, ReadString
<1>5. w = Cat(a, b)
  BY <1>1, <1>2 DEF ServerEncode, Cat, WriteString
<1>6. Kept(p) = f
  BY <1>1 DEF Kept
<1>7. IsSeq(b) /\ Readable(Short) /\ Readable(Long)
  BY Texts, StringIsSeq
<1> HIDE DEF w
<1>8. ReadString(At(w, Untaken)) = At(b, g)
  BY <1>5, <1>7, StringAt, IsSeqUntaken
<1>9. ReadString(At(b, g)) = At(End, h)
  BY <1>7, LastString, FieldsAreSeq
<1>10. r = At(End, h)
  BY Zenon, <1>8, <1>9
<1> HIDE DEF r, h
<1>11. [r EXCEPT !.ok = TRUE].ok /\ [r EXCEPT !.ok = TRUE].got = h
  BY <1>10 DEF At
<1> QED BY <1>3, <1>4, <1>6, <1>11 DEF Arrives, p, f, w

\* Any other packet arrives empty.
LEMMA OtherArrives ==
  ASSUME NEW v, NEW type,
         type \notin {"ClientboundStatusResponse", "ClientboundDisconnect", "ClientboundCookieRequest",
                      "ServerboundChatMessage", "ClientboundPong", "ClientboundConfigKeepAlive",
                      "ClientboundSetCompression", "ClientboundLoginSuccess", "ClientboundKeepAlive",
                      "ClientboundSelectKnownPacks", "ClientboundFeatureFlags", "ClientboundConfigPing",
                      "ClientboundJoinGame", "ClientboundCustomPayload", "ClientboundRegistryData"}
  PROVE  Arrives(Packet(type, <<>>), v)
<1> DEFINE e == Untaken
           p == Packet(type, e)
           w == ServerEncode(p, v)
<1>1. p.type = type /\ p.f = e
  BY PacketParts
<1> HIDE DEF p
<1>2. Decode(p.type, At(w, Untaken), v) = At(w, Untaken)
  BY <1>1 DEF Decode
<1>3. Kept(p) = Untaken
  BY <1>1 DEF Kept
<1> HIDE DEF w
<1>4. Decode(p.type, At(w, Untaken), v) = At(w, Kept(p))
  BY Zenon, <1>2, <1>3
<1>5. Arrives(p, v)
  BY Zenon, <1>4, ArrivesAt DEF w
<1> QED BY <1>5 DEF p, Untaken

\* What any version's Decode takes from any packet is what the packet holds: the
\* conditions on the version, the flags and the counts are those it was written by.
THEOREM Carried ==
  ASSUME NEW v, NEW type, NEW f \in Sendable(type, v)
  PROVE  Arrives(Packet(type, f), v)
<1>1. CASE type \in {"ClientboundStatusResponse", "ClientboundDisconnect", "ClientboundCookieRequest",
                     "ServerboundChatMessage"}
  <2>1. Sendable(type, v) = { <<t>> : t \in {Empty, Short, Long} }
    <3>1. CASE type = "ClientboundStatusResponse"
      BY <3>1 DEF Sendable
    <3>2. CASE type = "ClientboundDisconnect"
      BY <3>2 DEF Sendable
    <3>3. CASE type = "ClientboundCookieRequest"
      BY <3>3 DEF Sendable
    <3>4. CASE type = "ServerboundChatMessage"
      BY <3>4 DEF Sendable
    <3> QED BY <1>1, <3>1, <3>2, <3>3, <3>4
  <2>2. PICK t \in {Empty, Short, Long} : f = <<t>>
    BY <2>1
  <2>3. CASE type = "ServerboundChatMessage"
    BY Zenon, <2>2, <2>3, ChatArrives
  <2>4. CASE type # "ServerboundChatMessage"
    <3>1. Arrives(Packet(type, <<t>>), v)
      BY <1>1, <2>4, TextArrives
    <3> QED BY <2>2, <3>1
  <2> QED BY <2>3, <2>4
<1>2. CASE type \in {"ClientboundPong", "ClientboundConfigKeepAlive"}
  <2>1. Sendable(type, v) = { <<i>> : i \in LongIds }
    <3>1. CASE type = "ClientboundPong"
      BY <3>1 DEF Sendable
    <3>2. CASE type = "ClientboundConfigKeepAlive"
      BY <3>2 DEF Sendable
    <3> QED BY <1>2, <3>1, <3>2
  <2>2. PICK i \in LongIds : f = <<i>>
    BY <2>1
  <2>3. Arrives(Packet(type, <<i>>), v)
    BY <1>2, LongArrives
  <2> QED BY <2>2, <2>3
<1>3. CASE type = "ClientboundSetCompression"
  <2>1. Sendable(type, v) = { <<i>> : i \in Thresholds }
    BY <1>3 DEF Sendable
  <2>2. PICK i \in Thresholds : f = <<i>>
    BY <2>1
  <2>3. i \in Int32s
    BY CodecAssumption
  <2>4. Arrives(Packet(type, <<i>>), v)
    BY <1>3, <2>3, VarIntArrives
  <2> QED BY <2>2, <2>4
<1>4. CASE type = "ClientboundKeepAlive"
  <2>1. Sendable(type, v) = { <<i>> : i \in IF v >= V1_12_2 THEN LongIds ELSE Ids }
    BY <1>4 DEF Sendable
  <2>2. PICK i \in IF v >= V1_12_2 THEN LongIds ELSE Ids : f = <<i>>
    BY <2>1
  <2>3. CASE v >= V1_12_2
    <3>1. Arrives(Packet(type, <<i>>), v)
      BY <1>4, <2>3, LongArrives
    <3> QED BY <2>2, <3>1
  <2>4. CASE ~(v >= V1_12_2)
    <3>1. i \in Int32s
      BY <2>2, <2>4, CodecAssumption
    <3>2. Arrives(Packet(type, <<i>>), v)
      BY <1>4, <2>4, <3>1, VarIntArrives
    <3> QED BY <2>2, <3>2
  <2> QED BY <2>3, <2>4
<1>5. CASE type = "ClientboundLoginSuccess"
  <2> DEFINE lists == {<<>>, <<TRUE>>, <<FALSE, TRUE>>}
             forms == {32, 36}
  <2>1. Sendable(type, v) = { <<"player", Name, props, form>> : props \in lists, form \in forms }
    BY <1>5 DEF Sendable
  <2>2. PICK props \in lists, form \in forms : f = <<"player", Name, props, form>>
    <3> HIDE DEF lists, forms
    <3> QED BY <2>1
  <2>3. PropertyValues(props)
    <3>1. PropertyValues(<<>>) /\ PropertyValues(<<TRUE>>) /\ PropertyValues(<<FALSE, TRUE>>)
      BY DEF PropertyValues
    <3> QED BY <3>1
  <2>4. Arrives(Packet(type, <<"player", Name, props, form>>), v)
    BY <1>5, <2>3, LoginSuccessArrives
  <2> QED BY <2>2, <2>4
<1>6. CASE type = "ClientboundSelectKnownPacks"
  <2>1. Sendable(type, v) = { << <<>> >>, << <<Pack, Pack>> >> }
    BY <1>6 DEF Sendable
  <2>2. PICK list \in {<<>>, <<Pack, Pack>>} : f = <<list>>
    BY Zenon, <2>1
  <2>3. Arrives(Packet(type, <<list>>), v)
    BY <1>6, PacksArrive
  <2> QED BY <2>2, <2>3
<1>7. CASE type = "ClientboundFeatureFlags"
  <2>1. Sendable(type, v) = { << <<>> >>, << <<Short, Long>> >> }
    BY <1>7 DEF Sendable
  <2>2. PICK list \in {<<>>, <<Short, Long>>} : f = <<list>>
    BY Zenon, <2>1
  <2>3. Arrives(Packet(type, <<list>>), v)
    BY <1>7, FlagsArrive
  <2> QED BY <2>2, <2>3
<1>8. CASE type = "ClientboundConfigPing"
  <2>1. Sendable(type, v) = { <<i>> : i \in {-1, 0, 1} }
    BY <1>8 DEF Sendable
  <2>2. PICK i \in {-1, 0, 1} : f = <<i>>
    BY <2>1
  <2>3. Arrives(Packet(type, <<i>>), v)
    BY <1>8, IntArrives
  <2> QED BY <2>2, <2>3
<1>9. CASE type = "ClientboundCustomPayload"
  <2>1. Sendable(type, v) = { <<Brand, WriteString(Name)>>, <<Short, <<>> >> }
    BY <1>9 DEF Sendable
  <2>2. Readable(Brand) /\ Readable(Short) /\ IsSeq(WriteString(Name))
    BY Texts, StringIsSeq
  <2>3. Arrives(Packet(type, <<Brand, WriteString(Name)>>), v)
    BY <1>9, <2>2, PayloadArrives
  <2>4. Arrives(Packet(type, <<Short, <<>> >>), v)
    BY <1>9, <2>2, IsSeqEmpty, PayloadArrives
  <2> QED BY Zenon, <2>1, <2>3, <2>4
<1>10. CASE type = "ClientboundRegistryData"
  <2>1. Sendable(type, v) = { <<Short, Long>> }
    BY <1>10 DEF Sendable
  <2> QED BY Zenon, <1>10, <2>1, RegistryDataArrives
<1>11. CASE type = "ClientboundJoinGame"
  <2>1. Sendable(type, v) = { <<>> }
    BY <1>11 DEF Sendable
  <2> QED BY <1>11, <2>1, JoinGameArrives
<1>12. CASE type \notin {"ClientboundStatusResponse", "ClientboundDisconnect", "ClientboundCookieRequest",
                         "ServerboundChatMessage", "ClientboundPong", "ClientboundConfigKeepAlive",
                         "ClientboundSetCompression", "ClientboundLoginSuccess", "ClientboundKeepAlive",
                         "ClientboundSelectKnownPacks", "ClientboundFeatureFlags", "ClientboundConfigPing",
                         "ClientboundJoinGame", "ClientboundCustomPayload", "ClientboundRegistryData"}
  <2>1. Sendable(type, v) = { <<>> }
    <3>1. /\ type # "ClientboundStatusResponse" /\ type # "ClientboundDisconnect"
          /\ type # "ClientboundCookieRequest" /\ type # "ServerboundChatMessage"
          /\ type # "ClientboundPong" /\ type # "ClientboundConfigKeepAlive"
          /\ type # "ClientboundSetCompression" /\ type # "ClientboundLoginSuccess"
          /\ type # "ClientboundKeepAlive" /\ type # "ClientboundSelectKnownPacks"
          /\ type # "ClientboundFeatureFlags" /\ type # "ClientboundConfigPing"
          /\ type # "ClientboundCustomPayload" /\ type # "ClientboundRegistryData"
      BY <1>12
    <3> QED BY SMTT(60), <3>1 DEF Sendable
  <2>2. Arrives(Packet(type, <<>>), v)
    BY <1>12, OtherArrives
  <2> QED BY <2>1, <2>2
<1> QED BY Zenon, <1>1, <1>2, <1>3, <1>4, <1>5, <1>6, <1>7, <1>8, <1>9, <1>10, <1>11, <1>12

-----------------------------------------------------------------------------
(* No packet has too many bytes for its size to be written as a VarInt.    *)

\* With the byte of the packet's ID, still within Limit.
Small(w) == Measured(w) /\ WireSize(w) < Limit

\* Of at most n bytes.
Within(w, n) == Measured(w) /\ WireSize(w) <= n

\* Two wires, one after the other, have no more bytes than the bounds of both.
LEMMA WithinCat ==
  ASSUME NEW s, NEW t, NEW m \in Nat, NEW n \in Nat, Within(s, m), Within(t, n), NEW k \in Nat, m + n <= k
  PROVE  Within(Cat(s, t), k)
<1>1. Measured(s) /\ Measured(t) /\ WireSize(s) <= m /\ WireSize(t) <= n
  BY DEF Within
<1>2. WireSize(s) \in Nat /\ WireSize(t) \in Nat
  BY <1>1 DEF Measured
<1>3. Measured(Cat(s, t)) /\ WireSize(Cat(s, t)) = WireSize(s) + WireSize(t)
  BY <1>1, CatMeasured
<1>4. WireSize(Cat(s, t)) <= k
  BY <1>1, <1>2, <1>3
<1> QED BY <1>3, <1>4 DEF Within

\* A wire with a bound below Limit is small.
LEMMA WithinSmall ==
  ASSUME NEW w, NEW n \in Nat, Within(w, n), n < Limit
  PROVE  Small(w)
<1>1. Measured(w) /\ WireSize(w) \in Nat /\ WireSize(w) <= n /\ Limit \in Nat
  BY Limits DEF Within, Measured
<1> QED BY <1>1 DEF Small

\* The values of a fixed size have no more bytes than that.
LEMMA WithinFixed ==
  \A x : /\ Within(WriteByte(x), 1) /\ Within(WriteBool(x), 1) /\ Within(WriteUShort(x), 2)
         /\ Within(WriteInt(x), 4) /\ Within(WriteLong(x), 8) /\ Within(WriteUUID(x), 16)
<1> TAKE x
<1>1. Within(WriteByte(x), 1)
  <2>1. Measured(WriteByte(x)) /\ WireSize(WriteByte(x)) = 1
    BY Zenon, MeasureFixed
  <2> QED BY <2>1 DEF Within
<1>2. Within(WriteBool(x), 1)
  <2>1. Measured(WriteBool(x)) /\ WireSize(WriteBool(x)) = 1
    BY Zenon, MeasureFixed
  <2> QED BY <2>1 DEF Within
<1>3. Within(WriteUShort(x), 2)
  <2>1. Measured(WriteUShort(x)) /\ WireSize(WriteUShort(x)) = 2
    BY Zenon, MeasureFixed
  <2> QED BY <2>1 DEF Within
<1>4. Within(WriteInt(x), 4)
  <2>1. Measured(WriteInt(x)) /\ WireSize(WriteInt(x)) = 4
    BY Zenon, MeasureFixed
  <2> QED BY <2>1 DEF Within
<1>5. Within(WriteLong(x), 8)
  <2>1. Measured(WriteLong(x)) /\ WireSize(WriteLong(x)) = 8
    BY Zenon, MeasureFixed
  <2> QED BY <2>1 DEF Within
<1>6. Within(WriteUUID(x), 16)
  <2>1. Measured(WriteUUID(x)) /\ WireSize(WriteUUID(x)) = 16
    BY Zenon, MeasureFixed
  <2> QED BY <2>1 DEF Within
<1> QED BY Zenon, <1>1, <1>2, <1>3, <1>4, <1>5, <1>6

\* A VarInt has no more than MaxVarIntSize bytes.
LEMMA WithinVarInt == \A x \in Int : Within(WriteVarInt(x), MaxVarIntSize)
<1> TAKE x \in Int
<1>1. Measured(WriteVarInt(x)) /\ WireSize(WriteVarInt(x)) \in 0 .. MaxVarIntSize
  BY MeasureVarInt
<1> QED BY <1>1, Limits DEF Within

\* A string has no more bytes than its length and its VarInt.
LEMMA WithinString ==
  \A text : \A n \in Nat : Length(text) \in 0 .. n => Within(WriteString(text), MaxVarIntSize + n)
<1> SUFFICES ASSUME NEW text, NEW n \in Nat, Length(text) \in 0 .. n
             PROVE  Within(WriteString(text), MaxVarIntSize + n)
  OBVIOUS
<1>1. Length(text) \in Nat /\ Length(text) <= n
  OBVIOUS
<1>2. Measured(WriteString(text)) /\ WireSize(WriteString(text)) \in 0 .. MaxVarIntSize + Length(text)
  BY <1>1, MeasureString
<1>3. WireSize(WriteString(text)) <= MaxVarIntSize + n
  BY <1>1, <1>2, Limits
<1> QED BY <1>2, <1>3 DEF Within

\* Nothing has no bytes.
LEMMA WithinNothing == Within(End, 0) /\ Within(<<>>, 0)
BY MeasureNothing DEF Within, End

\* What only some versions write has no more bytes in the others.
LEMMA WithinWhen == \A c, w : \A n \in Nat : Within(w, n) => Within(When(c, w), n)
<1> SUFFICES ASSUME NEW c, NEW w, NEW n \in Nat, Within(w, n) PROVE Within(When(c, w), n)
  OBVIOUS
<1>1. CASE c
  BY <1>1 DEF When
<1>2. CASE ~c
  <2>1. When(c, w) = <<>>
    BY <1>2 DEF When
  <2>2. Measured(<<>>) /\ WireSize(<<>>) <= n
    BY MeasureNothing
  <2> QED BY <2>1, <2>2 DEF Within
<1> QED BY <1>1, <1>2

\* The texts that are sent.
LEMMA WithinTexts ==
  /\ Within(WriteString(Short), MaxVarIntSize + 1)
  /\ Within(WriteString(Name), MaxVarIntSize + 4)
  /\ Within(WriteString(Brand), MaxVarIntSize + 15)
  /\ Within(WriteString(Long), MaxVarIntSize + MaxPacketDataSize)
  /\ Within(WriteString(Empty), MaxVarIntSize + 0)
<1>1. /\ Length(Empty) \in 0 .. 0 /\ Length(Short) \in 0 .. 1 /\ Length(Name) \in 0 .. 4
      /\ Length(Brand) \in 0 .. 15
      /\ Length(Long) \in 0 .. MaxPacketDataSize /\ MaxPacketDataSize \in Nat
  BY Texts, Limits
<1>2. 0 \in Nat /\ 1 \in Nat /\ 4 \in Nat /\ 15 \in Nat
  OBVIOUS
<1> QED BY Zenon, <1>1, <1>2, WithinString

\* The bytes of a property.
LEMMA WithinProperty ==
  ASSUME NEW signed \in BOOLEAN
  PROVE  Within(WriteProperty(signed), 3 * MaxVarIntSize + 7)
<1> DEFINE M == MaxVarIntSize
           a == WriteString(Short)
           b == WriteString(Name)
           c == WriteBool(signed)
           d == When(signed, a)
<1>1. Within(a, M + 1) /\ Within(b, M + 4) /\ Within(c, 1) /\ M \in Nat
  BY WithinTexts, WithinFixed, Limits
<1>2. M + 1 \in Nat /\ M + 4 \in Nat /\ 2 * M + 5 \in Nat /\ 2 * M + 6 \in Nat /\ 3 * M + 7 \in Nat
  BY <1>1
<1>3. Within(d, M + 1)
  BY <1>1, <1>2, WithinWhen
<1>4. WriteProperty(signed) = Cat(Cat(Cat(a, b), c), d)
  BY DEF WriteProperty, Cat
<1> HIDE DEF a, b, c, d
<1>5. Within(Cat(a, b), 2 * M + 5)
  BY <1>1, <1>2, WithinCat
<1>6. Within(Cat(Cat(a, b), c), 2 * M + 6)
  BY <1>1, <1>2, <1>5, WithinCat
<1>7. Within(Cat(Cat(Cat(a, b), c), d), 3 * M + 7)
  BY <1>1, <1>2, <1>3, <1>6, WithinCat
<1> QED BY <1>4, <1>7

\* The numbers that the packets' sizes are made of.
LEMMA Numbers ==
  /\ MaxVarIntSize \in Nat /\ MaxPacketDataSize \in Nat /\ Limit \in Nat
  /\ Limit = MaxPacketDataSize + 9 * MaxVarIntSize + 64
BY Limits DEF Limit

\* The bytes of up to two properties.
LEMMA PropertyListSmall ==
  ASSUME NEW list, PropertyValues(list)
  PROVE  Within(PropertyList(list), 7 * MaxVarIntSize + 14)
<1> DEFINE M == MaxVarIntSize
           n == WriteVarInt(Len(list))
           all == Each(WriteProperty, list)
<1>1. Len(list) \in Int
  BY DEF PropertyValues
<1>2. Within(n, M) /\ M \in Nat
  BY <1>1, WithinVarInt, Limits
<1>3. 3 * M + 7 \in Nat /\ 6 * M + 14 \in Nat /\ 7 * M + 14 \in Nat
  BY <1>2
<1>4. Within(all, 6 * M + 14)
  <2>1. CASE Len(list) = 0
    <3>1. all = End
      BY <2>1, NoProperties
    <3>2. Measured(End) /\ WireSize(End) = 0
      BY MeasureNothing DEF End
    <3> HIDE DEF all
    <3> QED BY <1>3, <3>1, <3>2 DEF Within
  <2>2. CASE Len(list) = 1 /\ list[1] \in BOOLEAN
    <3> DEFINE a == WriteProperty(list[1])
    <3>1. all = Cat(End, a)
      BY <2>2, OneProperties DEF Cat
    <3>2. Within(a, 3 * M + 7) /\ Within(End, 0)
      BY <2>2, WithinProperty, WithinNothing
    <3> HIDE DEF all, a
    <3>3. Within(Cat(End, a), 6 * M + 14)
      BY <1>2, <1>3, <3>2, WithinCat
    <3> QED BY <3>1, <3>3
  <2>3. CASE Len(list) = 2 /\ list[1] \in BOOLEAN /\ list[2] \in BOOLEAN
    <3> DEFINE a == WriteProperty(list[1])
               b == WriteProperty(list[2])
    <3>1. all = Cat(Cat(End, a), b)
      BY <2>3, TwoProperties DEF Cat
    <3>2. Within(a, 3 * M + 7) /\ Within(b, 3 * M + 7) /\ Within(End, 0)
      BY <2>3, WithinProperty, WithinNothing
    <3> HIDE DEF all, a, b
    <3>3. Within(Cat(End, a), 3 * M + 7)
      BY <1>2, <1>3, <3>2, WithinCat
    <3>4. Within(Cat(Cat(End, a), b), 6 * M + 14)
      BY <1>2, <1>3, <3>2, <3>3, WithinCat
    <3> QED BY <3>1, <3>4
  <2> QED BY <2>1, <2>2, <2>3 DEF PropertyValues
<1> HIDE DEF n, all
<1>5. Within(Cat(n, all), 7 * M + 14)
  BY <1>2, <1>3, <1>4, WithinCat
<1> QED BY Zenon, <1>5 DEF PropertyList, n, all

\* ClientboundLoginSuccess is small.
LEMMA LoginSuccessSmall ==
  ASSUME NEW v, NEW list, PropertyValues(list), NEW form \in {32, 36}
  PROVE  Small(EncodeLoginSuccess(<<"player", Name, list, form>>, v))
<1> DEFINE M == MaxVarIntSize
           uuid == IF v >= V1_16 THEN WriteUUID("player") ELSE WriteString(Text("player", form))
           name == WriteString(Name)
           props == When(v >= V1_19, PropertyList(list))
           strict == When(v \in V1_20_5 .. V1_21_1, WriteBool(TRUE))
           w == EncodeLoginSuccess(<<"player", Name, list, form>>, v)
<1>1. M \in Nat /\ M + 36 \in Nat /\ M + 4 \in Nat /\ 7 * M + 14 \in Nat /\ 2 * M + 40 \in Nat
      /\ 9 * M + 54 \in Nat /\ 9 * M + 55 \in Nat /\ 9 * M + 55 < Limit
  BY Numbers
<1>2. Within(uuid, M + 36)
  <2>1. Length(Text("player", form)) \in 0 .. 36
    BY DEF Length, Text
  <2>2. Within(WriteString(Text("player", form)), M + 36)
    <3> DEFINE n == 36
    <3>1. n \in Nat /\ Length(Text("player", form)) \in 0 .. n
      BY <2>1
    <3> HIDE DEF n
    <3>2. Within(WriteString(Text("player", form)), M + n)
      BY Zenon, <3>1, WithinString
    <3> QED BY <3>2 DEF n
  <2>3. Within(WriteUUID("player"), M + 36)
    <3>1. Measured(WriteUUID("player")) /\ WireSize(WriteUUID("player")) = 16
      BY MeasureFixed
    <3> QED BY <1>1, <3>1 DEF Within
  <2> QED BY <2>2, <2>3
<1>3. Within(name, M + 4)
  BY WithinTexts
<1>4. Within(props, 7 * M + 14)
  BY <1>1, PropertyListSmall, WithinWhen
<1>5. Within(strict, 1)
  BY WithinFixed, WithinWhen
<1>6. w = Cat(Cat(Cat(uuid, name), props), strict)
  BY DEF EncodeLoginSuccess, Cat, PropertyList
<1> HIDE DEF uuid, name, props, strict, w
<1>7. Within(Cat(uuid, name), 2 * M + 40)
  BY <1>1, <1>2, <1>3, WithinCat
<1>8. Within(Cat(Cat(uuid, name), props), 9 * M + 54)
  BY <1>1, <1>4, <1>7, WithinCat
<1>9. Within(Cat(Cat(Cat(uuid, name), props), strict), 9 * M + 55)
  BY <1>1, <1>5, <1>8, WithinCat
<1>10. Small(w)
  BY <1>1, <1>6, <1>9, WithinSmall
<1> QED BY <1>10 DEF w

\* Select known packs is small, in both directions.
LEMMA KnownPacksSmall ==
  \A list \in {<<>>, <<Pack, Pack>>} : Small(EncodeSelectKnownPacks(<<list>>))
<1> TAKE list \in {<<>>, <<Pack, Pack>>}
<1> DEFINE M == MaxVarIntSize
           w == EncodeSelectKnownPacks(<<list>>)
           a == WritePack(Pack)
           all == Each(WritePack, list)
           n == WriteVarInt(Len(list))
<1>1. M \in Nat /\ M + 1 \in Nat /\ M + 4 \in Nat /\ 2 * M + 5 \in Nat /\ 3 * M + 6 \in Nat
      /\ 6 * M + 12 \in Nat /\ 7 * M + 12 \in Nat /\ 7 * M + 12 < Limit
  BY Numbers
<1>2. Within(a, 3 * M + 6)
  <2> DEFINE x == WriteString(Short)
             y == WriteString(Name)
  <2>1. a = Cat(Cat(x, y), x)
    BY DEF WritePack, Pack, Cat
  <2>2. Within(x, M + 1) /\ Within(y, M + 4)
    BY WithinTexts
  <2> HIDE DEF x, y, a
  <2>3. Within(Cat(x, y), 2 * M + 5)
    BY <1>1, <2>2, WithinCat
  <2>4. Within(Cat(Cat(x, y), x), 3 * M + 6)
    BY <1>1, <2>2, <2>3, WithinCat
  <2> QED BY <2>1, <2>4
<1>3. Len(list) \in Int
  OBVIOUS
<1>4. Within(n, M)
  BY <1>3, WithinVarInt
<1>5. Within(all, 6 * M + 12)
  <2>1. CASE list = <<>>
    <3>1. Len(list) = 0
      BY <2>1
    <3>2. all = End
      BY Zenon, <3>1, NoPacks
    <3>3. Measured(End) /\ WireSize(End) = 0
      BY MeasureNothing DEF End
    <3> HIDE DEF all
    <3> QED BY <1>1, <3>2, <3>3 DEF Within
  <2>2. CASE list = <<Pack, Pack>>
    <3>1. Len(list) = 2 /\ list[1] = Pack /\ list[2] = Pack
      BY <2>2
    <3>2. all = Cat(Cat(End, WritePack(list[1])), WritePack(list[2]))
      BY <3>1, TwoPacks DEF Cat
    <3>3. all = Cat(Cat(End, a), a)
      BY Zenon, <3>1, <3>2
    <3>4. Within(End, 0)
      BY WithinNothing
    <3> HIDE DEF all, a
    <3>5. Within(Cat(End, a), 3 * M + 6)
      BY <1>1, <1>2, <3>4, WithinCat
    <3>6. Within(Cat(Cat(End, a), a), 6 * M + 12)
      BY <1>1, <1>2, <3>5, WithinCat
    <3> QED BY <3>3, <3>6
  <2> QED BY <2>1, <2>2
<1>6. w = Cat(n, all)
  BY DEF EncodeSelectKnownPacks, Cat
<1> HIDE DEF n, all, w
<1>7. Within(Cat(n, all), 7 * M + 12)
  BY <1>1, <1>4, <1>5, WithinCat
<1>8. Small(w)
  BY <1>1, <1>6, <1>7, WithinSmall
<1> QED BY <1>8 DEF w

\* ClientboundFeatureFlags is small.
LEMMA FeatureFlagsSmall ==
  \A list \in {<<>>, <<Short, Long>>} : Small(EncodeFeatureFlags(<<list>>))
<1> TAKE list \in {<<>>, <<Short, Long>>}
<1> DEFINE M == MaxVarIntSize
           D == MaxPacketDataSize
           w == EncodeFeatureFlags(<<list>>)
           a == WriteString(Short)
           b == WriteString(Long)
           all == Each(WriteString, list)
           n == WriteVarInt(Len(list))
<1>1. M \in Nat /\ M + 1 \in Nat /\ M + D \in Nat /\ 2 * M + D + 1 \in Nat
      /\ 3 * M + D + 1 \in Nat /\ 3 * M + D + 1 < Limit /\ D \in Nat
  BY Numbers
<1>2. Within(a, M + 1) /\ Within(b, M + D)
  BY WithinTexts
<1>3. Len(list) \in Int
  OBVIOUS
<1>4. Within(n, M)
  BY <1>3, WithinVarInt
<1>5. Within(all, 2 * M + D + 1)
  <2>1. CASE list = <<>>
    <3>1. Len(list) = 0
      BY <2>1
    <3>2. all = End
      BY Zenon, <3>1, NoStrings
    <3>3. Measured(End) /\ WireSize(End) = 0
      BY MeasureNothing DEF End
    <3> HIDE DEF all
    <3> QED BY <1>1, <3>2, <3>3 DEF Within
  <2>2. CASE list = <<Short, Long>>
    <3>1. Len(list) = 2 /\ list[1] = Short /\ list[2] = Long
      BY <2>2
    <3>2. all = Cat(Cat(End, WriteString(list[1])), WriteString(list[2]))
      BY <3>1, TwoStrings DEF Cat
    <3>3. all = Cat(Cat(End, a), b)
      BY Zenon, <3>1, <3>2
    <3>4. Within(End, 0)
      BY WithinNothing
    <3> HIDE DEF all, a, b
    <3>5. Within(Cat(End, a), M + 1)
      BY <1>1, <1>2, <3>4, WithinCat
    <3>6. Within(Cat(Cat(End, a), b), 2 * M + D + 1)
      BY <1>1, <1>2, <3>5, WithinCat
    <3> QED BY <3>3, <3>6
  <2> QED BY <2>1, <2>2
<1>6. w = Cat(n, all)
  BY DEF EncodeFeatureFlags, Cat
<1> HIDE DEF n, all, w
<1>7. Within(Cat(n, all), 3 * M + D + 1)
  BY <1>1, <1>4, <1>5, WithinCat
<1>8. Small(w)
  BY <1>1, <1>6, <1>7, WithinSmall
<1> QED BY <1>8 DEF w

\* So are the packets of an int or a long.
LEMMA SmallFixed ==
  \A x : Small(WriteInt(x)) /\ Small(WriteLong(x)) /\ Small(Cat(WriteInt(x), WriteByte(0)))
<1> TAKE x
<1>1. 4 < Limit /\ 8 < Limit /\ 5 < Limit /\ 4 \in Nat /\ 8 \in Nat /\ 5 \in Nat /\ 1 \in Nat
  BY Numbers
<1>2. Within(WriteInt(x), 4) /\ Within(WriteLong(x), 8) /\ Within(WriteByte(0), 1)
  BY WithinFixed
<1>3. Within(Cat(WriteInt(x), WriteByte(0)), 5)
  BY <1>1, <1>2, WithinCat
<1> QED BY <1>1, <1>2, <1>3, WithinSmall

\* So are the packets of a VarInt.
LEMMA SmallVarInt == \A x \in Int : Small(WriteVarInt(x))
<1> TAKE x \in Int
<1>1. Within(WriteVarInt(x), MaxVarIntSize)
  BY WithinVarInt
<1>2. MaxVarIntSize \in Nat /\ MaxVarIntSize < Limit
  BY Numbers
<1> QED BY <1>1, <1>2, WithinSmall

\* The bytes of the longest text that ReadString takes.
LEMMA WithinAnyText ==
  \A text \in {Empty, Short, Long} : Within(WriteString(text), MaxVarIntSize + MaxPacketDataSize)
<1> TAKE text \in {Empty, Short, Long}
<1>1. Length(text) \in 0 .. MaxPacketDataSize /\ MaxPacketDataSize \in Nat
  BY Texts, Limits DEF Readable
<1> QED BY Zenon, <1>1, WithinString

\* The packets of one text are small.
LEMMA SmallText ==
  \A text \in {Empty, Short, Long} :
    Small(WriteString(text)) /\ Small(Cat(WriteString(text), WriteByte(1)))
<1> TAKE text \in {Empty, Short, Long}
<1> DEFINE n == MaxVarIntSize + MaxPacketDataSize
<1>1. n \in Nat /\ n + 1 \in Nat /\ n < Limit /\ n + 1 < Limit /\ 1 \in Nat
  BY Numbers
<1>2. Within(WriteString(text), n) /\ Within(WriteByte(1), 1)
  BY WithinAnyText, WithinFixed
<1> HIDE DEF n
<1>3. Within(Cat(WriteString(text), WriteByte(1)), n + 1)
  BY <1>1, <1>2, WithinCat
<1> QED BY <1>1, <1>2, <1>3, WithinSmall

\* The plugin messages and the registry data are small.
LEMMA SmallPayloads ==
  /\ Small(Cat(WriteString(Brand), WriteString(Name)))
  /\ Small(Cat(WriteString(Short), End))
  /\ Small(Cat(WriteString(Short), WriteString(Long)))
<1> DEFINE M == MaxVarIntSize
           D == MaxPacketDataSize
<1>1. M \in Nat /\ D \in Nat /\ M + 1 \in Nat /\ M + 4 \in Nat /\ M + 15 \in Nat /\ M + D \in Nat
      /\ 2 * M + 19 \in Nat /\ 2 * M + D + 1 \in Nat
      /\ 2 * M + 19 < Limit /\ 2 * M + D + 1 < Limit /\ M + 1 < Limit
  BY Numbers
<1>2. /\ Within(WriteString(Brand), M + 15) /\ Within(WriteString(Name), M + 4)
      /\ Within(WriteString(Short), M + 1) /\ Within(WriteString(Long), M + D) /\ Within(End, 0)
  BY WithinTexts, WithinNothing
<1>3. Within(Cat(WriteString(Brand), WriteString(Name)), 2 * M + 19)
  BY <1>1, <1>2, WithinCat
<1>4. Within(Cat(WriteString(Short), End), M + 1)
  BY <1>1, <1>2, WithinCat
<1>5. Within(Cat(WriteString(Short), WriteString(Long)), 2 * M + D + 1)
  BY <1>1, <1>2, WithinCat
<1> QED BY <1>1, <1>3, <1>4, <1>5, WithinSmall

\* The packets of nothing are small.
LEMMA SmallNothing == Small(<<>>)
<1>1. Measured(<<>>) /\ WireSize(<<>>) = 0 /\ Limit > 0
  BY MeasureNothing, Numbers
<1> QED BY <1>1 DEF Small

\* Every packet the server sends is small.
LEMMA RequestSmall ==
  ASSUME NEW v, NEW type, NEW f \in Sendable(type, v)
  PROVE  Small(ServerEncode(Packet(type, f), v))
<1> DEFINE p == Packet(type, f)
           w == ServerEncode(p, v)
<1>0. p.type = type /\ p.f = f
  BY PacketParts
<1> HIDE DEF p
<1>1. CASE type \in {"ClientboundStatusResponse", "ClientboundDisconnect", "ClientboundCookieRequest",
                     "ServerboundChatMessage"}
  <2>1. Sendable(type, v) = { <<t>> : t \in {Empty, Short, Long} }
    <3>1. CASE type = "ClientboundStatusResponse"
      BY <3>1 DEF Sendable
    <3>2. CASE type = "ClientboundDisconnect"
      BY <3>2 DEF Sendable
    <3>3. CASE type = "ClientboundCookieRequest"
      BY <3>3 DEF Sendable
    <3>4. CASE type = "ServerboundChatMessage"
      BY <3>4 DEF Sendable
    <3> QED BY <1>1, <3>1, <3>2, <3>3, <3>4
  <2>2. PICK t \in {Empty, Short, Long} : f = <<t>>
    BY <2>1
  <2>3. f[1] = t
    BY <2>2
  <2>4. CASE type = "ServerboundChatMessage"
    <3>1. w = Cat(WriteString(f[1]), WriteByte(1))
      BY <1>0, <2>4 DEF ServerEncode, Cat
    <3> HIDE DEF w
    <3> QED BY Zenon, <2>3, <3>1, SmallText DEF w, p
  <2>5. CASE type # "ServerboundChatMessage"
    <3>1. w = WriteString(f[1])
      BY <1>0, <1>1, <2>5 DEF ServerEncode
    <3> HIDE DEF w
    <3> QED BY Zenon, <2>3, <3>1, SmallText DEF w, p
  <2> QED BY <2>4, <2>5
<1>2. CASE type \in {"ClientboundPong", "ClientboundConfigKeepAlive"}
  <2>1. w = WriteLong(f[1])
    BY <1>0, <1>2 DEF ServerEncode
  <2> HIDE DEF w
  <2> QED BY Zenon, <2>1, SmallFixed DEF w, p
<1>3. CASE type = "ClientboundSetCompression"
  <2>1. Sendable(type, v) = { <<i>> : i \in Thresholds }
    BY <1>3 DEF Sendable
  <2>2. PICK i \in Thresholds : f = <<i>>
    BY <2>1
  <2>3. f[1] = i /\ i \in Int
    BY <2>2, CodecAssumption DEF Int32s
  <2>4. w = WriteVarInt(f[1])
    BY <1>0, <1>3 DEF ServerEncode
  <2> HIDE DEF w
  <2> QED BY Zenon, <2>3, <2>4, SmallVarInt DEF w, p
<1>4. CASE type = "ClientboundKeepAlive"
  <2>1. Sendable(type, v) = { <<i>> : i \in IF v >= V1_12_2 THEN LongIds ELSE Ids }
    BY <1>4 DEF Sendable
  <2>2. PICK i \in IF v >= V1_12_2 THEN LongIds ELSE Ids : f = <<i>>
    BY <2>1
  <2>3. CASE v >= V1_12_2
    <3>1. w = WriteLong(f[1])
      BY <1>0, <1>4, <2>3 DEF ServerEncode
    <3> HIDE DEF w
    <3> QED BY Zenon, <3>1, SmallFixed DEF w, p
  <2>4. CASE ~(v >= V1_12_2)
    <3>1. f[1] = i /\ i \in Int
      BY <2>2, <2>4, CodecAssumption DEF Int32s
    <3>2. w = WriteVarInt(f[1])
      BY <1>0, <1>4, <2>4 DEF ServerEncode
    <3> HIDE DEF w
    <3> QED BY Zenon, <3>1, <3>2, SmallVarInt DEF w, p
  <2> QED BY <2>3, <2>4
<1>5. CASE type = "ClientboundLoginSuccess"
  <2> DEFINE lists == {<<>>, <<TRUE>>, <<FALSE, TRUE>>}
             forms == {32, 36}
  <2>1. Sendable(type, v) = { <<"player", Name, props, form>> : props \in lists, form \in forms }
    BY <1>5 DEF Sendable
  <2>2. PICK props \in lists, form \in forms : f = <<"player", Name, props, form>>
    <3> HIDE DEF lists, forms
    <3> QED BY <2>1
  <2>3. PropertyValues(props)
    <3>1. PropertyValues(<<>>) /\ PropertyValues(<<TRUE>>) /\ PropertyValues(<<FALSE, TRUE>>)
      BY DEF PropertyValues
    <3> QED BY <3>1
  <2>4. Small(EncodeLoginSuccess(<<"player", Name, props, form>>, v))
    BY <2>3, LoginSuccessSmall
  <2>5. w = EncodeLoginSuccess(f, v)
    BY <1>0, <1>5 DEF ServerEncode
  <2> HIDE DEF w
  <2> QED BY Zenon, <2>2, <2>4, <2>5 DEF w, p
<1>6. CASE type = "ClientboundSelectKnownPacks"
  <2>1. Sendable(type, v) = { << <<>> >>, << <<Pack, Pack>> >> }
    BY <1>6 DEF Sendable
  <2>2. PICK list \in {<<>>, <<Pack, Pack>>} : f = <<list>>
    BY Zenon, <2>1
  <2>3. w = EncodeSelectKnownPacks(f)
    BY <1>0, <1>6 DEF ServerEncode
  <2> HIDE DEF w
  <2> QED BY Zenon, <2>2, <2>3, KnownPacksSmall DEF w, p
<1>7. CASE type = "ClientboundFeatureFlags"
  <2>1. Sendable(type, v) = { << <<>> >>, << <<Short, Long>> >> }
    BY <1>7 DEF Sendable
  <2>2. PICK list \in {<<>>, <<Short, Long>>} : f = <<list>>
    BY Zenon, <2>1
  <2>3. w = EncodeFeatureFlags(f)
    BY <1>0, <1>7 DEF ServerEncode
  <2> HIDE DEF w
  <2> QED BY Zenon, <2>2, <2>3, FeatureFlagsSmall DEF w, p
<1>8. CASE type = "ClientboundConfigPing"
  <2>1. w = WriteInt(f[1])
    BY <1>0, <1>8 DEF ServerEncode
  <2> HIDE DEF w
  <2> QED BY Zenon, <2>1, SmallFixed DEF w, p
<1>9. CASE type = "ClientboundCustomPayload"
  <2>1. Sendable(type, v) = { <<Brand, WriteString(Name)>>, <<Short, <<>> >> }
    BY <1>9 DEF Sendable
  <2>2. w = Cat(WriteString(f[1]), f[2])
    BY <1>0, <1>9 DEF ServerEncode, EncodeCustomPayload, Cat
  <2> HIDE DEF w
  <2>3. CASE f = <<Brand, WriteString(Name)>>
    <3>1. f[1] = Brand /\ f[2] = WriteString(Name)
      BY <2>3
    <3> QED BY Zenon, <2>2, <3>1, SmallPayloads DEF w, p
  <2>4. CASE f = <<Short, <<>> >>
    <3>1. f[1] = Short /\ f[2] = End
      BY <2>4 DEF End
    <3> QED BY Zenon, <2>2, <3>1, SmallPayloads DEF w, p
  <2> QED BY Zenon, <2>1, <2>3, <2>4
<1>10. CASE type = "ClientboundRegistryData"
  <2>1. Sendable(type, v) = { <<Short, Long>> }
    BY <1>10 DEF Sendable
  <2>2. f[1] = Short /\ f[2] = Long
    BY <2>1
  <2>3. w = Cat(WriteString(f[1]), WriteString(f[2]))
    BY <1>0, <1>10 DEF ServerEncode, Cat, WriteString
  <2> HIDE DEF w
  <2> QED BY Zenon, <2>2, <2>3, SmallPayloads DEF w, p
<1>11. CASE type = "ClientboundJoinGame"
  <2>1. w = Cat(WriteInt(1), WriteByte(0))
    BY <1>0, <1>11 DEF ServerEncode, Cat
  <2> HIDE DEF w
  <2> QED BY Zenon, <2>1, SmallFixed DEF w, p
<1>12. CASE type \notin {"ClientboundStatusResponse", "ClientboundDisconnect", "ClientboundCookieRequest",
                         "ServerboundChatMessage", "ClientboundPong", "ClientboundConfigKeepAlive",
                         "ClientboundSetCompression", "ClientboundLoginSuccess", "ClientboundKeepAlive",
                         "ClientboundSelectKnownPacks", "ClientboundFeatureFlags", "ClientboundConfigPing",
                         "ClientboundJoinGame", "ClientboundCustomPayload", "ClientboundRegistryData"}
  <2>1. w = <<>>
    BY <1>0, <1>12 DEF ServerEncode
  <2> HIDE DEF w
  <2> QED BY Zenon, <2>1, SmallNothing DEF w, p
<1> QED BY Zenon, <1>1, <1>2, <1>3, <1>4, <1>5, <1>6, <1>7, <1>8, <1>9, <1>10, <1>11, <1>12

-----------------------------------------------------------------------------
(* The packets the client writes.                                          *)

\* ServerboundHandshake is small.
LEMMA HandshakeSmall ==
  ASSUME NEW v \in Int, NEW next \in Int, NEW w
  PROVE  Small(EncodeHandshake(<<v, Name, 0, next>>))
<1> DEFINE M == MaxVarIntSize
           a == WriteVarInt(v)
           b == WriteString(Name)
           c == WriteUShort(0)
           d == WriteVarInt(next)
<1>1. M \in Nat /\ 2 \in Nat /\ M + 4 \in Nat /\ 2 * M + 4 \in Nat /\ 2 * M + 6 \in Nat
      /\ 3 * M + 6 \in Nat /\ 3 * M + 6 < Limit
  BY Numbers
<1>2. Within(a, M) /\ Within(b, M + 4) /\ Within(c, 2) /\ Within(d, M)
  BY WithinVarInt, WithinTexts, WithinFixed
<1>3. EncodeHandshake(<<v, Name, 0, next>>) = Cat(Cat(Cat(a, b), c), d)
  BY DEF EncodeHandshake, Cat
<1> HIDE DEF a, b, c, d
<1>4. Within(Cat(a, b), 2 * M + 4)
  BY <1>1, <1>2, WithinCat
<1>5. Within(Cat(Cat(a, b), c), 2 * M + 6)
  BY <1>1, <1>2, <1>4, WithinCat
<1>6. Within(Cat(Cat(Cat(a, b), c), d), 3 * M + 6)
  BY <1>1, <1>2, <1>5, WithinCat
<1> QED BY <1>1, <1>3, <1>6, WithinSmall

\* ServerboundLoginStart is small.
LEMMA LoginStartSmall ==
  ASSUME NEW v, NEW id
  PROVE  Small(EncodeLoginStart(<<Name, id>>, v))
<1> DEFINE M == MaxVarIntSize
           a == WriteString(Name)
           b == When(v \in V1_19 .. V1_19_2, WriteBool(FALSE))
           yes == WriteBool(TRUE)
           uuid == WriteUUID(id)
           optional == When(v >= V1_19_2 /\ id # Nil, Cat(yes, uuid))
           c == IF v >= V1_20_2 THEN uuid ELSE optional
<1>1. M \in Nat /\ 1 \in Nat /\ 16 \in Nat /\ 17 \in Nat /\ M + 4 \in Nat /\ M + 5 \in Nat
      /\ M + 22 \in Nat /\ M + 22 < Limit
  BY Numbers
<1>2. Within(a, M + 4) /\ Within(yes, 1) /\ Within(uuid, 16)
  BY WithinTexts, WithinFixed
<1>3. Within(b, 1)
  BY <1>1, WithinFixed, WithinWhen
<1>4. EncodeLoginStart(<<Name, id>>, v) = Cat(Cat(a, b), c)
  BY DEF EncodeLoginStart, Cat
<1> HIDE DEF a, b, yes, uuid
<1>5. Within(Cat(yes, uuid), 17)
  BY <1>1, <1>2, WithinCat
<1>6. Within(optional, 17)
  BY <1>1, <1>5, WithinWhen
<1>7. Within(uuid, 17)
  BY <1>2 DEF Within, Measured
<1>8. Within(c, 17)
  BY <1>6, <1>7
<1> HIDE DEF optional, c
<1>9. Within(Cat(a, b), M + 5)
  BY <1>1, <1>2, <1>3, WithinCat
<1>10. Within(Cat(Cat(a, b), c), M + 22)
  BY <1>1, <1>8, <1>9, WithinCat
<1> QED BY <1>1, <1>4, <1>10, WithinSmall

\* ServerboundClientSettings is small.
LEMMA SettingsSmall ==
  ASSUME NEW v, NEW mode \in Int, NEW colours, NEW skin, NEW hand \in Int
  PROVE  Small(EncodeClientSettings(<<Name, 5, mode, colours, skin, hand>>, v))
<1> DEFINE M == MaxVarIntSize
           a == WriteString(Name)
           b == WriteByte(5)
           c == IF v <= V1_7 THEN WriteByte(1) ELSE WriteVarInt(mode)
           d == WriteBool(colours)
           e == IF v <= V1_7 THEN Cat(WriteByte(skin % 2), WriteBool(TRUE)) ELSE WriteByte(skin)
           f == When(v >= V1_9, WriteVarInt(hand))
           g == When(v >= V1_17_1, WriteBool(FALSE))
           h == When(v >= V1_18, WriteBool(TRUE))
           i == When(v >= V1_21_3, WriteVarInt(0))
<1>1. M \in Nat /\ 1 \in Nat /\ 2 \in Nat /\ 1 + 1 <= 2 /\ M + 1 \in Nat /\ M + 4 \in Nat /\ M + 5 \in Nat
      /\ 2 * M + 6 \in Nat /\ 2 * M + 7 \in Nat /\ 2 * M + 9 \in Nat /\ 3 * M + 9 \in Nat
      /\ 3 * M + 10 \in Nat /\ 3 * M + 11 \in Nat /\ 4 * M + 11 \in Nat /\ 4 * M + 11 < Limit
  BY Numbers
<1>2. Within(a, M + 4) /\ Within(b, 1) /\ Within(d, 1)
  BY WithinTexts, WithinFixed
<1>3. Within(c, M + 1)
  <2>1. Within(WriteByte(1), 1) /\ Within(WriteVarInt(mode), M)
    BY WithinFixed, WithinVarInt
  <2>2. Within(WriteByte(1), M + 1) /\ Within(WriteVarInt(mode), M + 1)
    BY <1>1, <2>1 DEF Within, Measured
  <2> QED BY <2>2
<1>4. Within(e, 2)
  <2>1. Within(WriteByte(skin % 2), 1) /\ Within(WriteBool(TRUE), 1) /\ Within(WriteByte(skin), 1)
    BY WithinFixed
  <2>2. Within(Cat(WriteByte(skin % 2), WriteBool(TRUE)), 2)
    BY <1>1, <2>1, WithinCat
  <2>3. Within(WriteByte(skin), 2)
    BY <2>1 DEF Within, Measured
  <2> QED BY <2>2, <2>3
<1>5. Within(f, M) /\ Within(i, M)
  <2>1. Within(WriteVarInt(hand), M) /\ Within(WriteVarInt(0), M)
    BY WithinVarInt
  <2> QED BY <1>1, <2>1, WithinWhen
<1>6. Within(g, 1) /\ Within(h, 1)
  BY <1>1, WithinFixed, WithinWhen
<1>7. EncodeClientSettings(<<Name, 5, mode, colours, skin, hand>>, v) =
        Cat(Cat(Cat(Cat(Cat(Cat(Cat(Cat(a, b), c), d), e), f), g), h), i)
  BY DEF EncodeClientSettings, Cat
<1> HIDE DEF a, b, c, d, e, f, g, h, i
<1> DEFINE ab == Cat(a, b)
           abc == Cat(ab, c)
           abcd == Cat(abc, d)
           abcde == Cat(abcd, e)
           abcdef == Cat(abcde, f)
           abcdefg == Cat(abcdef, g)
           abcdefgh == Cat(abcdefg, h)
<1>8. Within(ab, M + 5)
  BY <1>1, <1>2, WithinCat
<1> HIDE DEF ab
<1>9. Within(abc, 2 * M + 6)
  BY <1>1, <1>3, <1>8, WithinCat
<1> HIDE DEF abc
<1>10. Within(abcd, 2 * M + 7)
  BY <1>1, <1>2, <1>9, WithinCat
<1> HIDE DEF abcd
<1>11. Within(abcde, 2 * M + 9)
  BY <1>1, <1>4, <1>10, WithinCat
<1> HIDE DEF abcde
<1>12. Within(abcdef, 3 * M + 9)
  BY <1>1, <1>5, <1>11, WithinCat
<1> HIDE DEF abcdef
<1>13. Within(abcdefg, 3 * M + 10)
  BY <1>1, <1>6, <1>12, WithinCat
<1> HIDE DEF abcdefg
<1>14. Within(abcdefgh, 3 * M + 11)
  BY <1>1, <1>6, <1>13, WithinCat
<1> HIDE DEF abcdefgh
<1>15. Within(Cat(abcdefgh, i), 4 * M + 11)
  BY <1>1, <1>5, <1>14, WithinCat
<1>16. Small(Cat(abcdefgh, i))
  BY <1>1, <1>15, WithinSmall
<1> QED BY <1>7, <1>16 DEF ab, abc, abcd, abcde, abcdef, abcdefg, abcdefgh

\* The keep-alives the client writes are small.
LEMMA KeepAliveSmall ==
  ASSUME NEW v, NEW i \in Int
  PROVE  Small(EncodeKeepAlive(<<i>>, v))
<1>1. CASE v >= V1_12_2
  <2>1. EncodeKeepAlive(<<i>>, v) = WriteLong(i)
    BY <1>1 DEF EncodeKeepAlive
  <2> QED BY <2>1, SmallFixed
<1>2. CASE ~(v >= V1_12_2)
  <2>1. EncodeKeepAlive(<<i>>, v) = WriteVarInt(Int32(i))
    BY <1>2 DEF EncodeKeepAlive
  <2>2. Int32(i) \in Int
    BY Sizes DEF Int32
  <2> QED BY <2>1, <2>2, SmallVarInt
<1> QED BY <1>1, <1>2

\* ServerboundCookieResponse is small.
LEMMA CookieSmall ==
  ASSUME NEW key \in {Empty, Short, Long}
  PROVE  Small(EncodeCookieResponse(<<key, FALSE, Empty>>))
<1> DEFINE n == MaxVarIntSize + MaxPacketDataSize
           a == WriteString(key)
           b == WriteBool(FALSE)
           c == When(FALSE, WriteByteSlice(Empty))
<1>1. n \in Nat /\ n + 1 \in Nat /\ n + 1 < Limit /\ 1 \in Nat /\ 0 \in Nat
  BY Numbers
<1>2. Within(a, n) /\ Within(b, 1)
  BY WithinAnyText, WithinFixed
<1>3. Within(c, 0)
  <2>1. c = <<>>
    BY DEF When
  <2> QED BY <2>1, WithinNothing
<1>4. EncodeCookieResponse(<<key, FALSE, Empty>>) = Cat(Cat(a, b), c)
  BY DEF EncodeCookieResponse, Cat
<1> HIDE DEF a, b, c, n
<1>5. Within(Cat(a, b), n + 1)
  BY <1>1, <1>2, WithinCat
<1>6. Within(Cat(Cat(a, b), c), n + 1)
  BY <1>1, <1>3, <1>5, WithinCat
<1> QED BY <1>1, <1>4, <1>6, WithinSmall

\* A signature has SignatureSize bytes or twice as many.
LEMMA SignatureLength ==
  ASSUME NEW f, NEW v
  PROVE  Length(Signature(f, v)) \in 0 .. 32
<1>1. SignatureSize = 16
  BY DEF SignatureSize
<1>2. CASE v >= V1_19_3
  BY <1>1, <1>2 DEF Signature, Length, Text
<1>3. CASE ~(v >= V1_19_3)
  BY <1>1, <1>3 DEF Signature, Length, Text
<1> QED BY <1>2, <1>3

\* What follows a chat message since 1.19.3, and what did before.
SignedOrNot(f, v) ==
  IF f[2] # "none" THEN Cat(WriteBool(TRUE), << <<"signature", Signature(f, v)>> >>) ELSE WriteBool(FALSE)

\* The end of a chat message from 1.19.3 on: the signature and the messages seen.
LastSeen(f, v) ==
  Cat(Cat(Cat(Cat(Cat(SignedOrNot(f, v), WriteVarInt(0)), WriteByte(0)), WriteByte(0)), WriteByte(0)),
      When(v >= V1_21_5, WriteByte(0)))

\* The end of a chat message in 1.19 to 1.19.2: the signature and the preview.
Previewed(f, v) ==
  Cat(Cat(IF f[2] # "none" THEN WriteByteSlice(Signature(f, v)) ELSE WriteByteSlice(Empty), WriteBool(FALSE)),
      When(v >= V1_19_2, Cat(WriteVarInt(0), WriteBool(FALSE))))

\* The bytes of the one end.
LEMMA LastSeenSmall ==
  ASSUME NEW f, NEW v
  PROVE  Within(LastSeen(f, v), 2 * MaxVarIntSize + 40)
<1> DEFINE M == MaxVarIntSize
           a == SignedOrNot(f, v)
           b == WriteVarInt(0)
           c == WriteByte(0)
           d == When(v >= V1_21_5, c)
<1>1. M \in Nat /\ 1 \in Nat /\ 32 \in Nat /\ 33 \in Nat /\ M + 33 \in Nat /\ M + 34 \in Nat
      /\ M + 35 \in Nat /\ M + 36 \in Nat /\ 2 * M + 40 \in Nat
  BY Numbers
<1>2. Within(a, 33)
  <2> DEFINE s == <<"signature", Signature(f, v)>>
             x == << s >>
             yes == WriteBool(TRUE)
             no == WriteBool(FALSE)
  <2>1. AtomSize(s) = Length(Signature(f, v))
    BY DEF AtomSize
  <2>2. AtomSize(s) \in Nat /\ AtomSize(s) <= 32
    BY <2>1, SignatureLength
  <2>3. Within(x, 32)
    <3> HIDE DEF s
    <3> QED BY <2>2, MeasureAtom DEF Within
  <2>4. Within(yes, 1) /\ Within(no, 1)
    BY Zenon, WithinFixed
  <2> HIDE DEF x, yes, no
  <2>5. Within(Cat(yes, x), 33)
    BY <1>1, <2>3, <2>4, WithinCat
  <2>6. Within(no, 33)
    BY <2>4 DEF Within, Measured
  <2>7. a = IF f[2] # "none" THEN Cat(yes, x) ELSE no
    BY DEF SignedOrNot, x, yes, no
  <2> HIDE DEF a
  <2> QED BY <2>5, <2>6, <2>7
<1>3. Within(b, M) /\ Within(c, 1)
  BY WithinVarInt, WithinFixed
<1>4. Within(d, 1)
  BY <1>1, <1>3, WithinWhen
<1>5. LastSeen(f, v) = Cat(Cat(Cat(Cat(Cat(a, b), c), c), c), d)
  BY DEF LastSeen
<1> HIDE DEF a, b, c, d
<1> DEFINE ab == Cat(a, b)
           abc == Cat(ab, c)
           abcc == Cat(abc, c)
           abccc == Cat(abcc, c)
<1>6. Within(ab, M + 33)
  BY <1>1, <1>2, <1>3, WithinCat
<1> HIDE DEF ab
<1>7. Within(abc, M + 34)
  BY <1>1, <1>3, <1>6, WithinCat
<1> HIDE DEF abc
<1>8. Within(abcc, M + 35)
  BY <1>1, <1>3, <1>7, WithinCat
<1> HIDE DEF abcc
<1>9. Within(abccc, M + 36)
  BY <1>1, <1>3, <1>8, WithinCat
<1> HIDE DEF abccc
<1>10. Within(Cat(abccc, d), 2 * M + 40)
  BY <1>1, <1>4, <1>9, WithinCat
<1> QED BY <1>5, <1>10 DEF ab, abc, abcc, abccc

\* The bytes of the other end.
LEMMA PreviewedSmall ==
  ASSUME NEW f, NEW v
  PROVE  Within(Previewed(f, v), 2 * MaxVarIntSize + 40)
<1> DEFINE M == MaxVarIntSize
           a == IF f[2] # "none" THEN WriteByteSlice(Signature(f, v)) ELSE WriteByteSlice(Empty)
           b == WriteBool(FALSE)
           n == WriteVarInt(0)
           c == When(v >= V1_19_2, Cat(n, b))
<1>1. M \in Nat /\ 1 \in Nat /\ 32 \in Nat /\ M + 1 \in Nat /\ M + 32 \in Nat /\ M + 33 \in Nat
      /\ 2 * M + 40 \in Nat
  BY Numbers
<1>2. Within(a, M + 32)
  <2> DEFINE m == 32
  <2>1. m \in Nat /\ Length(Signature(f, v)) \in 0 .. m /\ Length(Empty) \in 0 .. m
    BY SignatureLength, Texts
  <2> HIDE DEF m
  <2>2. Within(WriteString(Signature(f, v)), M + m) /\ Within(WriteString(Empty), M + m)
    BY Zenon, <2>1, WithinString
  <2> QED BY <2>2 DEF WriteString, m
<1>3. Within(b, 1) /\ Within(n, M)
  <2>1. Within(n, M)
    BY WithinVarInt
  <2>2. Within(b, 1)
    BY Zenon, WithinFixed
  <2> QED BY <2>1, <2>2
<1>4. Previewed(f, v) = Cat(Cat(a, b), c)
  BY DEF Previewed
<1> HIDE DEF a, b, n
<1>5. Within(Cat(n, b), M + 1)
  BY <1>1, <1>3, WithinCat
<1>6. Within(c, M + 1)
  BY <1>1, <1>5, WithinWhen
<1> HIDE DEF c
<1>7. Within(Cat(a, b), M + 33)
  BY <1>1, <1>2, <1>3, WithinCat
<1>8. Within(Cat(Cat(a, b), c), 2 * M + 40)
  BY <1>1, <1>6, <1>7, WithinCat
<1> QED BY <1>4, <1>8

\* ServerboundChatMessage is small, in the layout of each version.
LEMMA ChatSmall ==
  ASSUME NEW v, NEW f, f[1] \in {Empty, Short}
  PROVE  Small(EncodeChatMessage(f, v))
<1> DEFINE M == MaxVarIntSize
           a == WriteString(f[1])
           b == WriteLong(f[4])
           c == WriteLong(f[5])
           rest == IF v >= V1_19_3 THEN LastSeen(f, v) ELSE Previewed(f, v)
           w == EncodeChatMessage(f, v)
<1>1. M \in Nat /\ 1 \in Nat /\ 8 \in Nat /\ M + 1 \in Nat /\ M + 9 \in Nat /\ M + 17 \in Nat
      /\ 2 * M + 40 \in Nat /\ 3 * M + 57 \in Nat /\ 3 * M + 57 < Limit /\ M + 1 < Limit
  BY Numbers
<1>2. Within(a, M + 1) /\ Within(b, 8) /\ Within(c, 8)
  <2>1. Within(WriteString(Short), M + 1) /\ Within(WriteString(Empty), M + 0)
    BY WithinTexts
  <2>2. Within(WriteString(Empty), M + 1)
    BY <1>1, <2>1 DEF Within, Measured
  <2>3. Within(a, M + 1)
    BY <2>1, <2>2
  <2> QED BY <2>3, WithinFixed
<1>3. CASE v < V1_19
  <2>1. w = a
    BY <1>3 DEF EncodeChatMessage
  <2> HIDE DEF a, w
  <2>2. Small(w)
    BY <1>1, <1>2, <2>1, WithinSmall
  <2> QED BY <2>2 DEF w
<1>4. CASE ~(v < V1_19)
  <2>1. w = Cat(Cat(Cat(a, b), c), rest)
    BY <1>4 DEF EncodeChatMessage, Cat, LastSeen, Previewed, SignedOrNot
  <2>2. Within(rest, 2 * M + 40)
    BY LastSeenSmall, PreviewedSmall
  <2> HIDE DEF a, b, c, rest, w
  <2>3. Within(Cat(a, b), M + 9)
    BY <1>1, <1>2, WithinCat
  <2>4. Within(Cat(Cat(a, b), c), M + 17)
    BY <1>1, <1>2, <2>3, WithinCat
  <2>5. Within(Cat(Cat(Cat(a, b), c), rest), 3 * M + 57)
    BY <1>1, <2>2, <2>4, WithinCat
  <2>6. Small(w)
    BY <1>1, <2>1, <2>5, WithinSmall
  <2> QED BY <2>6 DEF w
<1> QED BY <1>3, <1>4

-----------------------------------------------------------------------------
(* Frames.                                                                 *)

\* What ReadPacket and WritePacket make of a packet: its ID, and its fields.
Wired(type, w) == Cat(<< <<"id", type>> >>, w)

\* A small packet has a size that a VarInt carries, with its ID in front.
LEMMA WiredSize ==
  ASSUME NEW type, NEW w, Small(w)
  PROVE  IsWire(Wired(type, w)) /\ WireSize(Wired(type, w)) \in 1 .. IntSize - 1
<1> DEFINE a == << <<"id", type>> >>
<1>1. Measured(a) /\ WireSize(a) = 1
  <2>1. AtomSize(<<"id", type>>) = 1
    BY DEF AtomSize
  <2> QED BY <2>1, MeasureAtom
<1> HIDE DEF a
<1>2. Measured(w) /\ WireSize(w) \in Nat /\ WireSize(w) < Limit
  BY DEF Small, Measured
<1>3. Measured(Cat(a, w)) /\ WireSize(Cat(a, w)) = 1 + WireSize(w)
  BY <1>1, <1>2, CatMeasured
<1>4. WireSize(Cat(a, w)) \in 1 .. IntSize - 1
  BY <1>2, <1>3, Limits
<1> QED BY <1>3, <1>4 DEF Measured, Wired, a

\* No VarInt is read from nothing.
LEMMA NothingToRead == ~ReadVarInt(Reader(<<>>)).ok
<1> DEFINE r == Reader(<<>>)
<1>1. r.rest = <<>>
  BY DEF Reader
<1>2. VarIntEnds(<<>>) = {}
  BY Sizes DEF VarIntEnds
<1> HIDE DEF r
<1>3. ReadVarInt(r) = Failed(r)
  BY <1>1, <1>2 DEF ReadVarInt
<1>4. ~Failed(r).ok
  BY DEF Failed, Reader, r
<1> QED BY <1>3, <1>4 DEF r

\* A small packet is framed and read back, compressed or not.
LEMMA WiredFrame ==
  ASSUME NEW t \in Int, NEW type, NEW w, Small(w)
  PROVE  /\ Framed(t, Payload(t, Wired(type, w)), Wired(type, w))
         /\ Unframed(t, Payload(t, Wired(type, w))) = Wired(type, w)
         /\ Payload(t, Wired(type, w)) # <<>>
         /\ Tail(Wired(type, w)) = w
<1> DEFINE data == Wired(type, w)
           frm == Payload(t, data)
<1>1. IsWire(data) /\ WireSize(data) \in 1 .. IntSize - 1
  BY WiredSize
<1>2. IsSeq(w)
  BY WireIsSeq DEF Small, Measured
<1>3. data # <<>> /\ Tail(data) = w
  BY <1>2, FirstAtom DEF Wired, Cat
<1> HIDE DEF data
<1>4. Framed(t, frm, data) /\ Unframed(t, frm) = data
  BY <1>1, FrameRead
<1> HIDE DEF frm
<1>5. frm # <<>>
  BY <1>3, <1>4, NothingToRead DEF Framed
<1> QED BY <1>3, <1>4, <1>5 DEF data, frm

\* ReadPacket takes the ID and decodes what follows.
LEMMA IDTaken ==
  ASSUME NEW type, NEW w, Small(w)
  PROVE  LET id == ReadAtom(Reader(Wired(type, w)), "id") IN
         id.ok /\ Last(id) = type /\ Drop(id) = At(w, Untaken)
<1>1. IsSeq(w)
  BY WireIsSeq DEF Small, Measured
<1>2. ReadAtom(At(Wired(type, w), Untaken), "id") = At(w, Append(Untaken, type))
  BY <1>1, AtomCat DEF Wired
<1>3. ReadAtom(Reader(Wired(type, w)), "id") = At(w, Append(Untaken, type))
  BY Zenon, <1>2, ReaderAt
<1>4. At(w, Append(Untaken, type)).ok
  BY Values
<1> QED BY Zenon, <1>3, <1>4, FirstTaken

\* Data finds in the frame what the frame was made of.
LEMMA DataFound ==
  ASSUME NEW data, data # <<>>, Framed(threshold, payload, data)
  PROVE  Data.wire = data
<1> DEFINE r == ReadVarInt(Reader(payload))
<1>1. CASE Compresses(threshold)
  <2>1. r.ok
    BY <1>1 DEF Framed
  <2>2. CASE Last(r) = 0 /\ r.rest = data
    <3>1. Data.wire = r.rest
      <4> HIDE DEF r
      <4>1. Uncompressed(r) = [plain |-> TRUE, wire |-> r.rest]
        BY <2>1, <2>2 DEF Uncompressed
      <4>2. Data = Uncompressed(r)
        BY <1>1 DEF Data, r
      <4> QED BY <4>1, <4>2
    <3> QED BY <2>2, <3>1
  <2>3. CASE Last(r) # 0 /\ IsNext(r, "zlib") /\ Head(r.rest)[2] = data
    <3> HIDE DEF r
    <3>1. Uncompressed(r) = [plain |-> FALSE, wire |-> Head(r.rest)[2]]
      BY <2>1, <2>3 DEF Uncompressed, Inflated
    <3>2. Data = Uncompressed(r)
      BY <1>1 DEF Data, r
    <3> QED BY <2>3, <3>1, <3>2
  <2> QED BY <1>1, <2>2, <2>3 DEF Framed
<1>2. CASE ~Compresses(threshold)
  BY <1>2 DEF Framed, Data
<1> QED BY <1>1, <1>2

-----------------------------------------------------------------------------
(* The invariant.                                                          *)

\* The ranges of the variables that the proof uses.
CodecTypes ==
  /\ version \in Versions
  /\ uniqueId \in UUIDs
  /\ state \in States
  /\ threshold \in Int

\* A packet on its way to the client is one that the state has, framed by the
\* threshold that the client reads it by, whatever threshold it announces.
Underway ==
  /\ \E f \in Sendable(request.type, version) : request = Packet(request.type, f)
  /\ \E row \in Registered(version, state, "Clientbound") : row[2] = request.type
  /\ payload = Payload(threshold, Wired(request.type, ServerEncode(request, version)))
  /\ serverThreshold = IF request.type = "ClientboundSetCompression" THEN request.f[1] ELSE threshold
  /\ written = NoPacket

\* Between packets both sides frame by the same threshold.
Agreed ==
  /\ payload # <<>> => Underway
  /\ payload = <<>> => serverThreshold = threshold
  /\ request = NoPacket => payload = <<>>
  /\ written = NoPacket => frame = <<>>

\* The inductive invariant: what the run checks, and what it depends on.
CodecInv ==
  /\ CodecTypes
  /\ Agreed
  /\ Understood
  /\ FrameReadable
  /\ EchoExact

\* No packet has a type of its own.
LEMMA NoPacketParts == NoPacket.type = "none" /\ NoPacket.f = <<>>
BY DEF NoPacket, Packet

\* Nothing has been sent, and both sides start without compression.
LEMMA CodecInit == ASSUME Init PROVE CodecInv
<1>1. CodecTypes
  BY CodecAssumption DEF Init, CodecTypes, States
<1>2. Agreed
  BY DEF Init, Agreed
<1>3. Understood /\ FrameReadable /\ EchoExact
  BY NoPacketParts DEF Init, Understood, FrameReadable, EchoExact
<1> QED BY <1>1, <1>2, <1>3 DEF CodecInv

\* The types that each state has for the client.
LEMMA RowTypes ==
  ASSUME NEW v \in Int, NEW row
  PROVE  /\ row \notin Registered(v, "Handshaking", "Clientbound")
         /\ row \in Registered(v, "Status", "Clientbound") =>
              row[2] \in {"ClientboundStatusResponse", "ClientboundPong"}
         /\ row \in Registered(v, "Login", "Clientbound") =>
              row[2] \in {"ClientboundDisconnect", "ClientboundLoginSuccess", "ClientboundSetCompression",
                          "ClientboundCookieRequest"}
         /\ row \in Registered(v, "Configuration", "Clientbound") =>
              /\ row[2] \in {"ClientboundCustomPayload", "ClientboundDisconnect", "ClientboundFinishConfiguration",
                             "ClientboundConfigKeepAlive", "ClientboundConfigPing", "ClientboundRegistryData",
                             "ClientboundFeatureFlags", "ClientboundCookieRequest", "ClientboundSelectKnownPacks"}
              /\ v >= V1_20_2
         /\ row \in Registered(v, "Play", "Clientbound") =>
              row[2] \in {"ClientboundJoinGame", "ClientboundKeepAlive", "ClientboundCustomPayload",
                          "ClientboundDisconnect", "ServerboundChatMessage", "ClientboundPong",
                          "ClientboundFeatureFlags", "ClientboundCookieRequest"}
<1>1. row \notin Registered(v, "Handshaking", "Clientbound")
  BY DEF Registered
<1>2. row \in Registered(v, "Status", "Clientbound") =>
        row[2] \in {"ClientboundStatusResponse", "ClientboundPong"}
  BY DEF Registered, StatusClientbound
<1>3. row \in Registered(v, "Login", "Clientbound") =>
        row[2] \in {"ClientboundDisconnect", "ClientboundLoginSuccess", "ClientboundSetCompression",
                    "ClientboundCookieRequest"}
  BY DEF Registered, LoginClientbound, Since
<1>4. row \in Registered(v, "Configuration", "Clientbound") =>
        /\ row[2] \in {"ClientboundCustomPayload", "ClientboundDisconnect", "ClientboundFinishConfiguration",
                       "ClientboundConfigKeepAlive", "ClientboundConfigPing", "ClientboundRegistryData",
                       "ClientboundFeatureFlags", "ClientboundCookieRequest", "ClientboundSelectKnownPacks"}
        /\ v >= V1_20_2
  BY DEF Registered, ConfigurationClientbound, Since, V1_20_2, V1_20_5
<1>5. row \in Registered(v, "Play", "Clientbound") =>
        row[2] \in {"ClientboundJoinGame", "ClientboundKeepAlive", "ClientboundCustomPayload",
                    "ClientboundDisconnect", "ServerboundChatMessage", "ClientboundPong",
                    "ClientboundFeatureFlags", "ClientboundCookieRequest"}
  BY DEF Registered, PlayClientbound, Since, Before
<1> QED BY Zenon, <1>1, <1>2, <1>3, <1>4, <1>5

\* What WritePacket writes, a peer that frames by the same threshold reads.
LEMMA Wrote ==
  ASSUME CodecInv, NEW p, NEW s, Write(p, s), p # NoPacket, Small(Encode(p, version)),
         payload = <<>> \/ serverThreshold = threshold,
         UNCHANGED <<version, serverThreshold>>
  PROVE  /\ FrameReadable'
         /\ written' = NoPacket => frame' = <<>>
         /\ written' = p \/ written' = written
<1>1. serverThreshold = threshold /\ threshold \in Int
  BY DEF CodecInv, Agreed, CodecTypes
<1>2. CASE HasPacketID(version, s, "Serverbound", p.type)
  <2>1. written' = p /\ frame' = Payload(threshold, Wired(p.type, Encode(p, version)))
    BY <1>2 DEF Write, Wired, Cat
  <2>2. Unframed(threshold, Payload(threshold, Wired(p.type, Encode(p, version))))
          = Wired(p.type, Encode(p, version))
    BY <1>1, WiredFrame
  <2>3. Unframed(serverThreshold', frame') = Wired(written'.type, Encode(written', version'))
    BY Zenon, <1>1, <2>1, <2>2
  <2>4. FrameReadable'
    BY Zenon, <2>3 DEF FrameReadable, Wired, Cat
  <2> QED BY Zenon, <2>1, <2>4
<1>3. CASE ~HasPacketID(version, s, "Serverbound", p.type)
  <2>1. UNCHANGED <<written, frame>>
    BY <1>3 DEF Write
  <2>2. FrameReadable'
    BY <2>1 DEF CodecInv, FrameReadable
  <2> QED BY <2>1, <2>2 DEF CodecInv, Agreed
<1> QED BY <1>2, <1>3

\* A call of a method of the client.
LEMMA Called ==
  ASSUME CodecInv, NEW p, Calls(p), p # NoPacket, Small(Encode(p, version)),
         state' \in States
  PROVE  CodecInv'
<1>1. request = NoPacket /\ written = NoPacket /\ payload = <<>>
  BY DEF Calls, Quiet, CodecInv, Agreed
<1>2. Write(p, state) /\ UNCHANGED <<version, uniqueId, privateKey, threshold, serverThreshold, request, payload, got>>
  BY DEF Calls, clientVars, readVars
<1>3. FrameReadable' /\ (written' = NoPacket => frame' = <<>>) /\ (written' = p \/ written' = NoPacket)
  <2>1. UNCHANGED <<version, serverThreshold>>
    BY <1>2
  <2>2. /\ FrameReadable'
        /\ written' = NoPacket => frame' = <<>>
        /\ written' = p \/ written' = written
    BY <1>1, <1>2, <2>1, Wrote
  <2> QED BY Zenon, <1>1, <2>2
<1>4. CodecTypes'
  BY <1>2 DEF CodecInv, CodecTypes
<1>5. Agreed'
  BY <1>1, <1>2, <1>3 DEF CodecInv, Agreed
<1>6. Understood' /\ EchoExact'
  BY <1>1, <1>2, NoPacketParts DEF Understood, EchoExact
<1> QED BY <1>3, <1>4, <1>5, <1>6 DEF CodecInv

\* A packet that was made is not NoPacket.
LEMMA SomePacket ==
  ASSUME NEW type, type # "none", NEW f
  PROVE  Packet(type, f) # NoPacket
BY PacketParts, NoPacketParts

\* The versions are numbers.
LEMMA VersionIsInt == \A v \in Versions : v \in Int
BY DEF Versions, First, Latest, V1_7, V1_21_11

\* SendHandshake writes a small packet in the state it is called in.
LEMMA AfterHandshake == ASSUME CodecInv, SendHandshake PROVE CodecInv'
<1>1. PICK next \in {<<1, "Status">>, <<2, "Login">>} :
        /\ Calls(Packet("ServerboundHandshake", <<version, Name, 0, next[1]>>))
        /\ state' = next[2]
  BY DEF SendHandshake
<1> DEFINE f == <<version, Name, 0, next[1]>>
           p == Packet("ServerboundHandshake", f)
<1>2. p.type = "ServerboundHandshake" /\ p.f = f /\ p # NoPacket
  BY PacketParts, SomePacket
<1>3. version \in Int /\ next[1] \in Int
  BY <1>1, VersionIsInt DEF CodecInv, CodecTypes
<1>4. Small(EncodeHandshake(f))
  BY <1>3, HandshakeSmall
<1>5. state' \in {"Status", "Login"}
  BY <1>1
<1> HIDE DEF p, f
<1>6. Small(Encode(p, version))
  <2>1. Encode(p, version) = EncodeHandshake(f)
    BY <1>2 DEF Encode
  <2> QED BY <1>4, <2>1
<1>7. Calls(p)
  BY <1>1 DEF p, f
<1> QED BY <1>2, <1>5, <1>6, <1>7, Called DEF States

\* SendLogin writes a small packet.
LEMMA AfterLogin == ASSUME CodecInv, SendLogin PROVE CodecInv'
<1> DEFINE f == <<Name, LoginUUID(version, uniqueId)>>
           p == Packet("ServerboundLoginStart", f)
<1>1. p.type = "ServerboundLoginStart" /\ p.f = f /\ p # NoPacket
  BY PacketParts, SomePacket
<1>2. Small(EncodeLoginStart(f, version))
  BY LoginStartSmall
<1>3. Calls(p)
  BY DEF SendLogin, LoginPacket
<1>4. state' = "Login"
  BY DEF SendLogin
<1> HIDE DEF p, f
<1>5. Small(Encode(p, version))
  <2>1. Encode(p, version) = EncodeLoginStart(f, version)
    BY <1>1 DEF Encode
  <2> QED BY <1>2, <2>1
<1> QED BY <1>1, <1>3, <1>4, <1>5, Called DEF States

\* SendPing writes a small packet.
LEMMA AfterPing == ASSUME CodecInv, SendPing PROVE CodecInv'
<1>1. PICK time \in LongIds : Calls(Packet("ServerboundPing", <<time>>))
  BY DEF SendPing
<1> DEFINE p == Packet("ServerboundPing", <<time>>)
<1>2. p.type = "ServerboundPing" /\ p # NoPacket
  BY PacketParts, SomePacket
<1>3. state' = "Status"
  BY DEF SendPing
<1>4. Calls(p)
  BY <1>1
<1> HIDE DEF p
<1>5. Small(Encode(p, version))
  <2>1. Encode(p, version) = WriteLong(p.f[1])
    BY <1>2 DEF Encode
  <2> QED BY <2>1, SmallFixed
<1> QED BY <1>2, <1>3, <1>4, <1>5, Called DEF States

\* SendClientSettings writes a small packet.
LEMMA AfterSettings == ASSUME CodecInv, SendClientSettings PROVE CodecInv'
<1>1. PICK p \in SettingsPackets : Calls(p)
  BY DEF SendClientSettings
<1> DEFINE modes == {0, 2}
           skins == {0, 7}
           hands == {0, 1}
<1>2. PICK mode \in modes, colours \in BOOLEAN, skin \in skins, hand \in hands :
        p = Packet("ServerboundClientSettings", <<Name, 5, mode, colours, skin, hand>>)
  <2>1. SettingsPackets = { Packet("ServerboundClientSettings", <<Name, 5, mode, colours, skin, hand>>) :
                              mode \in modes, colours \in BOOLEAN, skin \in skins, hand \in hands }
    BY DEF SettingsPackets
  <2> HIDE DEF modes, skins, hands
  <2> QED BY <2>1
<1> DEFINE f == <<Name, 5, mode, colours, skin, hand>>
<1>3. p.type = "ServerboundClientSettings" /\ p.f = f /\ p # NoPacket
  <2>0. p = Packet("ServerboundClientSettings", f)
    BY <1>2
  <2> HIDE DEF f
  <2>1. p.type = "ServerboundClientSettings" /\ p.f = f
    BY <2>0, PacketParts
  <2> QED BY <2>1, NoPacketParts
<1>4. mode \in Int /\ hand \in Int
  OBVIOUS
<1>5. Small(EncodeClientSettings(f, version))
  BY <1>4, SettingsSmall
<1>6. state' \in States
  BY DEF SendClientSettings, CodecInv, CodecTypes
<1> HIDE DEF f
<1>7. Small(Encode(p, version))
  <2>1. Encode(p, version) = EncodeClientSettings(f, version)
    BY <1>3 DEF Encode
  <2> QED BY <1>5, <2>1
<1> QED BY <1>1, <1>3, <1>6, <1>7, Called

\* The fields of a message: its text, the key, and the UUID of the client.
LEMMA ChatPacket ==
  ASSUME NEW id, NEW key, NEW p \in ChatPackets(id, key)
  PROVE  /\ p.type = "ServerboundChatMessage"
         /\ p.f[1] \in {Empty, Short} /\ p.f[2] = key /\ p.f[3] = id
<1> DEFINE messages == {Empty, Short}
           times == {7, 8}
           salts == {7, 8}
<1>1. PICK message \in messages, time \in times, salt \in salts :
        p = Packet("ServerboundChatMessage", <<message, key, id, time, salt>>)
  <2>1. ChatPackets(id, key) = { Packet("ServerboundChatMessage", <<message, key, id, time, salt>>) :
                                   message \in messages, time \in times, salt \in salts }
    BY DEF ChatPackets
  <2> HIDE DEF messages, times, salts
  <2> QED BY <2>1
<1>2. p.type = "ServerboundChatMessage" /\ p.f = <<message, key, id, time, salt>>
  BY Zenon, <1>1, PacketParts
<1>3. message \in {Empty, Short}
  OBVIOUS
<1> HIDE DEF messages, times, salts
<1> QED BY <1>2, <1>3

\* Chat writes a small packet.
LEMMA AfterChat == ASSUME CodecInv, Chat PROVE CodecInv'
<1>1. PICK p \in ChatPackets(uniqueId, privateKey) : Calls(p)
  BY DEF Chat
<1>2. p.type = "ServerboundChatMessage" /\ p.f[1] \in {Empty, Short}
  BY ChatPacket
<1>3. p # NoPacket
  BY <1>2, NoPacketParts
<1>4. Small(Encode(p, version))
  <2>1. Encode(p, version) = EncodeChatMessage(p.f, version)
    BY <1>2 DEF Encode
  <2>2. Small(EncodeChatMessage(p.f, version))
    BY <1>2, ChatSmall
  <2> QED BY <2>1, <2>2
<1>5. state' \in States
  BY DEF Chat, CodecInv, CodecTypes
<1> QED BY <1>1, <1>3, <1>4, <1>5, Called

\* SetPosition writes a small packet.
LEMMA AfterPosition == ASSUME CodecInv, SetPosition PROVE CodecInv'
<1> DEFINE p == Packet("ServerboundPlayerPosition", <<>>)
<1>1. p.type = "ServerboundPlayerPosition" /\ p # NoPacket
  BY PacketParts, SomePacket
<1>2. Calls(p)
  BY DEF SetPosition
<1>3. state' \in States
  BY DEF SetPosition, CodecInv, CodecTypes
<1> HIDE DEF p
<1>4. Small(Encode(p, version))
  <2>1. Encode(p, version) = <<>>
    BY <1>1 DEF Encode
  <2> QED BY <2>1, SmallNothing
<1> QED BY <1>1, <1>2, <1>3, <1>4, Called

\* Between calls nothing is on its way.
LEMMA AfterForget == ASSUME CodecInv, Forget PROVE CodecInv'
<1>1. payload = <<>> /\ UNCHANGED <<version, uniqueId, privateKey, state, threshold, serverThreshold, payload>>
      /\ request' = NoPacket /\ written' = NoPacket /\ frame' = <<>>
  BY DEF Forget, clientVars, connVars
<1>2. CodecTypes'
  BY <1>1 DEF CodecInv, CodecTypes
<1>3. Agreed'
  BY <1>1 DEF CodecInv, Agreed
<1>4. Understood' /\ FrameReadable' /\ EchoExact'
  BY <1>1, NoPacketParts DEF Understood, FrameReadable, EchoExact
<1> QED BY <1>2, <1>3, <1>4 DEF CodecInv

\* A packet the server sends is framed by the threshold the client reads by.
LEMMA AfterServerSends == ASSUME CodecInv, ServerSends PROVE CodecInv'
<1>1. PICK row \in Registered(version, state, "Clientbound") : \E f \in Sendable(row[2], version) :
        /\ request' = Packet(row[2], f)
        /\ payload' = Payload(serverThreshold, << <<"id", Packet(row[2], f).type>> >> \o ServerEncode(Packet(row[2], f), version))
        /\ serverThreshold' = IF Packet(row[2], f).type = "ClientboundSetCompression" THEN f[1] ELSE serverThreshold
  BY Zenon DEF ServerSends
<1>2. PICK f \in Sendable(row[2], version) :
        /\ request' = Packet(row[2], f)
        /\ payload' = Payload(serverThreshold, << <<"id", Packet(row[2], f).type>> >> \o ServerEncode(Packet(row[2], f), version))
        /\ serverThreshold' = IF Packet(row[2], f).type = "ClientboundSetCompression" THEN f[1] ELSE serverThreshold
  BY Zenon, <1>1
<1> DEFINE p == Packet(row[2], f)
           w == ServerEncode(p, version)
<1>3. p.type = row[2] /\ p.f = f
  BY PacketParts
<1>4. request = NoPacket /\ written = NoPacket /\ payload = <<>>
  BY DEF ServerSends, Quiet, CodecInv, Agreed
<1>5. serverThreshold = threshold /\ frame = <<>>
  BY <1>4 DEF CodecInv, Agreed
<1>6. UNCHANGED <<version, uniqueId, privateKey, state, threshold, zlibReader, got, written, frame, returned>>
  BY DEF ServerSends, clientVars, connVars, writeVars
<1>7. Small(w)
  BY RequestSmall
<1>8. version \in Int /\ state \in States /\ threshold \in Int
  BY VersionIsInt DEF CodecInv, CodecTypes
<1>9. payload' = Payload(threshold, Wired(row[2], w))
  <2>1. payload' = Payload(serverThreshold, Wired(p.type, w))
    BY <1>2 DEF Wired, Cat
  <2> HIDE DEF p, w
  <2> QED BY Zenon, <1>3, <1>5, <2>1
<1>10. payload' # <<>>
  <2> HIDE DEF w
  <2> QED BY <1>7, <1>8, <1>9, WiredFrame
<1>11. state # "Handshaking" /\ row[2] # "none"
  <2>1. CASE state = "Handshaking"
    BY <1>8, <2>1, RowTypes
  <2>2. CASE state = "Status"
    BY <1>8, <2>2, RowTypes
  <2>3. CASE state = "Login"
    BY <1>8, <2>3, RowTypes
  <2>4. CASE state = "Configuration"
    BY <1>8, <2>4, RowTypes
  <2>5. CASE state = "Play"
    BY <1>8, <2>5, RowTypes
  <2> QED BY <1>8, <2>1, <2>2, <2>3, <2>4, <2>5 DEF States
<1>12. request'.type = row[2] /\ request'.f = f /\ request' # NoPacket /\ request' = p
  BY <1>2, <1>3, <1>11, NoPacketParts
<1> HIDE DEF p, w
<1>13. Underway'
  <2>1. \E g \in Sendable(request'.type, version') : request' = Packet(request'.type, g)
    BY <1>2, <1>6, <1>12
  <2>2. \E r \in Registered(version', state', "Clientbound") : r[2] = request'.type
    BY Zenon, <1>1, <1>6, <1>12
  <2>3. payload' = Payload(threshold', Wired(request'.type, ServerEncode(request', version')))
    BY Zenon, <1>6, <1>9, <1>12 DEF w
  <2>4. serverThreshold' = IF request'.type = "ClientboundSetCompression" THEN request'.f[1] ELSE threshold'
    BY <1>2, <1>3, <1>5, <1>6, <1>12 DEF p
  <2>5. written' = NoPacket
    BY <1>4, <1>6
  <2> QED BY Zenon, <2>1, <2>2, <2>3, <2>4, <2>5 DEF Underway
<1>14. Agreed'
  BY <1>4, <1>5, <1>6, <1>10, <1>12, <1>13 DEF Agreed
<1>15. CodecTypes'
  BY <1>6 DEF CodecInv, CodecTypes
<1>16. Understood' /\ FrameReadable' /\ EchoExact'
  BY <1>4, <1>5, <1>6, <1>10 DEF Understood, FrameReadable, EchoExact
<1> QED BY <1>14, <1>15, <1>16 DEF CodecInv


-----------------------------------------------------------------------------
(* The client reads.                                                       *)

\* Kept is the fields, but of a login's.
LEMMA KeptFields ==
  ASSUME NEW type, NEW f, type # "ClientboundLoginSuccess"
  PROVE  Kept(Packet(type, f)) = f
BY PacketParts DEF Kept

\* What ReadPacket makes of the packet that is on its way.
LEMMA Received ==
  ASSUME CodecInv, ReadPacket
  PROVE  /\ got'.ok /\ got'.f = Kept(request)
         /\ Handle(request.type, Kept(request))
         /\ payload' = <<>>
         /\ UNCHANGED <<version, uniqueId, privateKey, serverThreshold, request>>
<1> DEFINE type == request.type
           w == ServerEncode(request, version)
           data == Wired(type, w)
           r == Decode(type, At(w, Untaken), version)
           id == ReadAtom(Reader(Data.wire), "id")
<1>1. Underway
  BY DEF CodecInv, Agreed, ReadPacket
<1>2. PICK f \in Sendable(type, version) : request = Packet(type, f)
  BY <1>1 DEF Underway
<1>3. Small(w)
  BY <1>2, RequestSmall
<1>4. r.ok /\ r.got = Kept(request)
  BY <1>2, Carried DEF Arrives
<1>5. threshold \in Int
  BY DEF CodecInv, CodecTypes
<1>6. payload = Payload(threshold, data)
  BY <1>1 DEF Underway
<1> HIDE DEF w
<1>7. Framed(threshold, payload, data)
  BY <1>3, <1>5, <1>6, WiredFrame
<1>8. data # <<>>
  <2>1. IsSeq(w)
    BY <1>3, WireIsSeq DEF Small, Measured
  <2> QED BY <2>1, FirstAtom DEF Wired, Cat
<1>9. Data.wire = data
  BY <1>7, <1>8, DataFound
<1>10. id.ok /\ Last(id) = type /\ Drop(id) = At(w, Untaken)
  BY <1>3, <1>9, IDTaken
<1>11. NewAndDecode(Data.plain, id)
  BY DEF ReadPacket
<1> HIDE DEF id, data
<1>12. Return(Data.plain, Last(id), Decode(Last(id), Drop(id), version))
  BY <1>10, <1>11 DEF NewAndDecode
<1>13. Return(Data.plain, type, r)
  BY Zenon, <1>10, <1>12
<1> HIDE DEF r, type
<1>14. got' = [ok |-> r.ok, f |-> r.got]
  BY <1>13 DEF Return
<1>15. Handle(type, Kept(request))
  BY <1>4, <1>13 DEF Return
<1>16. got'.ok /\ got'.f = Kept(request)
  BY <1>4, <1>14
<1>17. payload' = <<>> /\ UNCHANGED <<version, uniqueId, privateKey, serverThreshold, request>>
  BY DEF ReadPacket, clientVars
<1> QED BY <1>15, <1>16, <1>17 DEF type

\* The answers: what a packet's is, and that it is small.
LEMMA Answered ==
  ASSUME NEW type, NEW f, NEW p, p = Answer(type, f), p # NoPacket
  PROVE  \/ type = "ClientboundKeepAlive" /\ p = Packet("ServerboundKeepAlive", f)
         \/ type = "ClientboundConfigKeepAlive" /\ p = Packet("ServerboundConfigKeepAlive", f)
         \/ type = "ClientboundCustomPayload" /\ p = Packet("ServerboundCustomPayload", <<Brand, WriteString(Name)>>)
         \/ type = "ClientboundSelectKnownPacks" /\ p = Packet("ServerboundSelectKnownPacks", << <<>> >>)
         \/ type = "ClientboundCookieRequest" /\ p = Packet("ServerboundCookieResponse", <<f[1], FALSE, Empty>>)
<1>1. CASE type = "ClientboundKeepAlive"
  BY <1>1 DEF Answer
<1>2. CASE type = "ClientboundConfigKeepAlive"
  BY <1>2 DEF Answer
<1>3. CASE type = "ClientboundCustomPayload"
  BY <1>3 DEF Answer
<1>4. CASE type = "ClientboundSelectKnownPacks"
  BY <1>4 DEF Answer
<1>5. CASE type = "ClientboundCookieRequest"
  BY <1>5 DEF Answer
<1>6. CASE type \notin {"ClientboundKeepAlive", "ClientboundConfigKeepAlive", "ClientboundCustomPayload",
                        "ClientboundSelectKnownPacks", "ClientboundCookieRequest"}
  BY <1>6 DEF Answer
<1> QED BY <1>1, <1>2, <1>3, <1>4, <1>5, <1>6

\* What handlePacket answers with is small, and no answer goes with a new threshold.
LEMMA AnswerSmall ==
  ASSUME NEW v, NEW type, NEW f \in Sendable(type, v), NEW p, p = Answer(type, Kept(Packet(type, f))), p # NoPacket
  PROVE  /\ Small(Encode(p, v))
         /\ type # "ClientboundSetCompression"
<1> DEFINE k == Kept(Packet(type, f))
<1>0. type # "ClientboundLoginSuccess" => k = f
  BY KeptFields
<1> HIDE DEF k
<1>1. CASE type = "ClientboundKeepAlive" /\ p = Packet("ServerboundKeepAlive", k)
  <2>1. Sendable(type, v) = { <<i>> : i \in IF v >= V1_12_2 THEN LongIds ELSE Ids }
    BY <1>1 DEF Sendable
  <2>2. PICK i \in IF v >= V1_12_2 THEN LongIds ELSE Ids : f = <<i>>
    BY <2>1
  <2>3. i \in Int
    BY <2>2, CodecAssumption DEF Int32s
  <2>4. p.type = "ServerboundKeepAlive" /\ p.f = <<i>>
    BY <1>0, <1>1, <2>2, PacketParts
  <2>5. Encode(p, v) = EncodeKeepAlive(p.f, v)
    BY <2>4 DEF Encode
  <2>6. Small(EncodeKeepAlive(<<i>>, v))
    BY <2>3, KeepAliveSmall
  <2> QED BY <1>1, <2>4, <2>5, <2>6
<1>2. CASE type = "ClientboundConfigKeepAlive" /\ p = Packet("ServerboundConfigKeepAlive", k)
  <2>1. p.type = "ServerboundConfigKeepAlive"
    BY <1>2, PacketParts
  <2>2. Encode(p, v) = WriteLong(p.f[1])
    BY <2>1 DEF Encode
  <2> QED BY <1>2, <2>1, <2>2, SmallFixed
<1>3. CASE type = "ClientboundCustomPayload" /\ p = Packet("ServerboundCustomPayload", <<Brand, WriteString(Name)>>)
  <2> DEFINE b == <<Brand, WriteString(Name)>>
  <2>0. b[1] = Brand /\ b[2] = WriteString(Name)
    OBVIOUS
  <2> HIDE DEF b
  <2>1. p.type = "ServerboundCustomPayload" /\ p.f = b
    BY <1>3, PacketParts DEF b
  <2>2. Encode(p, v) = EncodeCustomPayload(p.f)
    BY <2>1 DEF Encode
  <2>3. EncodeCustomPayload(b) = Cat(WriteString(Brand), WriteString(Name))
    BY <2>0 DEF EncodeCustomPayload, Cat
  <2> QED BY <1>3, <2>1, <2>2, <2>3, SmallPayloads
<1>4. CASE type = "ClientboundSelectKnownPacks" /\ p = Packet("ServerboundSelectKnownPacks", << <<>> >>)
  <2>1. p.type = "ServerboundSelectKnownPacks" /\ p.f = << <<>> >>
    BY <1>4, PacketParts
  <2>2. Encode(p, v) = EncodeSelectKnownPacks(p.f)
    BY <2>1 DEF Encode
  <2>3. Small(EncodeSelectKnownPacks(<< <<>> >>))
    BY KnownPacksSmall
  <2> QED BY <1>4, <2>1, <2>2, <2>3
<1>5. CASE type = "ClientboundCookieRequest" /\ p = Packet("ServerboundCookieResponse", <<k[1], FALSE, Empty>>)
  <2>1. Sendable(type, v) = { <<t>> : t \in {Empty, Short, Long} }
    BY <1>5 DEF Sendable
  <2>2. PICK t \in {Empty, Short, Long} : f = <<t>>
    BY <2>1
  <2>3. k[1] = t
    BY <1>0, <1>5, <2>2
  <2> DEFINE c == <<t, FALSE, Empty>>
  <2>4. p.type = "ServerboundCookieResponse" /\ p.f = c
    <3>1. p = Packet("ServerboundCookieResponse", c)
      BY Zenon, <1>5, <2>3
    <3> HIDE DEF c
    <3> QED BY <3>1, PacketParts
  <2>5. Encode(p, v) = EncodeCookieResponse(p.f)
    BY <2>4 DEF Encode
  <2>6. Small(EncodeCookieResponse(c))
    BY CookieSmall
  <2> HIDE DEF c
  <2>7. Small(Encode(p, v))
    BY Zenon, <2>4, <2>5, <2>6
  <2> QED BY <1>5, <2>4, <2>7
<1>6. p = Answer(type, k)
  BY DEF k
<1> QED BY <1>1, <1>2, <1>3, <1>4, <1>5, <1>6, Answered

\* The answer to a keep-alive can be written, and has the fields of what it answers.
LEMMA KeepAliveAnswered ==
  ASSUME CodecTypes, Underway,
         request.type \in {"ClientboundKeepAlive", "ClientboundConfigKeepAlive"}
  PROVE  LET p == Answer(request.type, Kept(request)) IN
         /\ p # NoPacket
         /\ HasPacketID(version, state, "Serverbound", p.type)
         /\ Encode(p, version) = ServerEncode(request, version)
<1> DEFINE type == request.type
<1>1. PICK f \in Sendable(type, version) : request = Packet(type, f)
  BY DEF Underway
<1>2. PICK row \in Registered(version, state, "Clientbound") : row[2] = type
  BY DEF Underway
<1>3. version \in Int /\ state \in States
  BY VersionIsInt DEF CodecTypes
<1>4. Kept(request) = f /\ request.f = f
  <2>1. Kept(request) = f
    BY <1>1, KeptFields
  <2>2. request.f = f
    BY <1>1, PacketParts
  <2> QED BY <2>1, <2>2
<1>5. /\ type = "ClientboundKeepAlive" => state = "Play"
      /\ type = "ClientboundConfigKeepAlive" => state = "Configuration" /\ version >= V1_20_2
  <2>1. CASE state = "Handshaking"
    BY <1>2, <1>3, <2>1, RowTypes
  <2>2. CASE state = "Status"
    BY <1>2, <1>3, <2>2, RowTypes
  <2>3. CASE state = "Login"
    BY <1>2, <1>3, <2>3, RowTypes
  <2>4. CASE state = "Configuration"
    BY <1>2, <1>3, <2>4, RowTypes
  <2>5. CASE state = "Play"
    BY <1>2, <1>3, <2>5, RowTypes
  <2> QED BY <1>3, <2>1, <2>2, <2>3, <2>4, <2>5 DEF States
<1>6. CASE type = "ClientboundKeepAlive"
  <2> DEFINE p == Packet("ServerboundKeepAlive", f)
  <2>1. Answer(type, f) = p
    BY <1>5, <1>6 DEF Answer
  <2>2. p.type = "ServerboundKeepAlive" /\ p.f = f /\ p # NoPacket
    BY PacketParts, SomePacket
  <2>3. HasPacketID(version, "Play", "Serverbound", "ServerboundKeepAlive")
    <3>1. <<"keep_alive", "ServerboundKeepAlive">> \in PlayServerbound(version)
      BY DEF PlayServerbound
    <3>2. Registered(version, "Play", "Serverbound") = PlayServerbound(version)
      BY DEF Registered
    <3>3. "ServerboundKeepAlive" \in packetConstructors
      BY DEF packetConstructors
    <3> DEFINE x == <<"keep_alive", "ServerboundKeepAlive">>
    <3>4. x[2] = "ServerboundKeepAlive" /\ x \in Registered(version, "Play", "Serverbound")
      BY <3>1, <3>2
    <3> HIDE DEF x
    <3> QED BY <3>3, <3>4 DEF HasPacketID
  <2> HIDE DEF p
  <2>4. Encode(p, version) = EncodeKeepAlive(f, version)
    BY <2>2 DEF Encode
  <2>5. ServerEncode(request, version) = IF version >= V1_12_2 THEN WriteLong(f[1]) ELSE WriteVarInt(f[1])
    BY <1>4, <1>6 DEF ServerEncode
  <2>6. ~(version >= V1_12_2) => Int32(f[1]) = f[1]
    <3> SUFFICES ASSUME ~(version >= V1_12_2) PROVE Int32(f[1]) = f[1]
      OBVIOUS
    <3>1. Sendable(type, version) = { <<i>> : i \in IF version >= V1_12_2 THEN LongIds ELSE Ids }
      BY <1>6 DEF Sendable
    <3>2. PICK i \in Ids : f = <<i>>
      BY <3>1
    <3>3. f[1] = i /\ i \in Int32s
      BY <3>2, CodecAssumption
    <3> QED BY Zenon, <3>3, Int32Identity
  <2>7. EncodeKeepAlive(f, version) = ServerEncode(request, version)
    BY <2>5, <2>6 DEF EncodeKeepAlive
  <2> HIDE DEF type
  <2> QED BY Zenon, <1>4, <1>5, <1>6, <2>1, <2>2, <2>3, <2>4, <2>7 DEF type
<1>7. CASE type = "ClientboundConfigKeepAlive"
  <2> DEFINE p == Packet("ServerboundConfigKeepAlive", f)
  <2>1. Answer(type, f) = p
    BY <1>7 DEF Answer
  <2>2. p.type = "ServerboundConfigKeepAlive" /\ p.f = f /\ p # NoPacket
    BY PacketParts, SomePacket
  <2>3. HasPacketID(version, "Configuration", "Serverbound", "ServerboundConfigKeepAlive")
    <3> DEFINE x == <<"keep_alive", "ServerboundConfigKeepAlive">>
    <3>1. x \in ConfigurationServerbound(version)
      BY <1>5, <1>7 DEF ConfigurationServerbound, Since
    <3>2. Registered(version, "Configuration", "Serverbound") = ConfigurationServerbound(version)
      BY DEF Registered
    <3>3. "ServerboundConfigKeepAlive" \in packetConstructors
      BY DEF packetConstructors
    <3>4. x[2] = "ServerboundConfigKeepAlive" /\ x \in Registered(version, "Configuration", "Serverbound")
      BY <3>1, <3>2
    <3> HIDE DEF x
    <3> QED BY <3>3, <3>4 DEF HasPacketID
  <2> HIDE DEF p
  <2>4. Encode(p, version) = WriteLong(f[1])
    BY <2>2 DEF Encode
  <2>5. ServerEncode(request, version) = WriteLong(f[1])
    BY <1>4, <1>7 DEF ServerEncode
  <2> HIDE DEF type
  <2> QED BY Zenon, <1>4, <1>5, <1>7, <2>1, <2>2, <2>3, <2>4, <2>5 DEF type
<1> QED BY <1>6, <1>7

\* The client takes the packet as it was sent, and both sides agree on the threshold after it.
LEMMA AfterReadPacket == ASSUME CodecInv, ReadPacket PROVE CodecInv'
<1> DEFINE type == request.type
           k == Kept(request)
           p == Answer(type, k)
<1>1. /\ got'.ok /\ got'.f = k
      /\ Handle(type, k)
      /\ payload' = <<>>
      /\ UNCHANGED <<version, uniqueId, privateKey, serverThreshold, request>>
  BY Received
<1>2. Underway /\ CodecTypes
  BY DEF CodecInv, Agreed, ReadPacket
<1>3. PICK f \in Sendable(type, version) : request = Packet(type, f)
  BY <1>2 DEF Underway
<1>4. PICK row \in Registered(version, state, "Clientbound") : row[2] = type
  BY <1>2 DEF Underway
<1>5. version \in Int /\ state \in States /\ threshold \in Int /\ written = NoPacket /\ frame = <<>>
  BY <1>2, VersionIsInt DEF CodecTypes, Underway, CodecInv, Agreed
<1>6. request.f = f /\ (type # "ClientboundLoginSuccess" => k = f)
  <2>1. request.f = f
    BY <1>3, PacketParts
  <2>2. type # "ClientboundLoginSuccess" => k = f
    BY <1>3, KeptFields
  <2> QED BY <2>1, <2>2
<1>7. p # NoPacket =>
        /\ Small(Encode(p, version))
        /\ type # "ClientboundSetCompression"
  BY <1>3, AnswerSmall
<1>8. threshold' = serverThreshold /\ threshold' \in Int
  <2>1. threshold' = IF type = "ClientboundSetCompression" THEN k[1] ELSE threshold
    BY <1>1 DEF Handle
  <2>2. serverThreshold = IF type = "ClientboundSetCompression" THEN f[1] ELSE threshold
    BY <1>2, <1>6 DEF Underway
  <2>3. type = "ClientboundSetCompression" => f[1] \in Int
    <3>1. type = "ClientboundSetCompression" => Sendable(type, version) = { <<t>> : t \in Thresholds }
      BY DEF Sendable
    <3> HIDE DEF type
    <3>2. type = "ClientboundSetCompression" => \E t \in Thresholds : f = <<t>>
      BY <3>1
    <3> QED BY <3>2, CodecAssumption DEF Int32s
  <2> HIDE DEF type, k
  <2> QED BY <1>5, <1>6, <2>1, <2>2, <2>3
<1>9. state' = StateAfter(type)
  BY <1>1 DEF Handle
<1>10. /\ FrameReadable'
       /\ written' = NoPacket => frame' = <<>>
  <2>1. CASE p = NoPacket
    <3>1. UNCHANGED <<written, frame>>
      BY <1>1, <2>1 DEF Handle, writeVars
    <3> QED BY <1>5, <3>1, NoPacketParts DEF FrameReadable
  <2>2. CASE p # NoPacket
    <3>1. Write(p, state)
      BY <1>1, <2>2 DEF Handle
    <3>2. serverThreshold = threshold
      BY <1>2, <1>7, <2>2 DEF Underway
    <3>3. UNCHANGED <<version, serverThreshold>>
      BY <1>1
    <3> HIDE DEF p
    <3>4. FrameReadable' /\ (written' = NoPacket => frame' = <<>>) /\ (written' = p \/ written' = written)
      BY <1>7, <2>2, <3>1, <3>2, <3>3, Wrote
    <3> QED BY <1>5, <1>7, <2>2, <3>4, NoPacketParts
  <2> QED BY <2>1, <2>2
<1>11. Understood'
  BY <1>1 DEF Understood
<1>12. EchoExact'
  <2> SUFFICES ASSUME type \in {"ClientboundKeepAlive", "ClientboundConfigKeepAlive"}
               PROVE  Tail(Unframed(serverThreshold', frame')) = ServerEncode(request', version')
    BY <1>1 DEF EchoExact
  <2>1. /\ p # NoPacket
        /\ HasPacketID(version, state, "Serverbound", p.type)
        /\ Encode(p, version) = ServerEncode(request, version)
    BY <1>2, KeepAliveAnswered
  <2>2. Write(p, state) /\ serverThreshold = threshold
    BY <1>1, <1>2, <2>1 DEF Handle, Underway
  <2> HIDE DEF p
  <2> DEFINE data == Wired(p.type, Encode(p, version))
  <2>3. frame' = Payload(threshold, data)
    BY <2>1, <2>2 DEF Write, Wired, Cat
  <2>4. Unframed(threshold, Payload(threshold, data)) = data /\ Tail(data) = Encode(p, version)
    BY <1>5, <1>7, <2>1, WiredFrame
  <2> HIDE DEF data
  <2> QED BY Zenon, <1>1, <2>1, <2>2, <2>3, <2>4
<1> HIDE DEF p, k
<1>13. state' \in States
  BY <1>5, <1>9 DEF StateAfter, States
<1>14. CodecTypes'
  BY <1>1, <1>2, <1>8, <1>13 DEF CodecTypes
<1>15. Agreed'
  <2>1. UNCHANGED serverThreshold /\ UNCHANGED request
    BY <1>1
  <2> QED BY <1>1, <1>8, <1>10, <2>1 DEF Agreed
<1> QED BY <1>10, <1>11, <1>12, <1>14, <1>15 DEF CodecInv

\* A step that changes nothing keeps the invariant.
LEMMA AfterStutter == ASSUME CodecInv, UNCHANGED vars PROVE CodecInv'
<1>1. UNCHANGED <<version, uniqueId, privateKey, state, threshold, serverThreshold, request, payload, got,
                  written, frame>>
  BY DEF vars, clientVars, connVars, readVars, writeVars
<1>2. CodecTypes' /\ Agreed'
  BY <1>1 DEF CodecInv, CodecTypes, Agreed, Underway
<1>3. Understood' /\ FrameReadable' /\ EchoExact'
  BY <1>1 DEF CodecInv, Understood, FrameReadable, EchoExact
<1> QED BY <1>2, <1>3 DEF CodecInv

\* In every state the server and the client agree on version and threshold: the
\* answers of handlePacket and the calls of Client leave nothing half done that ReadPacket
\* or the server would read by other conditions than it was written by.
THEOREM CodecAlways == Spec => []CodecInv
<1>1. Init => CodecInv
  BY CodecInit
<1>2. CodecInv /\ [Next]_vars => CodecInv'
  <2> SUFFICES ASSUME CodecInv, [Next]_vars PROVE CodecInv'
    OBVIOUS
  <2>1. CASE ServerSends
    BY <2>1, AfterServerSends
  <2>2. CASE ReadPacket
    BY <2>2, AfterReadPacket
  <2>3. CASE Forget
    BY <2>3, AfterForget
  <2>4. CASE SendHandshake
    BY <2>4, AfterHandshake
  <2>5. CASE SendLogin
    BY <2>5, AfterLogin
  <2>6. CASE SendPing
    BY <2>6, AfterPing
  <2>7. CASE SendClientSettings
    BY <2>7, AfterSettings
  <2>8. CASE Chat
    BY <2>8, AfterChat
  <2>9. CASE SetPosition
    BY <2>9, AfterPosition
  <2>10. CASE UNCHANGED vars
    BY <2>10, AfterStutter
  <2> QED BY <2>1, <2>2, <2>3, <2>4, <2>5, <2>6, <2>7, <2>8, <2>9, <2>10 DEF Next
<1> QED BY <1>1, <1>2, PTL DEF Spec

\* ReadPacket returns the packet that the server sent, whatever version, threshold and
\* state: the fields that Decode takes are those that were written, and nothing is cut off
\* or left over by a condition on the version that the two sides read differently.
THEOREM ServerUnderstood == Spec => []Understood
<1>1. CodecInv => Understood
  BY DEF CodecInv
<1> QED BY <1>1, CodecAlways, PTL

\* What WritePacket wrote last is a frame that the server takes apart into the ID and the
\* fields of that packet, compressed or not: the lengths it writes are those of what follows.
THEOREM ClientFramed == Spec => []FrameReadable
<1>1. CodecInv => FrameReadable
  BY DEF CodecInv
<1> QED BY <1>1, CodecAlways, PTL

\* A keep-alive goes back with the number it came with, as a VarInt or as a long, and so
\* does a Configuration keep-alive: handlePacket's answer encodes what Decode took.
THEOREM KeepAliveExact == Spec => []EchoExact
<1>1. CodecInv => EchoExact
  BY DEF CodecInv
<1> QED BY <1>1, CodecAlways, PTL

-----------------------------------------------------------------------------
(* Packets that can be told apart.                                         *)

\* Two wires of atoms of the same kinds.
Alike(a, b) ==
  /\ IsSeq(a) /\ IsSeq(b)
  /\ Len(a) = Len(b)
  /\ \A i \in 1 .. Len(a) : a[i][1] = b[i][1]

\* Two wires that part at a byte, and are alike in front of it.
PartAt(a, b, j) ==
  /\ j \in 1 .. Len(a) /\ j <= Len(b)
  /\ a[j][1] = "byte" /\ b[j][1] = "byte" /\ a[j] # b[j]
  /\ \A i \in 1 .. j - 1 : a[i][1] = b[i][1]

\* Two wires that part at some byte.
Part(a, b) == IsSeq(a) /\ IsSeq(b) /\ \E j \in Nat : PartAt(a, b, j)

\* Two wires that a reader takes in the same way, up to a byte that tells them apart.
Apart(a, b) == Alike(a, b) \/ Part(a, b)

\* The length of a wire.
LEMMA LenOfSeq == \A s : IsSeq(s) => Len(s) \in Nat
BY DEF IsSeq

\* The atoms of two wires, one after the other.
LEMMA CatAtoms ==
  ASSUME NEW s, NEW t, IsSeq(s), IsSeq(t)
  PROVE  /\ Len(Cat(s, t)) = Len(s) + Len(t)
         /\ \A i \in 1 .. Len(s) + Len(t) : Cat(s, t)[i] = IF i <= Len(s) THEN s[i] ELSE t[i - Len(s)]
<1>1. PICK S : s \in Seq(S)
  BY DEF IsSeq
<1>2. PICK T : t \in Seq(T)
  BY DEF IsSeq
<1> DEFINE A == S \cup T
<1>3. s \in Seq(A) /\ t \in Seq(A)
  BY <1>1, <1>2, SeqMonotonic
<1> HIDE DEF A
<1> QED BY <1>3, ConcatProperties DEF Cat

\* A reader that knows one of two wires that are apart takes neither for the other's kinds.
LEMMA ApartAligned ==
  ASSUME NEW a, NEW b, Apart(a, b)
  PROVE  Aligned(a, b) /\ Aligned(b, a)
<1>1. CASE Alike(a, b)
  BY <1>1, LenOfSeq DEF Alike, Aligned
<1>2. CASE Part(a, b)
  <2>1. PICK j \in Nat : PartAt(a, b, j)
    BY <1>2 DEF Part
  <2>2. Len(a) \in Nat /\ Len(b) \in Nat
    BY <1>2, LenOfSeq DEF Part
  <2>3. \A i \in 1 .. Len(a) : i > Len(b) \/ a[i][1] # b[i][1] => j \in 1 .. i - 1
    BY <2>1, <2>2 DEF PartAt
  <2>4. \A i \in 1 .. Len(b) : i > Len(a) \/ b[i][1] # a[i][1] => j \in 1 .. i - 1
    BY <2>1, <2>2 DEF PartAt
  <2>5. j <= Len(a) /\ j <= Len(b) /\ a[j][1] = "byte" /\ b[j][1] = "byte" /\ a[j] # b[j]
    BY <2>1, <2>2 DEF PartAt
  <2>6. Aligned(a, b)
    BY <2>3, <2>5 DEF Aligned
  <2>7. Aligned(b, a)
    BY <2>4, <2>5 DEF Aligned
  <2> QED BY <2>6, <2>7
<1> QED BY <1>1, <1>2 DEF Apart

\* Parting goes both ways.
LEMMA ApartBack == \A a, b : Part(a, b) => Part(b, a)
<1> SUFFICES ASSUME NEW a, NEW b, Part(a, b) PROVE Part(b, a)
  OBVIOUS
<1>1. PICK j \in Nat : PartAt(a, b, j)
  BY DEF Part
<1>2. Len(a) \in Nat /\ Len(b) \in Nat
  BY LenOfSeq DEF Part
<1>3. PartAt(b, a, j)
  BY <1>1, <1>2 DEF PartAt
<1> QED BY <1>3 DEF Part

\* What follows two wires that have parted makes no difference.
LEMMA PartCat ==
  \A a, b, c, d : Part(a, b) /\ IsSeq(c) /\ IsSeq(d) => Part(Cat(a, c), Cat(b, d))
<1> SUFFICES ASSUME NEW a, NEW b, NEW c, NEW d, Part(a, b), IsSeq(c), IsSeq(d)
             PROVE  Part(Cat(a, c), Cat(b, d))
  OBVIOUS
<1> DEFINE x == Cat(a, c)
           y == Cat(b, d)
<1>1. PICK j \in Nat : PartAt(a, b, j)
  BY DEF Part
<1>2. IsSeq(a) /\ IsSeq(b) /\ IsSeq(x) /\ IsSeq(y)
  BY CatIsSeq DEF Part
<1>3. Len(a) \in Nat /\ Len(b) \in Nat /\ Len(c) \in Nat /\ Len(d) \in Nat
  BY <1>2, LenOfSeq
<1>4. /\ Len(x) = Len(a) + Len(c) /\ \A i \in 1 .. Len(a) + Len(c) : x[i] = IF i <= Len(a) THEN a[i] ELSE c[i - Len(a)]
      /\ Len(y) = Len(b) + Len(d) /\ \A i \in 1 .. Len(b) + Len(d) : y[i] = IF i <= Len(b) THEN b[i] ELSE d[i - Len(b)]
  BY <1>2, CatAtoms
<1> HIDE DEF x, y
<1>5. \A i \in 1 .. j : x[i] = a[i] /\ y[i] = b[i]
  BY <1>1, <1>3, <1>4 DEF PartAt
<1>6. j \in 1 .. Len(x) /\ j <= Len(y)
  BY <1>1, <1>3, <1>4 DEF PartAt
<1>7. PartAt(x, y, j)
  <2>1. x[j] = a[j] /\ y[j] = b[j]
    BY <1>1, <1>3, <1>5 DEF PartAt
  <2>2. ASSUME NEW i \in 1 .. j - 1 PROVE x[i][1] = y[i][1]
    <3>1. i \in 1 .. j
      OBVIOUS
    <3>2. a[i][1] = b[i][1]
      BY <1>1 DEF PartAt
    <3> QED BY <1>5, <3>1, <3>2
  <2> QED BY <1>1, <1>6, <2>1, <2>2 DEF PartAt
<1>8. Part(x, y)
  BY <1>2, <1>7 DEF Part
<1> QED BY <1>8 DEF x, y

\* Pieces that are apart make wires that are apart.
LEMMA ApartCat ==
  \A a, b, c, d : Apart(a, b) /\ Apart(c, d) => Apart(Cat(a, c), Cat(b, d))
<1> SUFFICES ASSUME NEW a, NEW b, NEW c, NEW d, Apart(a, b), Apart(c, d)
             PROVE  Apart(Cat(a, c), Cat(b, d))
  OBVIOUS
<1> DEFINE x == Cat(a, c)
           y == Cat(b, d)
<1>1. IsSeq(a) /\ IsSeq(b) /\ IsSeq(c) /\ IsSeq(d)
  BY DEF Apart, Alike, Part
<1>2. IsSeq(x) /\ IsSeq(y)
  BY <1>1, CatIsSeq
<1>3. Len(a) \in Nat /\ Len(b) \in Nat /\ Len(c) \in Nat /\ Len(d) \in Nat
  BY <1>1, LenOfSeq
<1>4. /\ Len(x) = Len(a) + Len(c) /\ \A i \in 1 .. Len(a) + Len(c) : x[i] = IF i <= Len(a) THEN a[i] ELSE c[i - Len(a)]
      /\ Len(y) = Len(b) + Len(d) /\ \A i \in 1 .. Len(b) + Len(d) : y[i] = IF i <= Len(b) THEN b[i] ELSE d[i - Len(b)]
  BY <1>1, CatAtoms
<1> HIDE DEF x, y
<1>5. CASE Part(a, b)
  BY <1>1, <1>5, PartCat DEF Apart, x, y
<1>6. CASE Alike(a, b) /\ Alike(c, d)
  <2>1. Len(a) = Len(b) /\ Len(c) = Len(d) /\ Len(x) = Len(y)
    BY <1>4, <1>6 DEF Alike
  <2>2. ASSUME NEW i \in 1 .. Len(x) PROVE x[i][1] = y[i][1]
    <3>1. CASE i <= Len(a)
      BY <1>3, <1>4, <1>6, <2>1, <3>1 DEF Alike
    <3>2. CASE ~(i <= Len(a))
      <4> DEFINE k == i - Len(a)
      <4>1. k \in 1 .. Len(c) /\ x[i] = c[k] /\ y[i] = d[k]
        BY <1>3, <1>4, <2>1, <3>2
      <4> HIDE DEF k
      <4> QED BY <1>6, <4>1 DEF Alike
    <3> QED BY <3>1, <3>2
  <2>3. Alike(x, y)
    BY <1>2, <2>1, <2>2 DEF Alike
  <2> QED BY <2>3 DEF Apart, x, y
<1>7. CASE Alike(a, b) /\ Part(c, d)
  <2>1. PICK j \in Nat : PartAt(c, d, j)
    BY <1>7 DEF Part
  <2> DEFINE k == Len(a) + j
  <2>2. Len(a) = Len(b) /\ j >= 1 /\ j <= Len(c) /\ j <= Len(d)
    BY <1>3, <1>7, <2>1 DEF Alike, PartAt
  <2>3. k \in Nat /\ k \in 1 .. Len(x) /\ k <= Len(y) /\ x[k] = c[j] /\ y[k] = d[j]
    <3>1. k \in 1 .. Len(a) + Len(c) /\ k \in 1 .. Len(b) + Len(d) /\ ~(k <= Len(a)) /\ ~(k <= Len(b))
          /\ k - Len(a) = j /\ k - Len(b) = j
      BY <1>3, <2>2
    <3> HIDE DEF k
    <3> QED BY <1>3, <1>4, <3>1
  <2>4. ASSUME NEW i \in 1 .. k - 1 PROVE x[i][1] = y[i][1]
    <3>1. CASE i <= Len(a)
      BY <1>3, <1>4, <1>7, <2>2, <3>1 DEF Alike
    <3>2. CASE ~(i <= Len(a))
      <4> DEFINE m == i - Len(a)
      <4>1. m \in 1 .. j - 1 /\ x[i] = c[m] /\ y[i] = d[m]
        BY <1>3, <1>4, <2>2, <3>2
      <4> HIDE DEF m
      <4> QED BY <2>1, <4>1 DEF PartAt
    <3> QED BY <3>1, <3>2
  <2> HIDE DEF k
  <2>5. PartAt(x, y, k)
    BY <2>1, <2>3, <2>4 DEF PartAt
  <2>6. Part(x, y)
    BY <1>2, <2>3, <2>5 DEF Part
  <2> QED BY <2>6 DEF Apart, x, y
<1> QED BY <1>5, <1>6, <1>7 DEF Apart

\* A wire is read as itself.
LEMMA ApartSame == \A a : IsSeq(a) => Apart(a, a)
BY DEF Apart, Alike

\* Two values written by the same writer.
LEMMA ApartAtoms == \A kind, x, y : Apart(<< <<kind, x>> >>, << <<kind, y>> >>)
<1> TAKE kind, x, y
<1> DEFINE s == << <<kind, x>> >>
           t == << <<kind, y>> >>
<1>1. IsSeq(s) /\ IsSeq(t)
  BY OneOfSeq DEF IsSeq
<1>2. Len(s) = 1 /\ Len(t) = 1 /\ s[1][1] = kind /\ t[1][1] = kind
  OBVIOUS
<1> HIDE DEF s, t
<1>3. Alike(s, t)
  BY <1>1, <1>2 DEF Alike
<1> QED BY <1>3 DEF Apart, s, t

\* Two bytes that differ part.
LEMMA BytesPart == \A x, y : x # y => Part(WriteByte(x), WriteByte(y))
<1> SUFFICES ASSUME NEW x, NEW y, x # y PROVE Part(WriteByte(x), WriteByte(y))
  OBVIOUS
<1> DEFINE s == WriteByte(x)
           t == WriteByte(y)
<1>1. IsSeq(s) /\ IsSeq(t)
  BY OneOfSeq DEF IsSeq, WriteByte
<1>2. Len(s) = 1 /\ Len(t) = 1 /\ s[1][1] = "byte" /\ t[1][1] = "byte" /\ s[1] # t[1]
  BY DEF WriteByte
<1> HIDE DEF s, t
<1>3. PartAt(s, t, 1)
  BY <1>1, <1>2 DEF PartAt
<1>4. Part(s, t)
  BY <1>1, <1>3 DEF Part
<1> QED BY <1>4 DEF s, t

\* What only some versions write is apart in the others too.
LEMMA ApartWhen == \A c, a, b : Apart(a, b) => Apart(When(c, a), When(c, b))
<1> SUFFICES ASSUME NEW c, NEW a, NEW b, Apart(a, b) PROVE Apart(When(c, a), When(c, b))
  OBVIOUS
<1>1. CASE c
  <2>1. When(c, a) = a /\ When(c, b) = b
    BY <1>1 DEF When
  <2> QED BY <2>1
<1>2. CASE ~c
  <2>1. When(c, a) = End /\ When(c, b) = End
    BY <1>2 DEF When, End
  <2> QED BY <2>1, AtEnd, ApartSame
<1> QED BY <1>1, <1>2

\* Of two VarInts no one is the beginning of the other.
LEMMA VarIntsPart ==
  ASSUME NEW x \in Int, NEW y \in Int, Int32(x) # Int32(y)
  PROVE  Part(WriteVarInt(x), WriteVarInt(y))
<1> DEFINE a == WriteVarInt(x)
           b == WriteVarInt(y)
           u == x % IntSize
           w == y % IntSize
<1>1. u \in 0 .. IntSize - 1 /\ w \in 0 .. IntSize - 1
  BY VarIntWritten
<1>2. PICK p : Quotients(a, u, p)
  BY VarIntWritten
<1>3. PICK q : Quotients(b, w, q)
  BY VarIntWritten
<1>4. Int32(u) = Int32(x) /\ Int32(w) = Int32(y)
  BY Int32Idempotent
<1>5. IsSeq(a) /\ IsSeq(b)
  BY <1>2, <1>3 DEF Quotients, IsSeq
<1>6. /\ Len(a) \in Nat /\ Len(b) \in Nat
      /\ a \in Seq(Bytes) /\ b \in Seq(Bytes)
  BY <1>2, <1>3, <1>5, LenOfSeq DEF Quotients
<1> HIDE DEF a, b, u, w
<1>7. (\A i \in 1 .. Len(a) : a[i][1] = "byte") /\ (\A i \in 1 .. Len(b) : b[i][1] = "byte")
  <2>1. (\A i \in 1 .. Len(a) : a[i] \in Bytes) /\ (\A i \in 1 .. Len(b) : b[i] \in Bytes)
    BY <1>6
  <2> QED BY <2>1 DEF Bytes
<1>8. \E j \in 1 .. Len(a) : j <= Len(b) /\ a[j] # b[j]
  <2> SUFFICES ASSUME \A j \in 1 .. Len(a) : j <= Len(b) => a[j] = b[j]
               PROVE  FALSE
    OBVIOUS
  <2>1. CASE Len(a) <= Len(b)
    <3>1. \A i \in 1 .. Len(a) : b[i] = a[i]
      BY <1>6, <2>1
    <3>2. VarIntEnds(b) = { Len(a) }
      BY <1>1, <1>2, <1>6, <2>1, <3>1, OneEnd
    <3>3. VarIntEnds(b) = { Len(b) }
      BY <1>1, <1>3, <1>6, OneEnd
    <3>4. Len(a) = Len(b)
      BY <3>2, <3>3
    <3>5. VarIntValue(b, Len(a)) = Int32(u)
      BY <1>1, <1>2, <3>1, Value
    <3>6. VarIntValue(b, Len(b)) = Int32(w)
      BY <1>1, <1>3, Value
    <3> QED BY Zenon, <1>4, <3>4, <3>5, <3>6
  <2>2. CASE Len(b) <= Len(a)
    <3>1. \A i \in 1 .. Len(b) : a[i] = b[i]
      BY <1>6, <2>2
    <3>2. VarIntEnds(a) = { Len(b) }
      BY <1>1, <1>3, <1>6, <2>2, <3>1, OneEnd
    <3>3. VarIntEnds(a) = { Len(a) }
      BY <1>1, <1>2, <1>6, OneEnd
    <3>4. Len(a) = Len(b)
      BY <3>2, <3>3
    <3>5. VarIntValue(a, Len(b)) = Int32(w)
      BY <1>1, <1>3, <3>1, Value
    <3>6. VarIntValue(a, Len(a)) = Int32(u)
      BY <1>1, <1>2, Value
    <3> QED BY Zenon, <1>4, <3>4, <3>5, <3>6
  <2> QED BY <1>6, <2>1, <2>2
<1>9. PICK j \in 1 .. Len(a) : j <= Len(b) /\ a[j] # b[j]
  BY <1>8
<1>10. PartAt(a, b, j) /\ j \in Nat
  BY <1>6, <1>7, <1>9 DEF PartAt
<1>11. Part(a, b)
  BY <1>5, <1>10 DEF Part
<1> QED BY <1>11 DEF a, b

\* A signature is a slice that can be written.
LEMMA SignatureReadable == \A f, v : Readable(Signature(f, v))
<1> TAKE f, v
<1>1. Length(Signature(f, v)) \in {16, 32}
  <2>1. SignatureSize = 16
    BY DEF SignatureSize
  <2>2. CASE v >= V1_19_3
    BY <2>1, <2>2 DEF Signature, Length, Text
  <2>3. CASE ~(v >= V1_19_3)
    BY <2>1, <2>3 DEF Signature, Length, Text
  <2> QED BY <2>2, <2>3
<1> QED BY <1>1, Limits DEF Readable


\* Two VarInts are alike or part at a byte, unless they are the same int32.
LEMMA ApartVarInts == \A x, y \in Int : Apart(WriteVarInt(x), WriteVarInt(y)) \/ Int32(x) = Int32(y)
BY VarIntsPart DEF Apart

\* Texts of different lengths part at the length.
LEMMA ApartStrings ==
  \A s, t : Readable(s) /\ Readable(t) => Apart(WriteString(s), WriteString(t))
<1> SUFFICES ASSUME NEW s, NEW t, Readable(s), Readable(t)
             PROVE  Apart(WriteString(s), WriteString(t))
  OBVIOUS
<1> DEFINE m == Length(s)
           n == Length(t)
           a == WriteVarInt(m)
           b == WriteVarInt(n)
           x == << <<"text", s>> >>
           y == << <<"text", t>> >>
           c == When(m > 0, x)
           d == When(n > 0, y)
<1>1. m \in Int32s /\ n \in Int32s /\ m \in Int /\ n \in Int
  <2> DEFINE h == IntSize \div 2
  <2>1. m \in 0 .. MaxPacketDataSize /\ n \in 0 .. MaxPacketDataSize
        /\ MaxPacketDataSize \in Nat /\ 2 * MaxPacketDataSize < IntSize
    BY WireAssumption DEF Readable
  <2>2. h \in Nat /\ IntSize = 2 * h
    BY Limits, WireAssumption
  <2>3. Int32s = 0 - h .. h - 1
    BY DEF Int32s
  <2> HIDE DEF h, m, n
  <2> QED BY <2>1, <2>2, <2>3
<1>2. Int32(m) = m /\ Int32(n) = n
  BY <1>1, Int32Identity
<1>3. WriteString(s) = Cat(a, c) /\ WriteString(t) = Cat(b, d)
  BY DEF WriteString, WriteByteSlice, Cat
<1>4. Apart(x, y) /\ IsSeq(x) /\ IsSeq(y)
  <2>1. Apart(x, y)
    BY ApartAtoms
  <2> HIDE DEF x, y
  <2> QED BY <2>1 DEF Apart, Alike, Part
<1>5. IsSeq(a) /\ IsSeq(b)
  BY <1>1, MeasureVarInt, WireIsSeq DEF Measured
<1> HIDE DEF x, y, m, n
<1>6. IsSeq(c) /\ IsSeq(d)
  BY <1>4, IsSeqEmpty DEF When
<1>7. CASE m = n
  <2>1. a = b
    BY <1>7
  <2>2. Apart(c, d)
    BY <1>4, <1>7, ApartWhen
  <2>3. Apart(a, a)
    BY <1>5, ApartSame
  <2> HIDE DEF a, b, c, d
  <2> QED BY <1>3, <2>1, <2>2, <2>3, ApartCat
<1>8. CASE m # n
  <2>1. Part(a, b)
    BY <1>1, <1>2, <1>8, VarIntsPart
  <2> HIDE DEF a, b, c, d
  <2>2. Part(Cat(a, c), Cat(b, d))
    BY <1>6, <2>1, PartCat
  <2> QED BY <1>3, <2>2 DEF Apart
<1> QED BY <1>7, <1>8

\* ServerboundLoginStart, with an ID or without.
LEMMA ApartLogins ==
  ASSUME NEW v \in Int, NEW id, NEW other
  PROVE  Apart(EncodeLoginStart(<<Name, LoginUUID(v, id)>>, v), EncodeLoginStart(<<Name, LoginUUID(v, other)>>, v))
<1> DEFINE i == LoginUUID(v, id)
           j == LoginUUID(v, other)
           a == WriteString(Name)
           b == When(v \in V1_19 .. V1_19_2, WriteBool(FALSE))
           yes == WriteBool(TRUE)
           x == WriteUUID(i)
           y == WriteUUID(j)
           c == IF v >= V1_20_2 THEN x ELSE When(v >= V1_19_2 /\ i # Nil, Cat(yes, x))
           d == IF v >= V1_20_2 THEN y ELSE When(v >= V1_19_2 /\ j # Nil, Cat(yes, y))
<1>1. v >= V1_19_2 => i # Nil /\ j # Nil
  BY DEF LoginUUID, Nil
<1> HIDE DEF i, j
<1>2. EncodeLoginStart(<<Name, i>>, v) = Cat(Cat(a, b), c) /\ EncodeLoginStart(<<Name, j>>, v) = Cat(Cat(a, b), d)
  BY DEF EncodeLoginStart, Cat
<1>3. Apart(x, y)
  BY ApartAtoms DEF WriteUUID
<1>4. IsSeq(yes) /\ IsSeq(a)
  <2>1. Measured(yes)
    BY Zenon, MeasureFixed
  <2> QED BY <2>1, WireIsSeq, StringIsSeq, Texts DEF Measured
<1>5. IsSeq(b)
  <2>1. Measured(WriteBool(FALSE))
    BY Zenon, MeasureFixed
  <2>2. Measured(b)
    BY Zenon, <2>1, MeasureWhen
  <2> QED BY <2>2, WireIsSeq DEF Measured
<1> HIDE DEF x, y, yes, a, b
<1>6. Apart(Cat(yes, x), Cat(yes, y))
  BY <1>3, <1>4, ApartSame, ApartCat
<1>7. Apart(c, d)
  <2>1. CASE v >= V1_20_2
    BY <1>3, <2>1
  <2>2. CASE ~(v >= V1_20_2) /\ v >= V1_19_2
    <3>1. c = Cat(yes, x) /\ d = Cat(yes, y)
      BY <1>1, <2>2 DEF When
    <3> QED BY <1>6, <3>1
  <2>3. CASE ~(v >= V1_20_2) /\ ~(v >= V1_19_2)
    <3>1. c = End /\ d = End
      BY <2>3 DEF When, End
    <3> QED BY <3>1, AtEnd, ApartSame
  <2> QED BY <2>1, <2>2, <2>3
<1> HIDE DEF c, d
<1>8. Apart(Cat(a, b), Cat(a, b))
  BY <1>4, <1>5, CatIsSeq, ApartSame
<1>9. Apart(Cat(Cat(a, b), c), Cat(Cat(a, b), d))
  BY <1>7, <1>8, ApartCat
<1> QED BY <1>2, <1>9 DEF i, j

\* A message says by a byte whether it is signed.
LEMMA ApartSigned ==
  ASSUME NEW f, NEW g, NEW v
  PROVE  Apart(SignedOrNot(f, v), SignedOrNot(g, v))
<1> DEFINE yes == WriteBool(TRUE)
           no == WriteBool(FALSE)
           x == << <<"signature", Signature(f, v)>> >>
           y == << <<"signature", Signature(g, v)>> >>
<1>1. Apart(x, y)
  BY ApartAtoms
<1>2. Part(yes, no)
  <2>1. yes = WriteByte(1) /\ no = WriteByte(0)
    BY DEF WriteBool
  <2>2. 1 # 0
    OBVIOUS
  <2> QED BY <2>1, <2>2, BytesPart
<1>3. IsSeq(yes) /\ IsSeq(no)
  BY <1>2 DEF Part
<1>4. IsSeq(x) /\ IsSeq(y)
  <2> HIDE DEF x, y
  <2> QED BY <1>1 DEF Apart, Alike, Part
<1>5. SignedOrNot(f, v) = IF f[2] # "none" THEN Cat(yes, x) ELSE no
  BY DEF SignedOrNot
<1>6. SignedOrNot(g, v) = IF g[2] # "none" THEN Cat(yes, y) ELSE no
  BY DEF SignedOrNot
<1> HIDE DEF yes, no, x, y
<1>7. Apart(Cat(yes, x), Cat(yes, y))
  BY <1>1, <1>3, ApartSame, ApartCat
<1>8. Part(Cat(yes, x), no) /\ Part(Cat(yes, y), no)
  <2>1. Part(Cat(yes, x), Cat(no, End)) /\ Part(Cat(yes, y), Cat(no, End))
    BY <1>2, <1>4, AtEnd, PartCat
  <2> QED BY <1>3, <2>1, AtEnd
<1>9. Part(no, Cat(yes, y))
  BY <1>8, ApartBack
<1>10. Apart(no, no)
  BY <1>3, ApartSame
<1> QED BY <1>5, <1>6, <1>7, <1>8, <1>9, <1>10 DEF Apart

\* The values of a fixed size are wires.
LEMMA FixedAreSeq == \A x : IsSeq(WriteByte(x)) /\ IsSeq(WriteBool(x)) /\ IsSeq(WriteLong(x))
<1> TAKE x
<1>1. Measured(WriteByte(x)) /\ Measured(WriteBool(x)) /\ Measured(WriteLong(x))
  BY Zenon, MeasureFixed
<1> QED BY <1>1, WireIsSeq DEF Measured

\* A VarInt is a wire.
LEMMA VarIntIsSeq == \A x \in Int : IsSeq(WriteVarInt(x))
BY MeasureVarInt, WireIsSeq DEF Measured

\* Whatever follows, packets stay apart.
LEMMA ApartTail == \A a, b, c : Apart(a, b) /\ IsSeq(c) => Apart(Cat(a, c), Cat(b, c))
BY ApartSame, ApartCat

\* The one end of two messages.
LEMMA ApartLastSeen ==
  ASSUME NEW f, NEW g, NEW v
  PROVE  Apart(LastSeen(f, v), LastSeen(g, v))
<1> DEFINE a == SignedOrNot(f, v)
           b == SignedOrNot(g, v)
           n == WriteVarInt(0)
           c == WriteByte(0)
           d == When(v >= V1_21_5, c)
<1>1. Apart(a, b)
  BY ApartSigned
<1>2. IsSeq(n) /\ IsSeq(c)
  BY VarIntIsSeq, FixedAreSeq
<1>3. IsSeq(d)
  <2> HIDE DEF c
  <2> QED BY <1>2, IsSeqEmpty DEF When
<1>4. /\ LastSeen(f, v) = Cat(Cat(Cat(Cat(Cat(a, n), c), c), c), d)
      /\ LastSeen(g, v) = Cat(Cat(Cat(Cat(Cat(b, n), c), c), c), d)
  BY DEF LastSeen
<1> HIDE DEF a, b, n, c, d
<1>5. Apart(Cat(a, n), Cat(b, n))
  BY <1>1, <1>2, ApartTail
<1>6. Apart(Cat(Cat(a, n), c), Cat(Cat(b, n), c))
  BY <1>2, <1>5, ApartTail
<1>7. Apart(Cat(Cat(Cat(a, n), c), c), Cat(Cat(Cat(b, n), c), c))
  BY <1>2, <1>6, ApartTail
<1>8. Apart(Cat(Cat(Cat(Cat(a, n), c), c), c), Cat(Cat(Cat(Cat(b, n), c), c), c))
  BY <1>2, <1>7, ApartTail
<1>9. Apart(Cat(Cat(Cat(Cat(Cat(a, n), c), c), c), d), Cat(Cat(Cat(Cat(Cat(b, n), c), c), c), d))
  BY <1>3, <1>8, ApartTail
<1> QED BY <1>4, <1>9

\* The other end of two messages.
LEMMA ApartPreviewed ==
  ASSUME NEW f, NEW g, NEW v
  PROVE  Apart(Previewed(f, v), Previewed(g, v))
<1> DEFINE s == IF f[2] # "none" THEN Signature(f, v) ELSE Empty
           t == IF g[2] # "none" THEN Signature(g, v) ELSE Empty
           no == WriteBool(FALSE)
           d == When(v >= V1_19_2, Cat(WriteVarInt(0), no))
<1>1. Readable(s) /\ Readable(t)
  <2>1. Readable(Signature(f, v)) /\ Readable(Signature(g, v))
    BY SignatureReadable
  <2> QED BY <2>1, Texts
<1>2. IsSeq(no)
  BY Zenon, FixedAreSeq
<1>3. IsSeq(d)
  <2> HIDE DEF no
  <2>1. IsSeq(Cat(WriteVarInt(0), no))
    BY <1>2, VarIntIsSeq, CatIsSeq
  <2> QED BY <2>1, IsSeqEmpty DEF When
<1>4. /\ Previewed(f, v) = Cat(Cat(WriteString(s), no), d)
      /\ Previewed(g, v) = Cat(Cat(WriteString(t), no), d)
  BY DEF Previewed, WriteString
<1> HIDE DEF s, t, no, d
<1>5. Apart(WriteString(s), WriteString(t))
  BY <1>1, ApartStrings
<1>6. Apart(Cat(WriteString(s), no), Cat(WriteString(t), no))
  BY <1>2, <1>5, ApartTail
<1>7. Apart(Cat(Cat(WriteString(s), no), d), Cat(Cat(WriteString(t), no), d))
  BY <1>3, <1>6, ApartTail
<1> QED BY <1>4, <1>7

\* ServerboundChatMessage, signed by any key or not at all.
LEMMA ApartChats ==
  ASSUME NEW f, NEW g, f[1] \in {Empty, Short}, g[1] \in {Empty, Short}, NEW v
  PROVE  Apart(EncodeChatMessage(f, v), EncodeChatMessage(g, v))
<1> DEFINE a == WriteString(f[1])
           b == WriteString(g[1])
           c == WriteLong(f[4])
           d == WriteLong(g[4])
           m == WriteLong(f[5])
           n == WriteLong(g[5])
           x == IF v >= V1_19_3 THEN LastSeen(f, v) ELSE Previewed(f, v)
           y == IF v >= V1_19_3 THEN LastSeen(g, v) ELSE Previewed(g, v)
<1>1. Apart(a, b)
  BY Texts, ApartStrings
<1>2. Apart(c, d) /\ Apart(m, n)
  BY ApartAtoms DEF WriteLong
<1>3. Apart(x, y)
  BY ApartLastSeen, ApartPreviewed
<1>4. CASE v < V1_19
  <2>1. EncodeChatMessage(f, v) = a /\ EncodeChatMessage(g, v) = b
    BY <1>4 DEF EncodeChatMessage
  <2> QED BY <1>1, <2>1
<1>5. CASE ~(v < V1_19)
  <2>1. EncodeChatMessage(f, v) = Cat(Cat(Cat(a, c), m), x)
    BY <1>5 DEF EncodeChatMessage, Cat, LastSeen, Previewed, SignedOrNot
  <2>2. EncodeChatMessage(g, v) = Cat(Cat(Cat(b, d), n), y)
    BY <1>5 DEF EncodeChatMessage, Cat, LastSeen, Previewed, SignedOrNot
  <2> HIDE DEF a, b, c, d, m, n, x, y
  <2>3. Apart(Cat(a, c), Cat(b, d))
    BY <1>1, <1>2, ApartCat
  <2>4. Apart(Cat(Cat(a, c), m), Cat(Cat(b, d), n))
    BY <1>2, <2>3, ApartCat
  <2>5. Apart(Cat(Cat(Cat(a, c), m), x), Cat(Cat(Cat(b, d), n), y))
    BY <1>3, <2>4, ApartCat
  <2> QED BY <2>1, <2>2, <2>5
<1> QED BY <1>4, <1>5

\* The numbers that settings have.
LEMMA ApartNumbers == \A x, y \in {0, 1, 2} : Apart(WriteVarInt(x), WriteVarInt(y))
<1> TAKE x, y \in {0, 1, 2}
<1>1. x \in Int /\ y \in Int
  OBVIOUS
<1>2. Int32(x) = x /\ Int32(y) = y
  BY Counted
<1>3. CASE x = y
  <2>1. Apart(WriteVarInt(x), WriteVarInt(x))
    BY <1>1, VarIntIsSeq, ApartSame
  <2> QED BY <1>3, <2>1
<1>4. CASE x # y
  BY <1>1, <1>2, <1>4, VarIntsPart DEF Apart
<1> QED BY <1>3, <1>4

\* ServerboundClientSettings, with any settings.
LEMMA ApartSettings ==
  \A v, colours, skin, colours2, skin2 : \A mode, mode2 \in {0, 2}, hand, hand2 \in {0, 1} :
    Apart(EncodeClientSettings(<<Name, 5, mode, colours, skin, hand>>, v),
          EncodeClientSettings(<<Name, 5, mode2, colours2, skin2, hand2>>, v))
<1> TAKE v, colours, skin, colours2, skin2
<1> TAKE mode, mode2 \in {0, 2}, hand, hand2 \in {0, 1}
<1> DEFINE a == Cat(WriteString(Name), WriteByte(5))
           m == IF v <= V1_7 THEN WriteByte(1) ELSE WriteVarInt(mode)
           n == IF v <= V1_7 THEN WriteByte(1) ELSE WriteVarInt(mode2)
           c == WriteBool(colours)
           d == WriteBool(colours2)
           yes == WriteBool(TRUE)
           s == IF v <= V1_7 THEN Cat(WriteByte(skin % 2), yes) ELSE WriteByte(skin)
           t == IF v <= V1_7 THEN Cat(WriteByte(skin2 % 2), yes) ELSE WriteByte(skin2)
           h == When(v >= V1_9, WriteVarInt(hand))
           i == When(v >= V1_9, WriteVarInt(hand2))
           x == When(v >= V1_17_1, WriteBool(FALSE))
           y == When(v >= V1_18, yes)
           z == When(v >= V1_21_3, WriteVarInt(0))
<1>1. IsSeq(yes) /\ IsSeq(WriteBool(FALSE)) /\ IsSeq(WriteByte(5)) /\ IsSeq(WriteByte(1))
  BY Zenon, FixedAreSeq
<1>2. IsSeq(a)
  <2>1. IsSeq(WriteString(Name))
    BY StringIsSeq, Texts
  <2> QED BY Zenon, <1>1, <2>1, CatIsSeq
<1>3. Apart(m, n)
  <2>1. Apart(WriteVarInt(mode), WriteVarInt(mode2))
    BY ApartNumbers
  <2>2. Apart(WriteByte(1), WriteByte(1))
    BY <1>1, ApartSame
  <2> QED BY <2>1, <2>2
<1>4. Apart(c, d)
  BY Zenon, ApartAtoms DEF WriteBool, WriteByte
<1>5. Apart(s, t)
  <2>1. Apart(WriteByte(skin % 2), WriteByte(skin2 % 2)) /\ Apart(WriteByte(skin), WriteByte(skin2))
    BY ApartAtoms DEF WriteByte
  <2> HIDE DEF yes
  <2>2. Apart(Cat(WriteByte(skin % 2), yes), Cat(WriteByte(skin2 % 2), yes))
    BY <1>1, <2>1, ApartTail
  <2> QED BY <2>1, <2>2
<1>6. Apart(h, i)
  <2>1. Apart(WriteVarInt(hand), WriteVarInt(hand2))
    BY ApartNumbers
  <2> QED BY Zenon, <2>1, ApartWhen
<1>7. IsSeq(x) /\ IsSeq(y) /\ IsSeq(z)
  <2>1. \A k, w : IsSeq(w) => IsSeq(When(k, w))
    BY IsSeqEmpty DEF When
  <2>2. IsSeq(WriteVarInt(0))
    BY VarIntIsSeq
  <2> QED BY Zenon, <1>1, <2>1, <2>2
<1>8. EncodeClientSettings(<<Name, 5, mode, colours, skin, hand>>, v) =
        Cat(Cat(Cat(Cat(Cat(Cat(Cat(a, m), c), s), h), x), y), z)
  BY DEF EncodeClientSettings, Cat
<1>9. EncodeClientSettings(<<Name, 5, mode2, colours2, skin2, hand2>>, v) =
        Cat(Cat(Cat(Cat(Cat(Cat(Cat(a, n), d), t), i), x), y), z)
  BY DEF EncodeClientSettings, Cat
<1> HIDE DEF a, m, n, c, d, yes, s, t, h, i, x, y, z
<1> DEFINE a1 == Cat(a, m)
           b1 == Cat(a, n)
           a2 == Cat(a1, c)
           b2 == Cat(b1, d)
           a3 == Cat(a2, s)
           b3 == Cat(b2, t)
           a4 == Cat(a3, h)
           b4 == Cat(b3, i)
<1>10. Apart(a1, b1)
  BY <1>2, <1>3, ApartSame, ApartCat
<1> HIDE DEF a1, b1
<1>11. Apart(a2, b2)
  BY <1>4, <1>10, ApartCat
<1> HIDE DEF a2, b2
<1>12. Apart(a3, b3)
  BY <1>5, <1>11, ApartCat
<1> HIDE DEF a3, b3
<1>13. Apart(a4, b4)
  BY <1>6, <1>12, ApartCat
<1> HIDE DEF a4, b4
<1>14. Apart(Cat(a4, x), Cat(b4, x))
  BY <1>7, <1>13, ApartTail
<1>15. Apart(Cat(Cat(a4, x), y), Cat(Cat(b4, x), y))
  BY <1>7, <1>14, ApartTail
<1>16. Apart(Cat(Cat(Cat(a4, x), y), z), Cat(Cat(Cat(b4, x), y), z))
  BY <1>7, <1>15, ApartTail
<1> QED BY Zenon, <1>8, <1>9, <1>16 DEF a1, b1, a2, b2, a3, b3, a4, b4

\* The fields of the settings.
LEMMA SettingsPacket ==
  ASSUME NEW p \in SettingsPackets
  PROVE  /\ p.type = "ServerboundClientSettings"
         /\ \E mode \in {0, 2}, colours \in BOOLEAN, skin \in {0, 7}, hand \in {0, 1} :
              p.f = <<Name, 5, mode, colours, skin, hand>>
<1> DEFINE modes == {0, 2}
           skins == {0, 7}
           hands == {0, 1}
<1>1. PICK mode \in modes, colours \in BOOLEAN, skin \in skins, hand \in hands :
        p = Packet("ServerboundClientSettings", <<Name, 5, mode, colours, skin, hand>>)
  <2>1. SettingsPackets = { Packet("ServerboundClientSettings", <<Name, 5, mode, colours, skin, hand>>) :
                              mode \in modes, colours \in BOOLEAN, skin \in skins, hand \in hands }
    BY DEF SettingsPackets
  <2> HIDE DEF modes, skins, hands
  <2> QED BY <2>1
<1> DEFINE f == <<Name, 5, mode, colours, skin, hand>>
<1>2. p = Packet("ServerboundClientSettings", f)
  BY <1>1
<1> HIDE DEF f
<1>3. p.type = "ServerboundClientSettings" /\ p.f = f
  BY <1>2, PacketParts
<1> QED BY <1>3 DEF f

\* The fields of the login.
LEMMA LoginStartPacket ==
  \A v, id : LoginPacket(v, id).type = "ServerboundLoginStart" /\ LoginPacket(v, id).f = <<Name, LoginUUID(v, id)>>
BY PacketParts DEF LoginPacket

\* What the client has written last, and what it might have written instead.
WrittenInv ==
  /\ uniqueId \in UUIDs
  /\ privateKey \in Keys
  /\ written.type \in {"ServerboundLoginStart", "ServerboundChatMessage", "ServerboundClientSettings"} =>
       written \in Alternatives(written.type)

\* Two packets of the alternatives are apart.
LEMMA AlternativesApart ==
  ASSUME version \in Int, NEW type, NEW p \in Alternatives(type), NEW q \in Alternatives(type)
  PROVE  Apart(Encode(p, version), Encode(q, version))
<1>1. CASE type = "ServerboundLoginStart"
  <2>1. Alternatives(type) = { LoginPacket(version, id) : id \in UUIDs }
    BY <1>1 DEF Alternatives
  <2>2. PICK id \in UUIDs : p = LoginPacket(version, id)
    BY <2>1
  <2>3. PICK other \in UUIDs : q = LoginPacket(version, other)
    BY <2>1
  <2> DEFINE f == <<Name, LoginUUID(version, id)>>
             g == <<Name, LoginUUID(version, other)>>
  <2>4. p.type = "ServerboundLoginStart" /\ p.f = f /\ q.type = "ServerboundLoginStart" /\ q.f = g
    BY Zenon, <2>2, <2>3, LoginStartPacket
  <2>5. Apart(EncodeLoginStart(f, version), EncodeLoginStart(g, version))
    BY ApartLogins
  <2> HIDE DEF f, g
  <2>6. Encode(p, version) = EncodeLoginStart(f, version) /\ Encode(q, version) = EncodeLoginStart(g, version)
    BY <2>4 DEF Encode
  <2> QED BY <2>5, <2>6
<1>2. CASE type = "ServerboundChatMessage"
  <2>1. Alternatives(type) = UNION { ChatPackets(uniqueId, key) : key \in Keys }
    BY <1>2 DEF Alternatives
  <2>2. PICK k \in Keys : p \in ChatPackets(uniqueId, k)
    BY <2>1
  <2>3. PICK l \in Keys : q \in ChatPackets(uniqueId, l)
    BY <2>1
  <2>4. p.type = "ServerboundChatMessage" /\ p.f[1] \in {Empty, Short}
    BY <2>2, ChatPacket
  <2>5. q.type = "ServerboundChatMessage" /\ q.f[1] \in {Empty, Short}
    BY <2>3, ChatPacket
  <2>6. Encode(p, version) = EncodeChatMessage(p.f, version)
    BY <2>4 DEF Encode
  <2>7. Encode(q, version) = EncodeChatMessage(q.f, version)
    BY <2>5 DEF Encode
  <2> QED BY <2>4, <2>5, <2>6, <2>7, ApartChats
<1>3. CASE type = "ServerboundClientSettings"
  <2>1. p \in SettingsPackets /\ q \in SettingsPackets
    BY <1>3 DEF Alternatives
  <2>2. p.type = "ServerboundClientSettings" /\ q.type = "ServerboundClientSettings"
    BY <2>1, SettingsPacket
  <2>3. PICK mode \in {0, 2}, colours \in BOOLEAN, skin \in {0, 7}, hand \in {0, 1} :
          p.f = <<Name, 5, mode, colours, skin, hand>>
    BY Zenon, <2>1, SettingsPacket
  <2>4. PICK mode2 \in {0, 2}, colours2 \in BOOLEAN, skin2 \in {0, 7}, hand2 \in {0, 1} :
          q.f = <<Name, 5, mode2, colours2, skin2, hand2>>
    BY Zenon, <2>1, SettingsPacket
  <2>5. Apart(EncodeClientSettings(<<Name, 5, mode, colours, skin, hand>>, version),
              EncodeClientSettings(<<Name, 5, mode2, colours2, skin2, hand2>>, version))
    BY Zenon, ApartSettings
  <2>6. Apart(EncodeClientSettings(p.f, version), EncodeClientSettings(q.f, version))
    BY Zenon, <2>3, <2>4, <2>5
  <2>7. Encode(p, version) = EncodeClientSettings(p.f, version) /\ Encode(q, version) = EncodeClientSettings(q.f, version)
    BY <2>2 DEF Encode
  <2> QED BY <2>6, <2>7
<1>4. CASE type \notin {"ServerboundLoginStart", "ServerboundChatMessage", "ServerboundClientSettings"}
  BY <1>4 DEF Alternatives
<1> QED BY <1>1, <1>2, <1>3, <1>4

\* Only SendLogin, Chat and SendClientSettings write packets of these types.
LEMMA WrittenStep ==
  ASSUME WrittenInv, UNCHANGED <<version, uniqueId, privateKey>>,
         \/ written' = written
         \/ written'.type \notin {"ServerboundLoginStart", "ServerboundChatMessage", "ServerboundClientSettings"}
         \/ written' \in Alternatives(written'.type)
  PROVE  WrittenInv'
<1>1. \A type : Alternatives(type)' = Alternatives(type)
  BY DEF Alternatives
<1>2. uniqueId' \in UUIDs /\ privateKey' \in Keys
  BY DEF WrittenInv
<1>3. CASE written' = written
  BY <1>1, <1>2, <1>3 DEF WrittenInv
<1>4. CASE written'.type \notin {"ServerboundLoginStart", "ServerboundChatMessage", "ServerboundClientSettings"}
  BY <1>2, <1>4 DEF WrittenInv
<1>5. CASE written' \in Alternatives(written'.type)
  BY <1>1, <1>2, <1>5 DEF WrittenInv
<1> QED BY <1>3, <1>4, <1>5

\* No answer is a packet of these types.
LEMMA AnswerType ==
  ASSUME NEW type, NEW f, NEW p, p = Answer(type, f), p # NoPacket
  PROVE  p.type \notin {"ServerboundLoginStart", "ServerboundChatMessage", "ServerboundClientSettings"}
<1>1. CASE type = "ClientboundKeepAlive"
  BY <1>1, PacketParts DEF Answer
<1>2. CASE type = "ClientboundConfigKeepAlive"
  BY <1>2, PacketParts DEF Answer
<1>3. CASE type = "ClientboundCustomPayload"
  BY <1>3, PacketParts DEF Answer
<1>4. CASE type = "ClientboundSelectKnownPacks"
  BY <1>4, PacketParts DEF Answer
<1>5. CASE type = "ClientboundCookieRequest"
  <2> DEFINE c == <<f[1], FALSE, Empty>>
  <2>1. p = Packet("ServerboundCookieResponse", c)
    BY <1>5 DEF Answer
  <2> HIDE DEF c
  <2> QED BY <2>1, PacketParts
<1>6. CASE type \notin {"ClientboundKeepAlive", "ClientboundConfigKeepAlive", "ClientboundCustomPayload",
                        "ClientboundSelectKnownPacks", "ClientboundCookieRequest"}
  BY <1>6 DEF Answer
<1> QED BY <1>1, <1>2, <1>3, <1>4, <1>5, <1>6

\* Write leaves the packet it was given, or what was written before.
LEMMA WriteWrites == \A p, s : Write(p, s) => written' \in {p, written}
BY DEF Write

\* A reader of what SendLogin, SendClientSettings or Chat wrote can tell the packet apart by
\* the version and by the flags, counts and modes in front of what they decide: no two
\* packets of the type have values of different kinds at a place where they are still alike.
THEOREM Distinguished == Spec => []SelfDescribing
<1> DEFINE special == {"ServerboundLoginStart", "ServerboundChatMessage", "ServerboundClientSettings"}
<1>1. Init => WrittenInv
  BY NoPacketParts DEF Init, WrittenInv
<1>2. WrittenInv /\ [Next]_vars => WrittenInv'
  <2> SUFFICES ASSUME WrittenInv, [Next]_vars PROVE WrittenInv'
    OBVIOUS
  <2>1. CASE ServerSends
    <3>1. UNCHANGED <<version, uniqueId, privateKey, written>>
      BY <2>1 DEF ServerSends, clientVars, writeVars
    <3> QED BY <3>1, WrittenStep
  <2>2. CASE ReadPacket
    <3>1. UNCHANGED <<version, uniqueId, privateKey>>
      BY <2>2 DEF ReadPacket, clientVars
    <3>2. written' = written \/ written'.type \notin special
      <4> DEFINE id == ReadAtom(Reader(Data.wire), "id")
                 r == Decode(Last(id), Drop(id), version)
      <4>1. \/ UNCHANGED writeVars
            \/ Handle(Last(id), r.got)
            \/ UNCHANGED writeVars /\ ~id.ok
            \/ Handle("none", id.got)
        <5>1. NewAndDecode(Data.plain, id)
          BY <2>2 DEF ReadPacket
        <5> HIDE DEF id, r
        <5>2. Return(Data.plain, Last(id), r) \/ Return(Data.plain, "none", id)
          BY <5>1 DEF NewAndDecode, r
        <5> QED BY <5>2 DEF Return
      <4> HIDE DEF id, r
      <4>2. \A type, f : Handle(type, f) => written' = written \/ written'.type \notin special
        <5> SUFFICES ASSUME NEW type, NEW f, Handle(type, f)
                     PROVE  written' = written \/ written'.type \notin special
          OBVIOUS
        <5> DEFINE p == Answer(type, f)
        <5>1. CASE p = NoPacket
          BY <5>1 DEF Handle, writeVars
        <5>2. CASE p # NoPacket
          <6>1. Write(p, state)
            BY <5>2 DEF Handle
          <6>2. p.type \notin special
            BY <5>2, AnswerType
          <6> HIDE DEF p, special
          <6> QED BY <6>1, <6>2, WriteWrites
        <5> QED BY <5>1, <5>2
      <4> HIDE DEF special
      <4> QED BY <4>1, <4>2 DEF writeVars
    <3> QED BY <3>1, <3>2, WrittenStep
  <2>3. CASE Forget
    <3>1. UNCHANGED <<version, uniqueId, privateKey>> /\ written' = NoPacket
      BY <2>3 DEF Forget, clientVars
    <3> QED BY <3>1, NoPacketParts, WrittenStep
  <2>4. ASSUME NEW p, Calls(p), p.type \notin special \/ p \in Alternatives(p.type) PROVE WrittenInv'
    <3>1. UNCHANGED <<version, uniqueId, privateKey>> /\ written' \in {p, written}
      BY <2>4, WriteWrites DEF Calls, clientVars
    <3> QED BY <2>4, <3>1, WrittenStep
  <2>5. CASE SendHandshake
    <3>1. PICK next \in {<<1, "Status">>, <<2, "Login">>} :
            Calls(Packet("ServerboundHandshake", <<version, Name, 0, next[1]>>))
      BY <2>5 DEF SendHandshake
    <3> QED BY <2>4, <3>1, PacketParts
  <2>6. CASE SendLogin
    <3>1. Calls(LoginPacket(version, uniqueId))
      BY <2>6 DEF SendLogin
    <3>2. LoginPacket(version, uniqueId).type = "ServerboundLoginStart"
      BY LoginStartPacket
    <3>3. Alternatives("ServerboundLoginStart") = { LoginPacket(version, id) : id \in UUIDs }
      BY DEF Alternatives
    <3>4. LoginPacket(version, uniqueId) \in Alternatives("ServerboundLoginStart")
      BY <3>3 DEF WrittenInv
    <3> QED BY <2>4, <3>1, <3>2, <3>4
  <2>7. CASE SendPing
    <3>1. PICK time \in LongIds : Calls(Packet("ServerboundPing", <<time>>))
      BY <2>7 DEF SendPing
    <3> QED BY <2>4, <3>1, PacketParts
  <2>8. CASE SendClientSettings
    <3>1. PICK p \in SettingsPackets : Calls(p)
      BY <2>8 DEF SendClientSettings
    <3>2. p.type = "ServerboundClientSettings"
      BY SettingsPacket
    <3>3. p \in Alternatives(p.type)
      BY <3>2 DEF Alternatives
    <3> QED BY <2>4, <3>1, <3>3
  <2>9. CASE Chat
    <3>1. PICK p \in ChatPackets(uniqueId, privateKey) : Calls(p)
      BY <2>9 DEF Chat
    <3>2. p.type = "ServerboundChatMessage"
      BY ChatPacket
    <3>3. p \in Alternatives(p.type)
      BY <3>2 DEF Alternatives, WrittenInv
    <3> QED BY <2>4, <3>1, <3>3
  <2>10. CASE SetPosition
    <3>1. Calls(Packet("ServerboundPlayerPosition", <<>>))
      BY <2>10 DEF SetPosition
    <3> QED BY <2>4, <3>1, PacketParts
  <2>11. CASE UNCHANGED vars
    <3>1. UNCHANGED <<version, uniqueId, privateKey, written>>
      BY <2>11 DEF vars, clientVars, writeVars
    <3> QED BY <3>1, WrittenStep
  <2> QED BY <2>1, <2>2, <2>3, <2>5, <2>6, <2>7, <2>8, <2>9, <2>10, <2>11 DEF Next
<1> HIDE DEF special
<1>3. CodecInv /\ WrittenInv => SelfDescribing
  <2> SUFFICES ASSUME CodecInv, WrittenInv, NEW p \in Alternatives(written.type)
               PROVE  Aligned(Encode(written, version), Encode(p, version))
                      /\ Aligned(Encode(p, version), Encode(written, version))
    BY DEF SelfDescribing
  <2>1. version \in Int
    BY VersionIsInt DEF CodecInv, CodecTypes
  <2>2. written.type \in {"ServerboundLoginStart", "ServerboundChatMessage", "ServerboundClientSettings"}
    BY DEF Alternatives
  <2>3. written \in Alternatives(written.type)
    BY <2>2 DEF WrittenInv
  <2>4. Apart(Encode(written, version), Encode(p, version))
    BY <2>1, <2>3, AlternativesApart
  <2> QED BY <2>4, ApartAligned
<1> QED BY <1>1, <1>2, <1>3, CodecAlways, PTL DEF Spec

=============================================================================
