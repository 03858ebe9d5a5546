----------------------------- MODULE WireProofs -----------------------------
(***************************************************************************)
(* Proofs about the operators of Wire: what the writers of protocol.go     *)
(* write, its readers read, and what WritePacket frames, ReadPacket finds, *)
(* for every size of an int32 and of a VarInt's bytes that goes with it.   *)
(*                                                                         *)
(* WriteVarInt and ReadVarInt are recursions, and the size of a wire is a  *)
(* sum, so the proofs go by induction.  It is over a set instead of an     *)
(* operator: the elements that a property does not hold of have a least    *)
(* one (LeastElement).  A recursive function is worth what its equation    *)
(* says once there is a function that satisfies it, which Iterated and     *)
(* VarIntBytesExist show.                                                  *)
(***************************************************************************)
EXTENDS Wire, SequenceTheorems, WellFoundedInduction, TLAPS

-----------------------------------------------------------------------------
(* Induction over sets, and recursive functions.                           *)

\* A set of naturals that is not empty has a least element.
LEMMA LeastElement ==
  ASSUME NEW T \in SUBSET Nat, T # {}
  PROVE  \E x \in T : \A y \in T : x <= y
<1> DEFINE R == { ss \in Nat \X Nat : ss[1] < ss[2] }
<1>1. IsWellFoundedOn(R, Nat)
  BY NatLessThanWellFounded DEF OpToRel
<1> HIDE DEF R
<1>2. \E x \in T : \A y \in T : ~(<<y, x>> \in R)
  BY <1>1, WFMin
<1>3. \A x, y \in Nat : <<y, x>> \in R <=> y < x
  BY DEF R
<1>4. PICK x \in T : \A y \in T : ~(<<y, x>> \in R)
  BY <1>2
<1>5. ASSUME NEW y \in T PROVE x <= y
  <2>1. ~(y < x) /\ x \in Nat /\ y \in Nat
    BY <1>3, <1>4
  <2> QED BY <2>1
<1> QED BY <1>5

\* What holds of 0, and of i whenever it holds of i - 1, holds up to n.
LEMMA Induction ==
  ASSUME NEW n \in Nat, NEW T, 0 \in T, \A i \in 1 .. n : i - 1 \in T => i \in T
  PROVE  0 .. n \subseteq T
<1> DEFINE Out == { i \in 0 .. n : i \notin T }
<1> SUFFICES ASSUME Out # {} PROVE FALSE
  OBVIOUS
<1>1. PICK x \in Out : \A y \in Out : x <= y
  <2> HIDE DEF Out
  <2> Out \in SUBSET Nat
    BY DEF Out
  <2> QED BY LeastElement
<1>2. x \in 1 .. n /\ x - 1 \in 0 .. n
  OBVIOUS
<1>3. x - 1 \in T
  BY <1>1, <1>2
<1> QED BY <1>2, <1>3

\* What holds of i whenever it holds of all that is smaller, holds.
LEMMA StrongInduction ==
  ASSUME NEW T, \A i \in Nat : (\A j \in Nat : j < i => j \in T) => i \in T
  PROVE  Nat \subseteq T
<1> DEFINE Out == { i \in Nat : i \notin T }
<1> SUFFICES ASSUME Out # {} PROVE FALSE
  OBVIOUS
<1>1. PICK x \in Out : \A y \in Out : x <= y
  BY LeastElement
<1> QED BY <1>1

\* A function defined by steps exists.
LEMMA Iterated ==
  ASSUME NEW S, NEW a \in S, NEW n \in Nat, NEW step \in [1 .. n -> [S -> S]]
  PROVE  \E f \in [0 .. n -> S] : f[0] = a /\ \A i \in 1 .. n : f[i] = step[i][f[i - 1]]
<1> DEFINE T == { m \in 0 .. n :
                    \E f \in [0 .. m -> S] : f[0] = a /\ \A i \in 1 .. m : f[i] = step[i][f[i - 1]] }
<1>1. 0 \in T
  <2> DEFINE f == [i \in 0 .. 0 |-> a]
  <2>1. f \in [0 .. 0 -> S] /\ f[0] = a
    OBVIOUS
  <2>2. \A i \in 1 .. 0 : f[i] = step[i][f[i - 1]]
    OBVIOUS
  <2> HIDE DEF f
  <2> QED BY <2>1, <2>2
<1>2. ASSUME NEW m \in 1 .. n, m - 1 \in T PROVE m \in T
  <2>1. PICK g \in [0 .. m - 1 -> S] : g[0] = a /\ \A i \in 1 .. m - 1 : g[i] = step[i][g[i - 1]]
    BY <1>2
  <2> DEFINE f == [i \in 0 .. m |-> IF i < m THEN g[i] ELSE step[m][g[m - 1]]]
  <2>2. step[m] \in [S -> S] /\ g[m - 1] \in S
    OBVIOUS
  <2>3. f \in [0 .. m -> S]
    BY <2>2
  <2>4. f[0] = a
    BY <2>1
  <2>5. \A i \in 1 .. m : f[i] = step[i][f[i - 1]]
    BY <2>1
  <2> HIDE DEF f
  <2>6. \E h \in [0 .. m -> S] : h[0] = a /\ \A i \in 1 .. m : h[i] = step[i][h[i - 1]]
    BY <2>3, <2>4, <2>5
  <2>7. m \in 0 .. n
    OBVIOUS
  <2> QED BY <2>6, <2>7 DEF T
<1> HIDE DEF T
<1>3. 0 .. n \subseteq T
  BY <1>1, <1>2, Induction
<1>4. n \in T
  BY <1>3
<1> QED BY <1>4 DEF T

\* Shift is a power of GroupSize, as the shift count of ReadVarInt's loop makes it.
LEMMA ShiftDef ==
  /\ Shift \in [0 .. MaxVarIntSize -> Nat]
  /\ Shift[0] = 1
  /\ \A i \in 1 .. MaxVarIntSize : Shift[i] = GroupSize * Shift[i - 1]
<1> DEFINE n == MaxVarIntSize
           step == [i \in 1 .. n |-> [s \in Nat |-> GroupSize * s]]
<1>1. step \in [1 .. n -> [Nat -> Nat]]
  BY WireAssumption
<1>2. PICK f \in [0 .. n -> Nat] : f[0] = 1 /\ \A i \in 1 .. n : f[i] = step[i][f[i - 1]]
  <2> HIDE DEF step
  <2> DEFINE S == Nat
             a == 1
  <2>1. n \in Nat
    BY WireAssumption
  <2>3. a \in S
    OBVIOUS
  <2>4. step \in [1 .. n -> [S -> S]]
    BY <1>1
  <2> HIDE DEF n, S, a
  <2>2. \E f \in [0 .. n -> S] : f[0] = a /\ \A i \in 1 .. n : f[i] = step[i][f[i - 1]]
    BY <2>1, <2>3, <2>4, Iterated
  <2> QED BY <2>2 DEF S, a
<1>3. ASSUME NEW i \in 1 .. n PROVE f[i] = GroupSize * f[i - 1]
  <2>1. step[i] = [s \in Nat |-> GroupSize * s] /\ f[i - 1] \in Nat
    BY WireAssumption
  <2> HIDE DEF step
  <2> QED BY <1>2, <2>1
<1>4. f = [i \in 0 .. MaxVarIntSize |-> IF i = 0 THEN 1 ELSE GroupSize * f[i - 1]]
  <2>1. \A i \in 0 .. n : f[i] = IF i = 0 THEN 1 ELSE GroupSize * f[i - 1]
    <3> TAKE i \in 0 .. n
    <3>1. CASE i = 0
      BY <1>2, <3>1
    <3>2. CASE i # 0
      <4>1. i \in 1 .. n
        BY <3>2
      <4> QED BY <1>3, <3>2, <4>1
    <3> QED BY <3>1, <3>2
  <2>2. f = [i \in 0 .. n |-> f[i]]
    OBVIOUS
  <2> QED BY <2>1, <2>2
<1>5. Shift = [i \in 0 .. MaxVarIntSize |-> IF i = 0 THEN 1 ELSE GroupSize * Shift[i - 1]]
  BY <1>4, WireAssumption DEF Shift
<1>6. \A i \in 0 .. n : Shift[i] \in Nat
  <2> DEFINE T == { i \in 0 .. n : Shift[i] \in Nat }
  <2>1. 0 \in T
    BY <1>5, WireAssumption
  <2>2. ASSUME NEW i \in 1 .. n, i - 1 \in T PROVE i \in T
    BY <1>5, WireAssumption, <2>2
  <2> HIDE DEF T
  <2>3. 0 .. n \subseteq T
    BY <2>1, <2>2, Induction, WireAssumption
  <2> QED BY <2>3 DEF T
<1> QED
  <2>1. Shift = [i \in 0 .. MaxVarIntSize |-> Shift[i]]
    BY <1>5, WireAssumption
  <2>2. Shift \in [0 .. MaxVarIntSize -> Nat]
    BY <1>6, <2>1
  <2>3. Shift[0] = 1
    BY <1>5, WireAssumption
  <2>4. \A i \in 1 .. MaxVarIntSize : Shift[i] = GroupSize * Shift[i - 1]
    BY <1>5, WireAssumption
  <2> QED BY <2>2, <2>3, <2>4

-----------------------------------------------------------------------------
(* VarInts.                                                                *)

Bytes == {"byte"} \X Nat

\* What WriteVarInt calls itself with.
VarIntBytes(f, n) ==
  f = [uv \in 0 .. n - 1 |->
         IF uv < GroupSize
         THEN WriteByte(uv)
         ELSE WriteByte((uv % GroupSize) + GroupSize) \o f[uv \div GroupSize]]

\* What a VarInt's byte takes off a value, and what is left for the next byte.
LEMMA Quotient ==
  ASSUME NEW uv \in Nat
  PROVE  /\ uv % GroupSize \in 0 .. GroupSize - 1
         /\ uv \div GroupSize \in Nat
         /\ uv = GroupSize * (uv \div GroupSize) + (uv % GroupSize)
         /\ uv >= GroupSize => uv \div GroupSize < uv /\ uv \div GroupSize >= 1
BY WireAssumption

\* The continuation bit does not change the payload of a byte.
LEMMA Remainder ==
  ASSUME NEW x \in 0 .. GroupSize - 1
  PROVE  x % GroupSize = x /\ (x + GroupSize) % GroupSize = x
BY WireAssumption

\* The recursion of WriteVarInt defines a function.
LEMMA VarIntBytesExist ==
  ASSUME NEW n \in Nat
  PROVE  \E f : VarIntBytes(f, n)
<1> DEFINE T == { m \in 0 .. n : \E f : VarIntBytes(f, m) }
<1>1. 0 \in T
  <2> DEFINE f == [uv \in 0 .. 0 - 1 |-> 0]
  <2>1. VarIntBytes(f, 0)
    BY DEF VarIntBytes
  <2> HIDE DEF f
  <2> QED BY <2>1
<1>2. ASSUME NEW m \in 1 .. n, m - 1 \in T PROVE m \in T
  <2>1. PICK g : VarIntBytes(g, m - 1)
    BY <1>2
  <2> DEFINE top == m - 1
             last == IF top < GroupSize
                     THEN WriteByte(top)
                     ELSE WriteByte((top % GroupSize) + GroupSize) \o g[top \div GroupSize]
             f == [uv \in 0 .. m - 1 |-> IF uv < top THEN g[uv] ELSE last]
  <2> HIDE DEF last
  <2>2. ASSUME NEW uv \in 0 .. m - 1
        PROVE  f[uv] = IF uv < GroupSize
                       THEN WriteByte(uv)
                       ELSE WriteByte((uv % GroupSize) + GroupSize) \o f[uv \div GroupSize]
    <3>1. uv \in Nat /\ uv <= top /\ top \in Nat
      OBVIOUS
    <3>2. uv >= GroupSize => uv \div GroupSize \in Nat /\ uv \div GroupSize < uv
      BY <3>1, Quotient
    <3>3. uv >= GroupSize =>
            uv \div GroupSize \in 0 .. m - 1 /\ uv \div GroupSize < top /\ f[uv \div GroupSize] = g[uv \div GroupSize]
      BY <3>1, <3>2
    <3>4. CASE uv < top
      <4>1. uv \in 0 .. (m - 1) - 1
        BY <3>1, <3>4
      <4>2. g[uv] = IF uv < GroupSize
                    THEN WriteByte(uv)
                    ELSE WriteByte((uv % GroupSize) + GroupSize) \o g[uv \div GroupSize]
        BY <2>1, <4>1 DEF VarIntBytes
      <4>3. f[uv] = g[uv]
        BY <3>4
      <4> HIDE DEF f
      <4> QED BY <3>1, <3>3, <4>2, <4>3, WireAssumption
    <3>5. CASE uv = top
      <4>1. f[uv] = last
        BY <3>5
      <4> HIDE DEF f
      <4> QED BY <3>1, <3>3, <3>5, <4>1, WireAssumption DEF last
    <3> HIDE DEF top
    <3> QED BY <3>1, <3>4, <3>5
  <2>3. f = [uv \in 0 .. m - 1 |-> f[uv]]
    OBVIOUS
  <2> HIDE DEF f
  <2>4. VarIntBytes(f, m)
    BY <2>2, <2>3 DEF VarIntBytes
  <2> QED BY <2>4
<1> HIDE DEF T
<1>3. n \in T
  BY <1>1, <1>2, Induction
<1> QED BY <1>3 DEF T

\* The quotients that the bytes of a VarInt are the remainders of.
Quotients(b, uv, q) ==
  /\ b \in Seq(Bytes) /\ Len(b) >= 1
  /\ q \in [1 .. Len(b) -> Nat]
  /\ q[1] = uv
  /\ q[Len(b)] < GroupSize /\ b[Len(b)] = <<"byte", q[Len(b)]>>
  /\ \A i \in 1 .. Len(b) - 1 :
       /\ q[i] >= GroupSize
       /\ b[i] = <<"byte", (q[i] % GroupSize) + GroupSize>>
       /\ q[i + 1] = q[i] \div GroupSize

\* WriteVarInt's bytes are the remainders of a chain of quotients.
LEMMA Remainders ==
  ASSUME NEW f, NEW n \in Nat, VarIntBytes(f, n), NEW x \in 0 .. n - 1
  PROVE  \E q : Quotients(f[x], x, q)
<1> DEFINE T == { uv \in Nat : uv < n => \E q : Quotients(f[uv], uv, q) }
<1>1. ASSUME NEW uv \in Nat, \A j \in Nat : j < uv => j \in T, uv < n
      PROVE  \E q : Quotients(f[uv], uv, q)
  <2>1. f[uv] = IF uv < GroupSize
                THEN WriteByte(uv)
                ELSE WriteByte((uv % GroupSize) + GroupSize) \o f[uv \div GroupSize]
    <3>1. uv \in 0 .. n - 1
      BY <1>1
    <3> HIDE DEF T
    <3> QED BY <3>1 DEF VarIntBytes
  <2>2. CASE uv < GroupSize
    <3> DEFINE b == << <<"byte", uv>> >>
               q == [i \in 1 .. 1 |-> uv]
    <3>1. f[uv] = b
      BY <2>1, <2>2 DEF WriteByte
    <3>2. b \in Seq(Bytes) /\ Len(b) = 1 /\ b[1] = <<"byte", uv>>
      BY DEF Bytes
    <3>3. q \in [1 .. 1 -> Nat] /\ q[1] = uv
      OBVIOUS
    <3> HIDE DEF b, q
    <3>4. Quotients(b, uv, q)
      BY <2>2, <3>2, <3>3 DEF Quotients
    <3> QED BY <3>1, <3>4
  <2>3. CASE uv >= GroupSize
    <3> DEFINE quot == uv \div GroupSize
               a == <<"byte", (uv % GroupSize) + GroupSize>>
               c == f[quot]
               b == <<a>> \o c
    <3>1. quot \in Nat /\ quot < uv /\ uv % GroupSize \in Nat
      BY <2>3, Quotient
    <3>2. quot \in T /\ quot < n
      BY <1>1, <3>1
    <3>3. PICK p : Quotients(c, quot, p)
      BY <3>2
    <3>4. f[uv] = b
      <4>1. ~(uv < GroupSize)
        BY <2>3, WireAssumption
      <4> QED BY <2>1, <4>1 DEF WriteByte
    <3>5. a \in Bytes
      BY <3>1, WireAssumption DEF Bytes
    <3> HIDE DEF quot, a, c
    <3>6. /\ b \in Seq(Bytes) /\ Len(b) = Len(c) + 1 /\ b[1] = a
          /\ \A i \in 1 .. Len(c) : b[i + 1] = c[i]
          /\ Len(c) \in Nat /\ Len(c) >= 1
      BY <3>3, <3>5 DEF Quotients
    <3> HIDE DEF b
    <3> DEFINE q == [i \in 1 .. Len(b) |-> IF i = 1 THEN uv ELSE p[i - 1]]
    <3>7. /\ q \in [1 .. Len(b) -> Nat] /\ q[1] = uv
          /\ \A i \in 1 .. Len(c) : q[i + 1] = p[i]
      BY <3>3, <3>6 DEF Quotients
    <3> HIDE DEF q
    <3>8. q[Len(b)] < GroupSize /\ b[Len(b)] = <<"byte", q[Len(b)]>>
      <4>1. p[Len(c)] < GroupSize /\ c[Len(c)] = <<"byte", p[Len(c)]>>
        BY <3>3 DEF Quotients
      <4>2. Len(c) \in 1 .. Len(c) /\ Len(b) = Len(c) + 1
        BY <3>6
      <4>3. q[Len(c) + 1] = p[Len(c)] /\ b[Len(c) + 1] = c[Len(c)]
        BY <3>6, <3>7, <4>2
      <4> QED BY <4>1, <4>2, <4>3
    <3>9. ASSUME NEW i \in 1 .. Len(b) - 1
          PROVE  /\ q[i] >= GroupSize
                 /\ b[i] = <<"byte", (q[i] % GroupSize) + GroupSize>>
                 /\ q[i + 1] = q[i] \div GroupSize
      <4>1. CASE i = 1
        <5>1. q[1 + 1] = quot
          BY <3>3, <3>6, <3>7 DEF Quotients
        <5> QED BY <2>3, <3>6, <3>7, <4>1, <5>1 DEF a, quot
      <4>2. CASE i # 1
        <5>1. PICK j \in 1 .. Len(c) - 1 : i = j + 1
          <6>1. i - 1 \in 1 .. Len(c) - 1 /\ i = (i - 1) + 1
            BY <3>6, <4>2
          <6> QED BY <6>1
        <5>2. b[i] = c[j] /\ q[i] = p[j] /\ q[i + 1] = p[j + 1]
          BY <3>6, <3>7, <5>1
        <5>3. /\ p[j] >= GroupSize
              /\ c[j] = <<"byte", (p[j] % GroupSize) + GroupSize>>
              /\ p[j + 1] = p[j] \div GroupSize
          BY <3>3 DEF Quotients
        <5> QED BY <5>2, <5>3
      <4> QED BY <4>1, <4>2
    <3>10. Quotients(b, uv, q)
      BY <3>6, <3>7, <3>8, <3>9 DEF Quotients
    <3> QED BY <3>4, <3>10
  <2> QED BY <2>2, <2>3, WireAssumption
<1>2. Nat \subseteq T
  <2>1. ASSUME NEW uv \in Nat, \A j \in Nat : j < uv => j \in T PROVE uv \in T
    BY <1>1, <2>1
  <2> HIDE DEF T
  <2> QED BY <2>1, StrongInduction
<1>3. x \in T
  BY <1>2
<1> QED BY <1>3

\* The constants are what the proofs count with.
LEMMA Sizes ==
  /\ GroupSize \in Nat /\ GroupSize > 1
  /\ MaxVarIntSize \in Nat /\ MaxVarIntSize > 1
  /\ IntSize \in Nat /\ IntSize > 0
  /\ Shift[MaxVarIntSize] \in Nat /\ IntSize <= Shift[MaxVarIntSize]
<1>1. MaxVarIntSize \in 0 .. MaxVarIntSize /\ MaxVarIntSize - 1 \in 0 .. MaxVarIntSize
  BY WireAssumption
<1>2. Shift[MaxVarIntSize] \in Nat /\ Shift[MaxVarIntSize - 1] \in Nat
  BY <1>1, ShiftDef
<1>3. IntSize \in Shift[MaxVarIntSize - 1] + 1 .. Shift[MaxVarIntSize]
  BY WireAssumption
<1> QED BY <1>2, <1>3, WireAssumption

\* So are the bytes of any integer, which is taken as a uint32 first.
LEMMA VarIntWritten ==
  ASSUME NEW x \in Int
  PROVE  x % IntSize \in 0 .. IntSize - 1 /\ \E q : Quotients(WriteVarInt(x), x % IntSize, q)
<1> DEFINE bytes[uv \in 0 .. IntSize - 1] ==
             IF uv < GroupSize
             THEN WriteByte(uv)
             ELSE WriteByte((uv % GroupSize) + GroupSize) \o bytes[uv \div GroupSize]
<1>1. IntSize \in Nat /\ IntSize > 0
  BY Sizes
<1>2. x % IntSize \in 0 .. IntSize - 1
  BY <1>1
<1>3. VarIntBytes(bytes, IntSize)
  BY <1>1, VarIntBytesExist DEF VarIntBytes
<1>4. WriteVarInt(x) = bytes[x % IntSize]
  BY DEF WriteVarInt
<1> HIDE DEF bytes
<1> QED BY <1>1, <1>2, <1>3, <1>4, Remainders

\* What the bytes after the first i come to.
LEMMA Scaled ==
  ASSUME NEW b, NEW uv \in Nat, NEW q, Quotients(b, uv, q),
         NEW n \in 0 .. MaxVarIntSize, n < Len(b)
  PROVE  \A i \in 0 .. n : q[i + 1] * Shift[i] \in 0 .. uv
<1>0. Len(b) \in Nat
  BY DEF Quotients
<1> DEFINE T == { i \in 0 .. n : q[i + 1] * Shift[i] \in 0 .. uv }
<1>1. 0 \in T
  <2>1. q[1] = uv /\ Shift[0] = 1
    BY ShiftDef DEF Quotients
  <2>2. q[0 + 1] * Shift[0] = uv
    BY <2>1
  <2>3. 0 \in 0 .. n
    BY Sizes
  <2> QED BY <2>2, <2>3
<1>2. ASSUME NEW i \in 1 .. n, i - 1 \in T PROVE i \in T
  <2>1. i \in 1 .. Len(b) - 1 /\ i \in 1 .. MaxVarIntSize
    BY <1>0, Sizes
  <2>2. q[i] \in Nat /\ q[i + 1] = q[i] \div GroupSize
    BY <2>1 DEF Quotients
  <2>3. q[i + 1] \in Nat /\ GroupSize * q[i + 1] \in 0 .. q[i]
    <3> DEFINE a == q[i]
               d == q[i + 1]
    <3>1. a \in Nat /\ d = a \div GroupSize
      BY <2>2
    <3> HIDE DEF a, d
    <3>2. a % GroupSize \in 0 .. GroupSize - 1 /\ d \in Nat /\ a = GroupSize * d + (a % GroupSize)
      BY <3>1, Quotient
    <3>3. GroupSize * d \in Nat
      BY <3>2, Sizes
    <3>4. GroupSize * d \in 0 .. a
      <4> DEFINE g == GroupSize * d
                 r == a % GroupSize
      <4>1. g \in Nat /\ r \in Nat /\ a = g + r
        BY <3>2, <3>3, Sizes
      <4> HIDE DEF g, r
      <4>2. g \in 0 .. a
        BY <3>1, <4>1
      <4> QED BY <4>2 DEF g
    <3> QED BY <3>2, <3>4 DEF a, d
  <2>4. Shift[i - 1] \in Nat /\ Shift[i] = GroupSize * Shift[i - 1]
    <3>1. i - 1 \in 0 .. MaxVarIntSize
      BY <2>1, Sizes
    <3> QED BY <2>1, <3>1, ShiftDef
  <2>5. q[i] * Shift[i - 1] \in 0 .. uv
    <3>1. q[(i - 1) + 1] * Shift[i - 1] \in 0 .. uv
      BY <1>2
    <3>2. (i - 1) + 1 = i
      OBVIOUS
    <3> QED BY <3>1, <3>2
  <2> HIDE DEF T
  <2> DEFINE a == q[i]
             d == q[i + 1]
             s == Shift[i - 1]
  <2>9. a \in Nat /\ d \in Nat /\ s \in Nat /\ GroupSize \in Nat
    BY <2>2, <2>3, <2>4, Sizes
  <2>6. d * (GroupSize * s) = (GroupSize * d) * s
    <3> HIDE DEF a, d, s
    <3> QED BY <2>9
  <2>7. (GroupSize * d) * s <= a * s
    <3>1. GroupSize * d \in Nat /\ a \in Nat /\ s \in Nat /\ GroupSize * d <= a
      BY <2>2, <2>3, <2>4, Sizes
    <3> DEFINE g == GroupSize * d
    <3> HIDE DEF g, a, s
    <3> QED BY <3>1
  <2>8. d * (GroupSize * s) \in Nat
    <3> HIDE DEF a, d, s
    <3> QED BY <2>9
  <2>10. d * (GroupSize * s) \in 0 .. uv
    <3>1. a * s \in 0 .. uv
      BY <2>5
    <3> HIDE DEF a, d, s
    <3> QED BY <2>6, <2>7, <2>8, <2>9, <3>1
  <2> QED BY <2>4, <2>10 DEF T
<1> HIDE DEF T
<1>3. 0 .. n \subseteq T
  <2>1. n \in Nat
    BY Sizes
  <2> QED BY <1>1, <1>2, <2>1, Induction
<1> QED BY <1>3 DEF T

\* A VarInt that WriteVarInt writes is never longer than ReadVarInt allows.
LEMMA VarIntFits ==
  ASSUME NEW b, NEW uv \in 0 .. IntSize - 1, NEW q, Quotients(b, uv, q)
  PROVE  Len(b) \in 1 .. MaxVarIntSize
<1>0. Len(b) \in Nat /\ Len(b) >= 1 /\ MaxVarIntSize \in Nat /\ MaxVarIntSize > 1
  BY WireAssumption DEF Quotients
<1> SUFFICES ASSUME MaxVarIntSize < Len(b) PROVE FALSE
  BY <1>0
<1> DEFINE m == MaxVarIntSize
<1>1. q[m + 1] * Shift[m] \in 0 .. uv
  BY <1>0, WireAssumption, Scaled
<1>2. q[m] \in Nat /\ q[m] >= GroupSize /\ q[m + 1] = q[m] \div GroupSize
  BY <1>0 DEF Quotients
<1>3. q[m + 1] \in Nat /\ q[m + 1] >= 1
  BY <1>2, Quotient
<1>4. Shift[m] \in Nat /\ IntSize <= Shift[m] /\ IntSize \in Int
  BY WireAssumption, ShiftDef
<1>5. q[m + 1] * Shift[m] >= Shift[m]
  BY <1>3, <1>4
<1> QED BY <1>1, <1>4, <1>5

\* A VarInt in front of a wire ends with its last byte.
LEMMA OneEnd ==
  ASSUME NEW b, NEW uv \in 0 .. IntSize - 1, NEW q, Quotients(b, uv, q), NEW wire,
         Len(wire) \in Nat, Len(wire) >= Len(b), \A i \in 1 .. Len(b) : wire[i] = b[i]
  PROVE  VarIntEnds(wire) = { Len(b) }
<1> DEFINE L == Len(b)
<1>1. L \in 1 .. MaxVarIntSize /\ MaxVarIntSize \in Nat
  BY VarIntFits, Sizes
<1>2. ASSUME NEW i \in 1 .. L - 1 PROVE wire[i][1] = "byte" /\ wire[i][2] \in Nat /\ wire[i][2] >= GroupSize
  <2>1. wire[i] = b[i] /\ b[i] = <<"byte", (q[i] % GroupSize) + GroupSize>> /\ q[i] \in Nat
    <3>1. i \in 1 .. Len(b) - 1 /\ i \in 1 .. Len(b)
      BY <1>1
    <3> HIDE DEF L
    <3> QED BY <3>1 DEF Quotients
  <2>2. q[i] % GroupSize \in Nat /\ GroupSize \in Nat
    BY <2>1, Sizes
  <2> DEFINE r == q[i] % GroupSize
  <2> HIDE DEF r
  <2>3. wire[i] = <<"byte", r + GroupSize>> /\ r \in Nat /\ GroupSize \in Nat
    BY <2>1, <2>2 DEF r
  <2> QED BY <2>3
<1>3. wire[L][1] = "byte" /\ wire[L][2] \in Nat /\ wire[L][2] < GroupSize
  <2>1. wire[L] = <<"byte", q[L]>> /\ q[L] \in Nat /\ q[L] < GroupSize
    BY <1>1 DEF Quotients
  <2> QED BY <2>1
<1>4. \A i \in 1 .. L : i \in 1 .. L - 1 \/ i = L
  BY <1>1
<1> HIDE DEF L
<1>5. L \in VarIntEnds(wire)
  <2>1. L \in 1 .. MaxVarIntSize /\ L <= Len(wire)
    BY <1>1 DEF L
  <2>2. \A i \in 1 .. L : wire[i][1] = "byte"
    BY <1>2, <1>3, <1>4
  <2> QED BY <1>2, <1>3, <2>1, <2>2 DEF VarIntEnds
<1>6. ASSUME NEW n \in VarIntEnds(wire) PROVE n = L
  <2>1. /\ n \in 1 .. MaxVarIntSize
        /\ \A i \in 1 .. n - 1 : wire[i][2] >= GroupSize
        /\ wire[n][2] < GroupSize
    BY DEF VarIntEnds
  <2>2. ~(n < L)
    <3> SUFFICES ASSUME n < L PROVE FALSE
      OBVIOUS
    <3>1. n \in 1 .. L - 1
      BY <1>1, <2>1
    <3> QED BY <1>2, <2>1, <3>1, Sizes
  <2>3. ~(L < n)
    <3> SUFFICES ASSUME L < n PROVE FALSE
      OBVIOUS
    <3>1. L \in 1 .. n - 1
      BY <1>1, <2>1
    <3> QED BY <1>3, <2>1, <3>1, Sizes
  <2> QED BY <1>1, <2>1, <2>2, <2>3
<1> QED BY <1>5, <1>6 DEF L

\* The loop of ReadVarInt adds the bytes up to the value they were made of.
LEMMA Value ==
  ASSUME NEW b, NEW uv \in 0 .. IntSize - 1, NEW q, Quotients(b, uv, q), NEW wire,
         \A i \in 1 .. Len(b) : wire[i] = b[i]
  PROVE  VarIntValue(wire, Len(b)) = Int32(uv)
<1> DEFINE L == Len(b)
           f == [i \in 0 .. L |-> IF i = L THEN uv ELSE uv - q[i + 1] * Shift[i]]
<1>1. L \in 1 .. MaxVarIntSize /\ MaxVarIntSize \in Nat /\ IntSize \in Nat /\ GroupSize \in Nat /\ GroupSize > 1
  BY VarIntFits, Sizes
<1>2. q \in [1 .. L -> Nat]
  BY DEF Quotients
<1>3. \A i \in 0 .. L - 1 : Shift[i] \in Nat /\ q[i + 1] \in Nat /\ q[i + 1] * Shift[i] \in 0 .. uv
  <2>1. L - 1 \in 0 .. MaxVarIntSize /\ L - 1 < Len(b)
    BY <1>1
  <2>2. \A i \in 0 .. L - 1 : q[i + 1] * Shift[i] \in 0 .. uv
    BY <2>1, Scaled
  <2>3. ASSUME NEW i \in 0 .. L - 1 PROVE Shift[i] \in Nat /\ q[i + 1] \in Nat
    <3>1. i \in 0 .. MaxVarIntSize /\ i + 1 \in 1 .. L
      BY <1>1
    <3> QED BY <1>2, <3>1, ShiftDef
  <2> QED BY <2>2, <2>3
<1>4. ASSUME NEW i \in 1 .. L
      PROVE  (f[i - 1] + (wire[i][2] % GroupSize) * Shift[i - 1]) % IntSize = f[i]
  <2> DEFINE a == q[i]
             s == Shift[i - 1]
             r == a % GroupSize
             d == a \div GroupSize
  <2>1. i - 1 \in 0 .. L - 1 /\ (i - 1) + 1 = i
    BY <1>1
  <2>2. a \in Nat /\ s \in Nat /\ a * s \in 0 .. uv /\ f[i - 1] = uv - a * s
    BY <1>1, <1>3, <2>1
  <2>3. r \in Nat /\ d \in Nat /\ a = GroupSize * d + r /\ r < GroupSize
    <3>1. a \in Nat
      BY <2>2
    <3> HIDE DEF a
    <3>2. r \in 0 .. GroupSize - 1 /\ d \in Nat /\ a = GroupSize * d + r
      BY <3>1, Quotient
    <3> HIDE DEF r, d
    <3> QED BY <1>1, <3>2
  <2>4. wire[i][2] % GroupSize = r
    <3>1. CASE i = L
      <4>1. wire[i] = <<"byte", a>> /\ a < GroupSize
        BY <1>1, <3>1 DEF Quotients
      <4> HIDE DEF a
      <4> QED BY <4>1
    <3>2. CASE i # L
      <4>1. wire[i] = <<"byte", r + GroupSize>>
        BY <1>1, <3>2 DEF Quotients
      <4> HIDE DEF r
      <4>2. (r + GroupSize) % GroupSize = r
        <5>1. r \in 0 .. GroupSize - 1
          BY <1>1, <2>3
        <5> QED BY <5>1, Remainder
      <4> QED BY <4>1, <4>2
    <3> QED BY <3>1, <3>2
  <2>5. (uv - a * s) + r * s = f[i]
    <3>1. CASE i = L
      <4>1. a < GroupSize /\ f[i] = uv
        BY <1>1, <3>1 DEF Quotients
      <4>2. r = a
        <5>1. a \in 0 .. GroupSize - 1
          BY <1>1, <2>2, <4>1
        <5> HIDE DEF a
        <5> QED BY <5>1, Remainder
      <4> HIDE DEF a, s, r, f
      <4> QED BY <2>2, <4>1, <4>2
    <3>2. CASE i # L
      <4>1. i \in 0 .. L - 1 /\ i \in 1 .. L - 1 /\ i \in 1 .. MaxVarIntSize
        BY <1>1, <3>2
      <4>2. q[i + 1] = d
        BY <4>1 DEF Quotients
      <4>3. Shift[i] = GroupSize * s
        BY <4>1, ShiftDef
      <4>4. f[i] = uv - d * (GroupSize * s)
        BY <3>2, <4>2, <4>3
      <4> HIDE DEF a, s, r, f, d
      <4>5. a * s = d * (GroupSize * s) + r * s
        BY <1>1, <2>2, <2>3
      <4>6. d * (GroupSize * s) \in Int /\ r * s \in Int /\ a * s \in Int
        BY <1>1, <2>2, <2>3
      <4> DEFINE x == a * s
                 y == d * (GroupSize * s)
                 z == r * s
      <4>7. x = y + z /\ x \in Int /\ y \in Int /\ z \in Int /\ f[i] = uv - y
        BY <4>4, <4>5, <4>6
      <4> HIDE DEF x, y, z
      <4>8. (uv - x) + z = f[i]
        BY <4>7
      <4> QED BY <4>8 DEF x, z
    <3> QED BY <3>1, <3>2
  <2>6. f[i] \in 0 .. IntSize - 1
    <3>1. CASE i = L
      BY <3>1
    <3>2. CASE i # L
      <4>1. i \in 0 .. L - 1
        BY <1>1, <3>2
      <4> DEFINE y == q[i + 1] * Shift[i]
      <4>2. y \in 0 .. uv /\ f[i] = uv - y
        BY <1>3, <3>2, <4>1
      <4> HIDE DEF y, f
      <4> QED BY <1>1, <4>2
    <3> QED BY <3>1, <3>2
  <2> HIDE DEF a, s, r, f, d
  <2>7. f[i] % IntSize = f[i]
    <3> DEFINE x == f[i]
    <3>1. x \in 0 .. IntSize - 1
      BY <2>6
    <3> HIDE DEF x
    <3>2. x % IntSize = x
      BY <1>1, <3>1
    <3> QED BY <3>2 DEF x
  <2>8. f[i - 1] + (wire[i][2] % GroupSize) * s = f[i]
    BY <2>2, <2>4, <2>5
  <2> QED BY <2>7, <2>8 DEF s
<1> DEFINE Is(g) == g = [i \in 0 .. L |->
                           IF i = 0 THEN 0
                           ELSE (g[i - 1] + (wire[i][2] % GroupSize) * Shift[i - 1]) % IntSize]
           val == CHOOSE g : Is(g)
<1>5. f[0] = 0 /\ f[L] = uv
  <2>1. q[1] = uv /\ Shift[0] = 1
    BY ShiftDef DEF Quotients
  <2>2. f[0] = uv - q[1] * Shift[0]
    BY <1>1
  <2> QED BY <1>1, <2>1, <2>2
<1>6. Is(f)
  <2>1. f = [i \in 0 .. L |-> f[i]]
    OBVIOUS
  <2> HIDE DEF f
  <2>2. ASSUME NEW i \in 0 .. L
        PROVE  f[i] = IF i = 0 THEN 0
                      ELSE (f[i - 1] + (wire[i][2] % GroupSize) * Shift[i - 1]) % IntSize
    <3>1. CASE i = 0
      BY <1>5, <3>1
    <3>2. CASE i # 0
      <4>1. i \in 1 .. L
        BY <1>1, <3>2
      <4> QED BY <1>4, <3>2, <4>1
    <3> QED BY <3>1, <3>2
  <2> QED BY <2>1, <2>2
<1> HIDE DEF f
<1>7. Is(val)
  <2> HIDE DEF Is
  <2> QED BY <1>6
<1> HIDE DEF val
<1>8. val[L] = uv
  <2> DEFINE T == { i \in 0 .. L : val[i] = f[i] }
  <2>1. 0 \in T
    BY <1>1, <1>5, <1>7
  <2>2. ASSUME NEW i \in 1 .. L, i - 1 \in T PROVE i \in T
    <3>1. val[i] = (val[i - 1] + (wire[i][2] % GroupSize) * Shift[i - 1]) % IntSize
      <4>1. i \in 0 .. L /\ i # 0
        BY <1>1
      <4> HIDE DEF T, L
      <4> QED BY <1>7, <4>1
    <3>2. val[i - 1] = f[i - 1] /\ i \in 0 .. L
      BY <2>2
    <3> QED BY <1>4, <3>1, <3>2
  <2> HIDE DEF T
  <2>3. L \in T
    <3>1. L \in Nat
      BY <1>1
    <3> HIDE DEF L
    <3>2. 0 .. L \subseteq T
      BY <2>1, <2>2, <3>1, Induction
    <3> QED BY <3>1, <3>2
  <2> QED BY <1>5, <2>3 DEF T
<1> QED BY <1>8 DEF VarIntValue, val

-----------------------------------------------------------------------------
(* Sequences of anything.                                                  *)

\* What is known of two sequences, one after the other.
LEMMA Joined ==
  ASSUME NEW S, NEW s \in Seq(S), NEW T, NEW t \in Seq(T)
  PROVE  /\ s \o t \in Seq(S \cup T)
         /\ Len(s) \in Nat /\ Len(t) \in Nat /\ Len(s \o t) = Len(s) + Len(t)
         /\ \A i \in 1 .. Len(s) : (s \o t)[i] = s[i]
         /\ \A i \in 1 .. Len(t) : (s \o t)[Len(s) + i] = t[i]
         /\ SubSeq(s \o t, Len(s) + 1, Len(s \o t)) = t
<1> DEFINE U == S \cup T
           c == s \o t
<1>1. s \in Seq(U) /\ t \in Seq(U)
  BY SeqMonotonic
<1> HIDE DEF U
<1>2. /\ c \in Seq(U) /\ Len(c) = Len(s) + Len(t)
      /\ \A i \in 1 .. Len(s) + Len(t) : c[i] = IF i <= Len(s) THEN s[i] ELSE t[i - Len(s)]
  BY <1>1, ConcatProperties
<1>3. Len(s) \in Nat /\ Len(t) \in Nat
  BY <1>1
<1> DEFINE m == Len(s)
           n == Len(t)
<1>4. \A i \in 1 .. m : c[i] = s[i]
  BY <1>2, <1>3
<1>5. ASSUME NEW i \in 1 .. n PROVE c[m + i] = t[i]
  <2>1. m + i \in 1 .. m + n /\ ~(m + i <= m) /\ (m + i) - m = i
    BY <1>3
  <2> QED BY <1>2, <2>1
<1>6. SubSeq(c, m + 1, Len(c)) = t
  <2> DEFINE d == SubSeq(c, m + 1, m + n)
  <2>1. \A i \in m + 1 .. m + n : c[i] \in U
    BY <1>2, <1>3
  <2>2. m + 1 \in Int /\ m + n \in Int
    BY <1>3
  <2> HIDE DEF c, m, n
  <2>3. /\ d \in Seq(U)
        /\ Len(d) = IF m + 1 <= m + n THEN (m + n) - (m + 1) + 1 ELSE 0
        /\ \A i \in 1 .. (m + n) - (m + 1) + 1 : d[i] = c[(m + 1) + i - 1]
    BY <2>1, <2>2, SubSeqProperties
  <2> HIDE DEF d
  <2>4. m \in Nat /\ n \in Nat
    BY <1>3 DEF m, n
  <2>5. Len(d) = n
    BY <2>3, <2>4
  <2>6. ASSUME NEW i \in 1 .. n PROVE d[i] = t[i]
    <3>1. i \in 1 .. (m + n) - (m + 1) + 1 /\ (m + 1) + i - 1 = m + i
      BY <2>4
    <3> QED BY <1>5, <2>3, <3>1
  <2>7. d = t
    BY <1>1, <2>3, <2>5, <2>6, SeqEqual DEF n
  <2> QED BY <1>2, <2>7 DEF c, d, m, n
<1> QED BY <1>2, <1>3, <1>4, <1>5, <1>6 DEF U

\* int32(uint32(x)) is int32(x).
LEMMA Int32Idempotent ==
  ASSUME NEW x \in Int
  PROVE  Int32(x % IntSize) = Int32(x)
<1>1. IntSize \in Nat /\ IntSize > 0
  BY Sizes
<1>2. (x % IntSize) % IntSize = x % IntSize
  BY <1>1
<1> QED BY <1>2 DEF Int32

\* int32(x) of an int32 is x.
LEMMA Int32Identity ==
  ASSUME NEW x \in Int32s
  PROVE  Int32(x) = x
<1>1. IntSize \in Nat /\ IntSize > 0 /\ IntSize % 2 = 0
  BY Sizes, WireAssumption
<1> DEFINE h == IntSize \div 2
<1>2. h \in Nat /\ IntSize = 2 * h /\ h > 0
  BY <1>1
<1>3. x \in 0 - h .. h - 1
  BY DEF Int32s
<1> HIDE DEF h
<1>4. CASE x >= 0
  <2>1. x % IntSize = x
    BY <1>2, <1>3, <1>4
  <2> QED BY <1>2, <1>3, <2>1 DEF Int32
<1>5. CASE x < 0
  <2>1. x % IntSize = x + IntSize
    BY <1>2, <1>3, <1>5
  <2> QED BY <1>2, <1>3, <1>5, <2>1 DEF Int32
<1> QED BY <1>3, <1>2, <1>4, <1>5

\* A size within the 32 bits is zero only if its int32 is.
LEMMA Int32Zero ==
  ASSUME NEW x \in Nat, x < IntSize
  PROVE  /\ Int32(x) \in Int
         /\ Int32(x) = 0 <=> x = 0
<1>1. IntSize \in Nat /\ IntSize > 0
  BY Sizes
<1>2. x % IntSize = x
  BY <1>1
<1> QED BY <1>1, <1>2 DEF Int32

\* What WriteVarInt writes, ReadVarInt reads.
THEOREM VarIntRead ==
  ASSUME NEW x \in Int, NEW T, NEW t \in Seq(T), NEW r, r.ok, r.rest = WriteVarInt(x) \o t
  PROVE  ReadVarInt(r) = [ok |-> r.ok, rest |-> t, got |-> Append(r.got, Int32(x))]
<1> DEFINE b == WriteVarInt(x)
           uv == x % IntSize
           wire == b \o t
           L == Len(b)
<1>1. uv \in 0 .. IntSize - 1
  BY VarIntWritten
<1>2. PICK q : Quotients(b, uv, q)
  BY VarIntWritten
<1>3. b \in Seq(Bytes)
  BY <1>2 DEF Quotients
<1> HIDE DEF b, uv
<1>4. /\ L \in Nat /\ Len(t) \in Nat /\ Len(wire) = L + Len(t)
      /\ \A i \in 1 .. L : wire[i] = b[i]
      /\ SubSeq(wire, L + 1, Len(wire)) = t
  BY <1>3, Joined
<1>5. Len(wire) \in Nat /\ Len(wire) >= L
  BY <1>4
<1> HIDE DEF wire
<1>6. VarIntEnds(wire) = {L}
  BY <1>1, <1>2, <1>4, <1>5, OneEnd
<1>7. VarIntValue(wire, L) = Int32(uv)
  BY <1>1, <1>2, <1>4, Value
<1>8. Int32(uv) = Int32(x)
  BY Int32Idempotent DEF uv
<1> HIDE DEF L
<1>9. r.rest = wire
  BY DEF wire, b
<1>10. ReadVarInt(r) = TookVarInt(r, L)
  BY <1>6, <1>9 DEF ReadVarInt
<1> QED BY <1>4, <1>7, <1>8, <1>9, <1>10 DEF TookVarInt, Took

-----------------------------------------------------------------------------
(* The number of bytes of a wire.                                          *)

\* A sequence of atoms, each with a size.
IsWire(w) == \E S : w \in Seq(S) /\ \A a \in S : AtomSize(a) \in Nat

Sums(f, w) ==
  /\ f \in [0 .. Len(w) -> Nat]
  /\ f[0] = 0
  /\ \A i \in 1 .. Len(w) : f[i] = f[i - 1] + AtomSize(w[i])

\* The sums of the sizes of a wire's atoms exist.
LEMMA SumsExist ==
  ASSUME NEW w, IsWire(w)
  PROVE  \E f : Sums(f, w)
<1>1. PICK S : w \in Seq(S) /\ \A a \in S : AtomSize(a) \in Nat
  BY DEF IsWire
<1> DEFINE n == Len(w)
           N == Nat
           zero == 0
           step == [i \in 1 .. n |-> [s \in N |-> s + AtomSize(w[i])]]
<1>2. n \in Nat /\ \A i \in 1 .. n : AtomSize(w[i]) \in Nat
  BY <1>1
<1>3. step \in [1 .. n -> [N -> N]]
  BY <1>2
<1>4. zero \in N
  OBVIOUS
<1>5. \E f \in [0 .. n -> N] : f[0] = zero /\ \A i \in 1 .. n : f[i] = step[i][f[i - 1]]
  <2>1. n \in Nat
    BY <1>2
  <2> HIDE DEF n, N, zero, step
  <2> QED BY <2>1, <1>3, <1>4, Iterated
<1>6. PICK f \in [0 .. n -> N] : f[0] = zero /\ \A i \in 1 .. n : f[i] = step[i][f[i - 1]]
  BY <1>5
<1>7. ASSUME NEW i \in 1 .. n PROVE f[i] = f[i - 1] + AtomSize(w[i])
  <2>1. f[i - 1] \in N
    BY <1>2
  <2>2. step[i] = [s \in N |-> s + AtomSize(w[i])]
    OBVIOUS
  <2> HIDE DEF step, N
  <2>3. step[i][f[i - 1]] = f[i - 1] + AtomSize(w[i])
    BY <2>1, <2>2
  <2> QED BY <1>6, <2>3
<1>8. f[0] = 0
  BY <1>6
<1> HIDE DEF step, zero
<1>9. Sums(f, w)
  BY <1>7, <1>8 DEF Sums
<1> QED BY <1>9

\* The size of a wire is the last of them.
LEMMA SizeIsSum ==
  ASSUME NEW w, IsWire(w), NEW f, Sums(f, w)
  PROVE  WireSize(w) = f[Len(w)] /\ WireSize(w) \in Nat
<1> DEFINE size[n \in 0 .. Len(w)] == IF n = 0 THEN 0 ELSE size[n - 1] + AtomSize(w[n])
<1>1. Len(w) \in Nat
  BY DEF IsWire
<1>2. f = [n \in 0 .. Len(w) |-> IF n = 0 THEN 0 ELSE f[n - 1] + AtomSize(w[n])]
  <2>1. f = [n \in 0 .. Len(w) |-> f[n]]
    BY DEF Sums
  <2>2. ASSUME NEW n \in 0 .. Len(w)
        PROVE  f[n] = IF n = 0 THEN 0 ELSE f[n - 1] + AtomSize(w[n])
    <3>1. CASE n = 0
      BY <3>1 DEF Sums
    <3>2. CASE n # 0
      <4>1. n \in 1 .. Len(w)
        BY <1>1, <3>2
      <4> QED BY <3>2, <4>1 DEF Sums
    <3> QED BY <3>1, <3>2
  <2> QED BY <2>1, <2>2
<1>3. size = [n \in 0 .. Len(w) |-> IF n = 0 THEN 0 ELSE size[n - 1] + AtomSize(w[n])]
  BY <1>2
<1>4. WireSize(w) = size[Len(w)]
  BY DEF WireSize
<1> HIDE DEF size
<1> DEFINE T == { n \in 0 .. Len(w) : size[n] = f[n] }
<1>5. 0 \in T
  BY <1>1, <1>3 DEF Sums
<1>6. ASSUME NEW n \in 1 .. Len(w), n - 1 \in T PROVE n \in T
  <2>1. n \in 0 .. Len(w) /\ n # 0 /\ size[n - 1] = f[n - 1]
    BY <1>1, <1>6
  <2>2. size[n] = size[n - 1] + AtomSize(w[n])
    BY <1>3, <2>1
  <2>3. f[n] = f[n - 1] + AtomSize(w[n])
    BY DEF Sums
  <2> QED BY <2>1, <2>2, <2>3
<1> HIDE DEF T
<1>7. 0 .. Len(w) \subseteq T
  BY <1>1, <1>5, <1>6, Induction
<1>8. Len(w) \in T /\ Len(w) \in 0 .. Len(w)
  BY <1>1, <1>7
<1>9. f[Len(w)] \in Nat
  BY <1>8 DEF Sums
<1> QED BY <1>4, <1>8, <1>9 DEF T

\* The size of one atom.
LEMMA SizeOfAtom ==
  ASSUME NEW a, AtomSize(a) \in Nat
  PROVE  IsWire(<<a>>) /\ WireSize(<<a>>) = AtomSize(a)
<1> DEFINE w == <<a>>
           f == [i \in 0 .. 1 |-> IF i = 0 THEN 0 ELSE AtomSize(a)]
<1>1. w \in Seq({a}) /\ Len(w) = 1 /\ w[1] = a
  OBVIOUS
<1>2. f \in [0 .. 1 -> Nat] /\ f[0] = 0 /\ f[1] = AtomSize(a)
  OBVIOUS
<1> HIDE DEF w, f
<1>3. IsWire(w)
  BY <1>1 DEF IsWire
<1>4. Sums(f, w)
  BY <1>1, <1>2 DEF Sums
<1> QED BY <1>1, <1>2, <1>3, <1>4, SizeIsSum DEF w

\* Nothing has no size.
LEMMA SizeOfNothing == IsWire(<<>>) /\ WireSize(<<>>) = 0
<1> DEFINE f == [i \in 0 .. 0 |-> 0]
<1>1. <<>> \in Seq(Bytes) /\ Len(<<>>) = 0
  OBVIOUS
<1>2. IsWire(<<>>)
  <2>1. \A a \in Bytes : AtomSize(a) \in Nat
    BY DEF Bytes, AtomSize
  <2> QED BY <1>1, <2>1 DEF IsWire
<1>3. f \in [0 .. 0 -> Nat] /\ f[0] = 0
  OBVIOUS
<1> HIDE DEF f
<1>4. Sums(f, <<>>)
  BY <1>1, <1>3 DEF Sums
<1> QED BY <1>1, <1>2, <1>3, <1>4, SizeIsSum

\* What is written one after the other adds up.
LEMMA SizeOfBoth ==
  ASSUME NEW s, NEW t, IsWire(s), IsWire(t)
  PROVE  /\ IsWire(s \o t) /\ WireSize(s \o t) = WireSize(s) + WireSize(t)
         /\ WireSize(s) \in Nat /\ WireSize(t) \in Nat
<1>1. PICK S : s \in Seq(S) /\ \A a \in S : AtomSize(a) \in Nat
  BY DEF IsWire
<1>2. PICK T : t \in Seq(T) /\ \A a \in T : AtomSize(a) \in Nat
  BY DEF IsWire
<1> DEFINE w == s \o t
           m == Len(s)
           n == Len(t)
<1>3. /\ w \in Seq(S \cup T) /\ m \in Nat /\ n \in Nat /\ Len(w) = m + n
      /\ \A i \in 1 .. m : w[i] = s[i]
      /\ \A i \in 1 .. n : w[m + i] = t[i]
  BY <1>1, <1>2, Joined
<1> HIDE DEF w
<1>4. IsWire(w)
  BY <1>1, <1>2, <1>3 DEF IsWire
<1>5. PICK f : Sums(f, s)
  BY SumsExist
<1>6. PICK g : Sums(g, t)
  BY SumsExist
<1> DEFINE h == [i \in 0 .. m + n |-> IF i <= m THEN f[i] ELSE f[m] + g[i - m]]
<1>7. /\ f \in [0 .. m -> Nat] /\ f[0] = 0 /\ \A i \in 1 .. m : f[i] = f[i - 1] + AtomSize(s[i])
      /\ g \in [0 .. n -> Nat] /\ g[0] = 0 /\ \A i \in 1 .. n : g[i] = g[i - 1] + AtomSize(t[i])
  BY <1>5, <1>6 DEF Sums
<1> HIDE DEF m, n
<1>8. h \in [0 .. m + n -> Nat]
  BY <1>3, <1>7
<1>9. h[0] = 0 /\ h[m + n] = f[m] + g[n]
  <2>1. CASE n = 0
    BY <1>3, <1>7, <2>1
  <2>2. CASE n > 0
    BY <1>3, <1>7, <2>2
  <2> QED BY <1>3, <2>1, <2>2
<1>10. ASSUME NEW i \in 1 .. m + n PROVE h[i] = h[i - 1] + AtomSize(w[i])
  <2>1. CASE i <= m
    <3>1. i \in 1 .. m /\ i - 1 \in 0 .. m + n /\ i - 1 <= m /\ i \in 0 .. m + n
      BY <1>3, <2>1
    <3>2. h[i] = f[i] /\ h[i - 1] = f[i - 1]
      BY <3>1
    <3> HIDE DEF h
    <3> QED BY <1>3, <1>7, <3>1, <3>2
  <2>2. CASE i > m
    <3> DEFINE j == i - m
    <3>1. j \in 1 .. n /\ i = m + j /\ i \in 0 .. m + n /\ i - 1 \in 0 .. m + n /\ j - 1 \in 0 .. n /\ (i - 1) - m = j - 1
      BY <1>3, <2>2
    <3>2. h[i] = f[m] + g[j]
      <4>1. i \in Nat /\ m \in Nat /\ ~(i <= m)
        BY <1>3, <2>2, <3>1
      <4>2. h[i] = IF i <= m THEN f[i] ELSE f[m] + g[i - m]
        BY <3>1
      <4> HIDE DEF h
      <4> QED BY <4>1, <4>2
    <3>3. h[i - 1] = f[m] + g[j - 1]
      <4>1. CASE j = 1
        <5>1. i - 1 = m /\ m \in 0 .. m + n
          BY <1>3, <3>1, <4>1
        <5>2. h[m] = f[m]
          BY <5>1
        <5>3. f[m] \in Nat
          BY <1>3, <1>7
        <5> QED BY <1>7, <4>1, <5>1, <5>2, <5>3
      <4>2. CASE j # 1
        <5>1. ~(i - 1 <= m)
          BY <1>3, <3>1, <4>2
        <5> QED BY <3>1, <5>1
      <4> QED BY <4>1, <4>2
    <3>4. w[i] = t[j] /\ g[j] = g[j - 1] + AtomSize(t[j])
      BY <1>3, <1>7, <3>1
    <3>5. AtomSize(t[j]) \in Nat /\ g[j - 1] \in Nat /\ f[m] \in Nat
      <4>1. t[j] \in T
        BY <1>2, <3>1 DEF n
      <4>2. g[j - 1] \in Nat
        BY <1>7, <3>1
      <4>3. f[m] \in Nat
        BY <1>3, <1>7
      <4> QED BY <1>2, <4>1, <4>2, <4>3
    <3> HIDE DEF h, j
    <3> QED BY <3>2, <3>3, <3>4, <3>5
  <2> QED BY <1>3, <2>1, <2>2
<1> HIDE DEF h
<1>11. Sums(h, w)
  BY <1>3, <1>8, <1>9, <1>10 DEF Sums
<1>12. WireSize(w) = h[m + n]
  BY <1>3, <1>4, <1>11, SizeIsSum
<1>13. WireSize(s) = f[m] /\ WireSize(s) \in Nat
  BY <1>5, SizeIsSum DEF m
<1>14. WireSize(t) = g[n] /\ WireSize(t) \in Nat
  BY <1>6, SizeIsSum DEF n
<1> QED BY <1>4, <1>9, <1>12, <1>13, <1>14 DEF w

\* A VarInt has at least one byte and at most MaxVarIntSize.
LEMMA SizeOfVarInt ==
  ASSUME NEW x \in Int
  PROVE  IsWire(WriteVarInt(x)) /\ WireSize(WriteVarInt(x)) \in 1 .. MaxVarIntSize
<1> DEFINE b == WriteVarInt(x)
           f == [i \in 0 .. Len(b) |-> i]
<1>1. PICK q : Quotients(b, x % IntSize, q)
  BY VarIntWritten
<1>2. x % IntSize \in 0 .. IntSize - 1
  BY VarIntWritten
<1> HIDE DEF b
<1>3. Len(b) \in 1 .. MaxVarIntSize
  BY <1>1, <1>2, VarIntFits
<1>4. b \in Seq(Bytes)
  BY <1>1 DEF Quotients
<1>5. \A a \in Bytes : AtomSize(a) = 1
  BY DEF Bytes, AtomSize
<1>6. IsWire(b)
  BY <1>4, <1>5 DEF IsWire
<1>7. Sums(f, b)
  <2>1. \A i \in 1 .. Len(b) : b[i] \in Bytes
    BY <1>4
  <2>2. f \in [0 .. Len(b) -> Nat] /\ f[0] = 0
    BY <1>3
  <2>3. \A i \in 1 .. Len(b) : f[i] = f[i - 1] + 1
    BY <1>3
  <2> HIDE DEF f
  <2> QED BY <1>5, <2>1, <2>2, <2>3 DEF Sums
<1>8. f[Len(b)] = Len(b)
  BY <1>3
<1> HIDE DEF f
<1> QED BY <1>3, <1>6, <1>7, <1>8, SizeIsSum DEF b

Measured(w) == IsWire(w) /\ WireSize(w) \in Nat

\* What is written one after the other adds up.
LEMMA Measure ==
  \A s, t : Measured(s) /\ Measured(t) => Measured(s \o t) /\ WireSize(s \o t) = WireSize(s) + WireSize(t)
<1> SUFFICES ASSUME NEW s, NEW t, Measured(s), Measured(t)
             PROVE  Measured(s \o t) /\ WireSize(s \o t) = WireSize(s) + WireSize(t)
  OBVIOUS
<1>1. IsWire(s) /\ IsWire(t) /\ WireSize(s) \in Nat /\ WireSize(t) \in Nat
  BY DEF Measured
<1>2. IsWire(s \o t) /\ WireSize(s \o t) = WireSize(s) + WireSize(t)
  BY <1>1, SizeOfBoth
<1>3. WireSize(s) + WireSize(t) \in Nat
  BY <1>1
<1> QED BY <1>2, <1>3 DEF Measured

\* One atom has its size.
LEMMA MeasureAtom ==
  ASSUME NEW a, AtomSize(a) \in Nat
  PROVE  Measured(<<a>>) /\ WireSize(<<a>>) = AtomSize(a)
BY SizeOfAtom DEF Measured

\* Nothing has no size.
LEMMA MeasureNothing == Measured(<<>>) /\ WireSize(<<>>) = 0
BY SizeOfNothing DEF Measured

\* A VarInt has at most MaxVarIntSize bytes.
LEMMA MeasureVarInt ==
  \A x \in Int : Measured(WriteVarInt(x)) /\ WireSize(WriteVarInt(x)) \in 0 .. MaxVarIntSize
<1> TAKE x \in Int
<1>1. IsWire(WriteVarInt(x)) /\ WireSize(WriteVarInt(x)) \in 1 .. MaxVarIntSize /\ MaxVarIntSize \in Nat
  BY SizeOfVarInt, Sizes
<1> QED BY <1>1 DEF Measured

\* What the fixed-size writers write.
LEMMA MeasureFixed ==
  \A x : /\ Measured(WriteByte(x)) /\ WireSize(WriteByte(x)) = 1
         /\ Measured(WriteUShort(x)) /\ WireSize(WriteUShort(x)) = 2
         /\ Measured(WriteInt(x)) /\ WireSize(WriteInt(x)) = 4
         /\ Measured(WriteLong(x)) /\ WireSize(WriteLong(x)) = 8
         /\ Measured(WriteUUID(x)) /\ WireSize(WriteUUID(x)) = 16
         /\ Measured(WriteBool(x)) /\ WireSize(WriteBool(x)) = 1
         /\ Measured(<< <<"id", x>> >>) /\ WireSize(<< <<"id", x>> >>) = 1
<1> TAKE x
<1>1. \A y : AtomSize(<<"byte", y>>) = 1
  BY DEF AtomSize
<1>2. /\ AtomSize(<<"short", x>>) = 2
      /\ AtomSize(<<"int", x>>) = 4
      /\ AtomSize(<<"long", x>>) = 8
      /\ AtomSize(<<"uuid", x>>) = 16
      /\ AtomSize(<<"id", x>>) = 1
  BY DEF AtomSize
<1>3. \A y : Measured(WriteByte(y)) /\ WireSize(WriteByte(y)) = 1
  BY <1>1, MeasureAtom DEF WriteByte
<1>4. Measured(WriteUShort(x)) /\ WireSize(WriteUShort(x)) = 2
  BY <1>2, MeasureAtom DEF WriteUShort
<1>5. Measured(WriteInt(x)) /\ WireSize(WriteInt(x)) = 4
  BY <1>2, MeasureAtom DEF WriteInt
<1>6. Measured(WriteLong(x)) /\ WireSize(WriteLong(x)) = 8
  BY <1>2, MeasureAtom DEF WriteLong
<1>7. Measured(WriteUUID(x)) /\ WireSize(WriteUUID(x)) = 16
  BY <1>2, MeasureAtom DEF WriteUUID
<1>8. Measured(WriteBool(x)) /\ WireSize(WriteBool(x)) = 1
  BY <1>3 DEF WriteBool
<1>9. Measured(<< <<"id", x>> >>) /\ WireSize(<< <<"id", x>> >>) = 1
  BY <1>2, MeasureAtom
<1> QED BY <1>3, <1>4, <1>5, <1>6, <1>7, <1>8, <1>9

\* What is written on a condition.
LEMMA MeasureWhen ==
  \A c, w : Measured(w) => Measured(When(c, w)) /\ WireSize(When(c, w)) \in 0 .. WireSize(w)
<1> SUFFICES ASSUME NEW c, NEW w, Measured(w)
             PROVE  Measured(When(c, w)) /\ WireSize(When(c, w)) \in 0 .. WireSize(w)
  OBVIOUS
<1>1. WireSize(w) \in Nat
  BY DEF Measured
<1>2. CASE c
  <2>1. When(c, w) = w
    BY <1>2 DEF When
  <2> QED BY <1>1, <2>1
<1>3. CASE ~c
  <2>1. When(c, w) = <<>>
    BY <1>3 DEF When
  <2> QED BY <1>1, <2>1, MeasureNothing
<1> QED BY <1>2, <1>3

\* A string has its bytes, and a VarInt in front.
LEMMA MeasureString ==
  \A text : Length(text) \in Nat =>
    /\ Measured(WriteString(text))
    /\ WireSize(WriteString(text)) \in 0 .. MaxVarIntSize + Length(text)
<1> SUFFICES ASSUME NEW text, Length(text) \in Nat
             PROVE  /\ Measured(WriteString(text))
                    /\ WireSize(WriteString(text)) \in 0 .. MaxVarIntSize + Length(text)
  OBVIOUS
<1> DEFINE length == Length(text)
           atom == << <<"text", text>> >>
           body == When(length > 0, atom)
           b == WriteVarInt(length)
<1>1. AtomSize(<<"text", text>>) = length
  BY DEF AtomSize
<1>2. Measured(atom) /\ WireSize(atom) = length
  BY <1>1, MeasureAtom
<1> HIDE DEF atom
<1>3. Measured(body) /\ WireSize(body) \in 0 .. length
  BY <1>2, MeasureWhen
<1>4. Measured(b) /\ WireSize(b) \in 0 .. MaxVarIntSize /\ MaxVarIntSize \in Nat
  BY MeasureVarInt, Sizes
<1>5. WriteString(text) = b \o body
  BY DEF WriteString, WriteByteSlice, atom
<1> HIDE DEF b, body
<1>6. Measured(b \o body) /\ WireSize(b \o body) = WireSize(b) + WireSize(body)
  BY <1>3, <1>4, Measure
<1>7. WireSize(b) + WireSize(body) \in 0 .. MaxVarIntSize + length
  <2> HIDE DEF length
  <2>1. length \in Nat
    BY DEF length
  <2> QED BY <1>3, <1>4, <2>1
<1> QED BY <1>5, <1>6, <1>7

-----------------------------------------------------------------------------
(* Readers.                                                                *)

\* A reader in front of a wire, with what it has taken.
At(wire, got) == [ok |-> TRUE, rest |-> wire, got |-> got]

IsSeq(g) == \E G : g \in Seq(G)

\* What a new reader has taken.
Untaken == <<>>

\* A new reader is in front of its wire.
LEMMA ReaderAt == \A wire : Reader(wire) = At(wire, Untaken)
BY DEF Reader, At, Untaken

\* Taking atoms goes on from what is left.
LEMMA TookAt ==
  \A w, g, n, x : Took(At(w, g), n, x) = At(SubSeq(w, n + 1, Len(w)), Append(g, x))
BY DEF Took, At

\* A record of a reader with its values replaced.
LEMMA OtherGot ==
  \A ok, w, g, h :
    [[ok |-> ok, rest |-> w, got |-> g] EXCEPT !.got = h] = [ok |-> ok, rest |-> w, got |-> h]
BY SMT

\* A reader with its values replaced.
LEMMA WithGot == \A w, g, h : [At(w, g) EXCEPT !.got = h] = At(w, h)
BY Zenon, OtherGot DEF At

\* A reader without its last value.
LEMMA DropAt ==
  \A w, g : Drop(At(w, g)) = At(w, SubSeq(g, 1, Len(g) - 1))
<1> TAKE w, g
<1> DEFINE h == SubSeq(g, 1, Len(g) - 1)
<1>1. Drop(At(w, g)) = [At(w, g) EXCEPT !.got = h]
  BY DEF Drop, At
<1> HIDE DEF h
<1> QED BY <1>1, WithGot DEF h

\* No values are a sequence of values.
LEMMA IsSeqEmpty == IsSeq(<<>>)
<1>1. <<>> \in Seq(Bytes)
  OBVIOUS
<1> QED BY <1>1 DEF IsSeq

\* So is what a new reader has taken.
LEMMA IsSeqUntaken == IsSeq(Untaken)
BY IsSeqEmpty DEF Untaken

\* A wire is a sequence.
LEMMA WireIsSeq == \A w : IsWire(w) => IsSeq(w)
BY DEF IsWire, IsSeq

\* A value that was taken is the last, until it is dropped.
LEMMA TakenAll ==
  ASSUME NEW wire, NEW g, IsSeq(g), NEW x
  PROVE  /\ IsSeq(Append(g, x))
         /\ Len(Append(g, x)) = Len(g) + 1 /\ Append(g, x)[Len(g) + 1] = x
         /\ \A i \in 1 .. Len(g) : Append(g, x)[i] = g[i]
         /\ Last(At(wire, Append(g, x))) = x
         /\ Drop(At(wire, Append(g, x))) = At(wire, g)
<1>1. PICK G : g \in Seq(G)
  BY DEF IsSeq
<1> DEFINE H == G \cup {x}
           a == Append(g, x)
<1>2. g \in Seq(H) /\ x \in H
  BY <1>1, SeqMonotonic
<1> HIDE DEF H
<1>3. a \in Seq(H) /\ Len(a) = Len(g) + 1 /\ a[Len(g) + 1] = x /\ \A i \in 1 .. Len(g) : a[i] = g[i]
  BY <1>2, AppendProperties
<1>4. Len(g) \in Nat
  BY <1>1
<1>5. SubSeq(a, 1, Len(a) - 1) = g
  <2> DEFINE n == Len(g)
             d == SubSeq(a, 1, n)
  <2>1. \A i \in 1 .. n : a[i] \in H
    BY <1>2, <1>3
  <2> HIDE DEF a
  <2>2. d \in Seq(H) /\ Len(d) = (IF 1 <= n THEN n - 1 + 1 ELSE 0) /\ \A i \in 1 .. n - 1 + 1 : d[i] = a[1 + i - 1]
    BY <1>4, <2>1, SubSeqProperties
  <2> HIDE DEF d
  <2>3. Len(d) = n
    BY <1>4, <2>2
  <2>4. \A i \in 1 .. n : d[i] = g[i]
    BY <1>3, <1>4, <2>2
  <2>5. d = g
    BY <1>2, <2>2, <2>3, <2>4, SeqEqual
  <2> QED BY <1>3, <1>4, <2>5 DEF d
<1> HIDE DEF a
<1>6. Last(At(wire, a)) = x
  BY <1>3 DEF Last, At
<1>7. Drop(At(wire, a)) = At(wire, g)
  BY <1>5, DropAt
<1> QED BY <1>3, <1>6, <1>7 DEF a, IsSeq

\* One value is a sequence.
LEMMA OneOfSeq == \A a : <<a>> \in Seq({a})
OBVIOUS

\* Two sequences, one after the other, are a sequence.
LEMMA JoinedSeq ==
  ASSUME NEW s, NEW t, IsSeq(s), IsSeq(t)
  PROVE  IsSeq(s \o t)
<1>1. PICK S : s \in Seq(S)
  BY DEF IsSeq
<1>2. PICK T : t \in Seq(T)
  BY DEF IsSeq
<1>3. s \o t \in Seq(S \cup T)
  BY <1>1, <1>2, Joined
<1> QED BY <1>3 DEF IsSeq

\* Where the writers' pieces are cut makes no difference.
LEMMA Associated ==
  ASSUME NEW s, NEW t, NEW u, IsSeq(s), IsSeq(t), IsSeq(u)
  PROVE  (s \o t) \o u = s \o (t \o u)
<1>1. PICK S : s \in Seq(S)
  BY DEF IsSeq
<1>2. PICK T : t \in Seq(T)
  BY DEF IsSeq
<1>3. PICK U : u \in Seq(U)
  BY DEF IsSeq
<1> DEFINE A == S \cup T \cup U
<1>4. s \in Seq(A) /\ t \in Seq(A) /\ u \in Seq(A)
  BY <1>1, <1>2, <1>3, SeqMonotonic
<1> HIDE DEF A
<1> QED BY <1>4, ConcatAssociative

\* Nothing in front or behind makes no difference.
LEMMA EmptyFirst ==
  ASSUME NEW t, IsSeq(t)
  PROVE  <<>> \o t = t /\ t \o <<>> = t
BY ConcatEmptySeq DEF IsSeq

\* A value that was taken is the last, until it is dropped.
LEMMA Taken ==
  ASSUME NEW wire, NEW g, IsSeq(g), NEW x
  PROVE  /\ Last(At(wire, Append(g, x))) = x
         /\ Drop(At(wire, Append(g, x))) = At(wire, g)
BY TakenAll

\* So is the first that is taken.
LEMMA FirstTaken ==
  \A wire, x : /\ Last(At(wire, Append(Untaken, x))) = x
               /\ Drop(At(wire, Append(Untaken, x))) = At(wire, Untaken)
BY IsSeqUntaken, Taken

\* What has been taken stays a sequence.
LEMMA TakenIsSeq == ASSUME NEW g, IsSeq(g), NEW x PROVE IsSeq(Append(g, x))
BY TakenAll

\* The first atom of a wire, and what follows it.
LEMMA FirstAtom ==
  ASSUME NEW a, NEW t, IsSeq(t)
  PROVE  /\ <<a>> \o t # <<>> /\ Head(<<a>> \o t) = a
         /\ SubSeq(<<a>> \o t, 2, Len(<<a>> \o t)) = t
         /\ Tail(<<a>> \o t) = t
<1>1. PICK T : t \in Seq(T)
  BY DEF IsSeq
<1> DEFINE s == <<a>>
           w == s \o t
<1>2. s \in Seq({a}) /\ Len(s) = 1 /\ s[1] = a
  OBVIOUS
<1> HIDE DEF s
<1>3. /\ w \in Seq({a} \cup T) /\ Len(w) = Len(s) + Len(t) /\ Len(t) \in Nat
      /\ \A i \in 1 .. Len(s) : w[i] = s[i]
      /\ SubSeq(w, Len(s) + 1, Len(w)) = t
  BY <1>1, <1>2, Joined
<1> HIDE DEF w
<1>4. w # <<>> /\ w[1] = a /\ SubSeq(w, 2, Len(w)) = t
  BY <1>2, <1>3
<1>5. Head(w) = a
  BY <1>3, <1>4
<1>6. Tail(w) = t
  BY <1>3, <1>4, TailIsSubSeq
<1> QED BY <1>4, <1>5, <1>6 DEF w, s

\* A reader in front of an atom of the kind it wants takes it.
LEMMA AtomAt ==
  ASSUME NEW kind, NEW x, NEW t, IsSeq(t), NEW g
  PROVE  /\ IsNext(At(<< <<kind, x>> >> \o t, g), kind)
         /\ ReadAtom(At(<< <<kind, x>> >> \o t, g), kind) = At(t, Append(g, x))
<1> DEFINE w == << <<kind, x>> >> \o t
<1>1. w # <<>> /\ Head(w) = <<kind, x>> /\ SubSeq(w, 2, Len(w)) = t
  BY FirstAtom
<1> HIDE DEF w
<1>2. IsNext(At(w, g), kind)
  BY <1>1 DEF IsNext, At
<1>3. ReadAtom(At(w, g), kind) = At(t, Append(g, x))
  <2>1. ReadAtom(At(w, g), kind) = Took(At(w, g), 1, x)
    BY <1>1, <1>2 DEF ReadAtom, At
  <2>2. Took(At(w, g), 1, x) = At(SubSeq(w, 2, Len(w)), Append(g, x))
    BY TookAt
  <2> QED BY <1>1, <2>1, <2>2
<1> QED BY <1>2, <1>3 DEF w

\* A boolean is read as it was written.
LEMMA BoolAt ==
  ASSUME NEW x \in BOOLEAN, NEW t, IsSeq(t), NEW g
  PROVE  ReadBool(At(WriteBool(x) \o t, g)) = At(t, Append(g, x))
<1> DEFINE b == IF x THEN 1 ELSE 0
           w == << <<"byte", b>> >> \o t
<1>1. w # <<>> /\ Head(w) = <<"byte", b>> /\ SubSeq(w, 2, Len(w)) = t
  BY FirstAtom
<1>2. IsNext(At(w, g), "byte")
  BY AtomAt
<1> HIDE DEF w
<1>3. (Head(w)[2] # 0) = x
  BY <1>1
<1>4. ReadBool(At(w, g)) = At(t, Append(g, x))
  <2>1. ReadBool(At(w, g)) = Took(At(w, g), 1, x)
    BY <1>1, <1>2, <1>3 DEF ReadBool, At
  <2>2. Took(At(w, g), 1, x) = At(SubSeq(w, 2, Len(w)), Append(g, x))
    BY TookAt
  <2> QED BY <1>1, <2>1, <2>2
<1> QED BY <1>4 DEF w, WriteBool, WriteByte

\* A VarInt is read as an int32 of what was written.
LEMMA VarIntAt ==
  ASSUME NEW x \in Int, NEW t, IsSeq(t), NEW g
  PROVE  ReadVarInt(At(WriteVarInt(x) \o t, g)) = At(t, Append(g, Int32(x)))
<1>1. PICK T : t \in Seq(T)
  BY DEF IsSeq
<1> DEFINE w == WriteVarInt(x) \o t
           r == At(w, g)
<1>2. r.ok /\ r.rest = WriteVarInt(x) \o t /\ r.got = g
  BY DEF At
<1> HIDE DEF w, r
<1>3. ReadVarInt(r) = [ok |-> r.ok, rest |-> t, got |-> Append(r.got, Int32(x))]
  BY <1>1, <1>2, VarIntRead
<1> QED BY <1>2, <1>3 DEF r, w, At

\* A text that is not longer than MaxPacketDataSize is read as it was written.
LEMMA TextAt ==
  ASSUME NEW text, Length(text) \in 0 .. MaxPacketDataSize, Length(text) = 0 => text = Empty,
         NEW t, IsSeq(t), NEW g, IsSeq(g)
  PROVE  ReadString(At(WriteString(text) \o t, g)) = At(t, Append(g, text))
<1> DEFINE length == Length(text)
           atom == << <<"text", text>> >>
           body == When(length > 0, atom)
           w == body \o t
           b == WriteVarInt(length)
           l == At(w, Append(g, length))
<1>2. length \in Int32s /\ length \in Int /\ length \in Nat /\ LengthAllowed(length)
  <2>1. MaxPacketDataSize \in Nat /\ 2 * MaxPacketDataSize < IntSize /\ IntSize \in Nat
    BY Sizes, WireAssumption
  <2> DEFINE h == IntSize \div 2
  <2>2. h \in Nat
    BY <2>1
  <2>3. IntSize = 2 * h
    BY <2>1, WireAssumption
  <2>4. length \in 0 - h .. h - 1
    <3> HIDE DEF h
    <3> QED BY <2>1, <2>2, <2>3
  <2> QED BY <2>1, <2>4 DEF Int32s, LengthAllowed
<1>3. Int32(length) = length
  BY <1>2, Int32Identity
<1>4. IsSeq(b)
  BY <1>2, SizeOfVarInt, WireIsSeq
<1>5. IsSeq(atom)
  <2>1. atom \in Seq({ <<"text", text>> })
    BY Zenon, OneOfSeq
  <2> QED BY <2>1 DEF IsSeq
<1>6. length = 0 => text = Empty /\ body = <<>>
  BY DEF When
<1>7. length # 0 => body = atom
  BY <1>2 DEF When
<1>8. WriteString(text) = b \o body
  BY DEF WriteString, WriteByteSlice
<1> HIDE DEF length, atom, body, b
<1>9. IsSeq(body)
  BY <1>2, <1>5, <1>6, <1>7, IsSeqEmpty
<1>10. IsSeq(w)
  BY <1>9, JoinedSeq
<1>11. WriteString(text) \o t = b \o w
  BY <1>4, <1>8, <1>9, Associated DEF w
<1> HIDE DEF w
<1>12. ReadVarInt(At(b \o w, g)) = l
  BY <1>2, <1>3, <1>10, VarIntAt DEF b
<1>13. l.ok /\ l.rest = w
  BY DEF At
<1>14. Last(l) = length /\ Drop(l) = At(w, g)
  BY Taken
<1> HIDE DEF l
<1>15. BytesAfter(l) = At(t, Append(g, text))
  <2>1. CASE length = 0
    <3>1. w = t
      BY <1>6, <2>1, EmptyFirst DEF w
    <3>2. BytesAfter(l) = Took(At(w, g), 0, Empty)
      <4>1. BytesAfter(l) = Took(Drop(l), 0, Empty)
        BY <1>2, <1>13, <1>14, <2>1 DEF BytesAfter
      <4> QED BY Zenon, <1>14, <4>1
    <3>3. Took(At(t, g), 0, Empty) = At(SubSeq(t, 0 + 1, Len(t)), Append(g, Empty))
      BY TookAt
    <3>4. SubSeq(t, 0 + 1, Len(t)) = t
      <4>1. SubSeq(t, 1, Len(t)) = t
        BY SubSeqFull DEF IsSeq
      <4>2. 0 + 1 = 1
        OBVIOUS
      <4> QED BY Zenon, <4>1, <4>2
    <3> QED BY <1>6, <2>1, <3>1, <3>2, <3>3, <3>4
  <2>2. CASE length # 0
    <3>1. w = atom \o t
      BY <1>7, <2>2 DEF w
    <3>2. /\ IsNext(At(w, Append(g, length)), "text")
          /\ ReadAtom(At(w, g), "text") = At(t, Append(g, text))
      BY <3>1, AtomAt DEF atom
    <3>3. Head(w) = <<"text", text>>
      BY <3>1, FirstAtom DEF atom
    <3>4. IsNext(l, "text")
      BY <3>2 DEF l
    <3>5. Length(Head(l.rest)[2]) = Last(l)
      BY <1>13, <1>14, <3>3 DEF length
    <3>6. BytesAfter(l) = ReadAtom(Drop(l), "text")
      BY <1>2, <1>13, <1>14, <2>2, <3>4, <3>5 DEF BytesAfter
    <3> QED BY <1>14, <3>2, <3>6
  <2> QED BY <2>1, <2>2
<1> QED BY <1>11, <1>12, <1>15 DEF ReadString, ReadBytes

-----------------------------------------------------------------------------
(* Framing.                                                                *)

\* The data of a frame, as Data and DataAfter look for them.
Framed(threshold, payload, data) ==
  LET r == ReadVarInt(Reader(payload)) IN
  IF Compresses(threshold)
  THEN /\ r.ok
       /\ \/ Last(r) = 0 /\ r.rest = data
          \/ Last(r) # 0 /\ IsNext(r, "zlib") /\ Head(r.rest)[2] = data
  ELSE payload = data

\* A peer that frames by the same threshold finds the data in the payload.
THEOREM FrameRead ==
  ASSUME NEW threshold \in Int, NEW data, IsWire(data), WireSize(data) \in 1 .. IntSize - 1
  PROVE  /\ Framed(threshold, Payload(threshold, data), data)
         /\ Unframed(threshold, Payload(threshold, data)) = data
<1> DEFINE size == WireSize(data)
           payload == Payload(threshold, data)
           r == ReadVarInt(Reader(payload))
<1>1. CASE threshold < 0
  BY <1>1 DEF Framed, Unframed, Payload, Compresses
<1>2. CASE threshold >= 0
  <2>1. Compresses(threshold) /\ ~(threshold < 0)
    BY <1>2 DEF Compresses
  <2>2. CASE size >= threshold
    <3> DEFINE atom == << <<"zlib", data>> >>
    <3>1. payload = WriteVarInt(size) \o atom
      BY <2>1, <2>2 DEF Payload
    <3>2. atom \in Seq({ <<"zlib", data>> }) /\ atom # <<>> /\ Head(atom) = <<"zlib", data>>
      OBVIOUS
    <3>3. size \in Int /\ size \in Nat /\ size < IntSize /\ size # 0
      BY Sizes
    <3>4. IsSeq(atom)
      BY <3>2 DEF IsSeq
    <3> HIDE DEF atom, payload, size
    <3>5. r = At(atom, Append(Untaken, Int32(size)))
      BY <3>1, <3>3, <3>4, ReaderAt, VarIntAt
    <3>6. r.ok /\ r.rest = atom
      BY <3>5 DEF At
    <3>7. Last(r) = Int32(size)
      BY <3>5, IsSeqUntaken, Taken
    <3>8. Int32(size) # 0
      BY <3>3, Int32Zero
    <3> HIDE DEF r
    <3>9. Last(r) # 0 /\ IsNext(r, "zlib") /\ Head(r.rest)[2] = data
      BY <3>2, <3>6, <3>7, <3>8 DEF IsNext
    <3> QED BY <2>1, <3>6, <3>9 DEF Framed, Unframed, DataAfter, r, payload
  <2>3. CASE ~(size >= threshold)
    <3>1. payload = WriteVarInt(0) \o data
      BY <2>1, <2>3 DEF Payload
    <3>2. IsSeq(data)
      BY WireIsSeq
    <3> HIDE DEF payload
    <3>3. r = At(data, Append(Untaken, Int32(0)))
      BY <3>1, <3>2, ReaderAt, VarIntAt
    <3>4. r.ok /\ r.rest = data
      BY <3>3 DEF At
    <3>5. Int32(0) = 0
      BY Int32Zero, Sizes
    <3>6. Last(r) = 0
      <4>1. Last(r) = Int32(0)
        BY Zenon, <3>3, FirstTaken
      <4> QED BY <3>5, <4>1
    <3> HIDE DEF r
    <3> QED BY <2>1, <3>4, <3>6 DEF Framed, Unframed, DataAfter, r, payload
  <2> QED BY <2>2, <2>3
<1> QED BY <1>1, <1>2

=============================================================================
