--------------------------- MODULE Packets_proofs ---------------------------
(***************************************************************************)
(* Proofs about Packets for all layouts, lengths of texts and numbers of   *)
(* packets: each direction of a connection implements Channel.             *)
(*                                                                         *)
(* What is received or sent lies on a stream as frames one after the other *)
(* (Laid), and reading undoes writing.  The fields, blocks and groups of a *)
(* packet are of any number, so that most proofs go by induction over      *)
(* them: over the set of the numbers the claim holds for (InductionTo).    *)
(***************************************************************************)
EXTENDS Packets, SequenceTheorems, FiniteSetTheorems, TLAPS

-----------------------------------------------------------------------------
(* Induction.  What a recursive function is follows from the induction. *)

\* A set of naturals that is not empty has a least element.
LEMMA LeastNatural ==
    ASSUME NEW S \in SUBSET Nat, S # {}
    PROVE  \E n \in S : \A m \in S : n <= m
<1> DEFINE T == {0 .. n : n \in S}
           R == StrictSubsetOrdering(Nat)
<1>1. IsWellFoundedOn(R, FiniteSubsetsOf(Nat))
  BY FS_StrictSubsetOrderingWellFounded
<1>2. T \subseteq FiniteSubsetsOf(Nat)
  <2>1. ASSUME NEW n \in S PROVE 0 .. n \in FiniteSubsetsOf(Nat)
    <3>1. n \in Nat /\ 0 .. n \in SUBSET Nat
      OBVIOUS
    <3>2. IsFiniteSet(0 .. n)
      BY <3>1, FS_Interval
    <3> QED BY <3>1, <3>2 DEF FiniteSubsetsOf
  <2> QED BY <2>1
<1>3. PICK x \in T : \A y \in T : <<y, x>> \notin R
  <2>1. T # {}
    OBVIOUS
  <2> HIDE DEF R, T
  <2> QED BY <1>1, <1>2, <2>1, WFMin
<1>4. PICK n \in S : x = 0 .. n
  OBVIOUS
<1>5. ASSUME NEW m \in S, m < n PROVE FALSE
  <2>1. 0 .. m \in SUBSET Nat /\ 0 .. n \in SUBSET Nat /\ 0 .. m \subseteq 0 .. n
    BY <1>5
  <2>2. n \in 0 .. n /\ n \notin 0 .. m
    BY <1>5
  <2>3. <<0 .. m, 0 .. n>> \in R
    BY <2>1, <2>2 DEF StrictSubsetOrdering
  <2> QED BY <2>3, <1>3, <1>4
<1> QED BY <1>5

\* Induction, with the set of the numbers a claim holds for
LEMMA Induction ==
    ASSUME NEW S, 0 \in S, \A n \in Nat : n \in S => n + 1 \in S
    PROVE  Nat \subseteq S
<1> SUFFICES ASSUME Nat \ S # {} PROVE FALSE
  OBVIOUS
<1>1. PICK n \in Nat \ S : \A m \in Nat \ S : n <= m
  BY LeastNatural
<1>2. n # 0 /\ n - 1 \in Nat /\ ~(n <= n - 1) /\ (n - 1) + 1 = n
  OBVIOUS
<1> QED BY <1>1, <1>2

\* The same up to a number
LEMMA InductionTo ==
    ASSUME NEW N \in Nat, NEW S, 0 \in S, \A n \in 0 .. N - 1 : n \in S => n + 1 \in S
    PROVE  0 .. N \subseteq S
<1> DEFINE T == {n \in Nat : n <= N => n \in S}
<1>1. Nat \subseteq T
  <2>1. 0 \in T
    OBVIOUS
  <2>2. \A n \in Nat : n \in T => n + 1 \in T
    OBVIOUS
  <2> HIDE DEF T
  <2> QED BY <2>1, <2>2, Induction
<1> QED BY <1>1

\* The first of some sequences one after the other, for each number of them
JoinTo(parts) ==
    LET upTo[f \in 0 .. Len(parts)] == IF f = 0 THEN <<>> ELSE upTo[f - 1] \o parts[f]
    IN  upTo

\* JoinTo is the function its recursion describes.
LEMMA JoinToDef ==
    ASSUME NEW parts, Len(parts) \in Nat
    PROVE  /\ JoinTo(parts)[0] = <<>>
           /\ \A f \in 1 .. Len(parts) :
                  JoinTo(parts)[f] = JoinTo(parts)[f - 1] \o parts[f]
<1> DEFINE Base == <<>>
           Step(x, f) == x \o parts[f]
           Fits(g, n) == g = [f \in 0 .. n |-> IF f = 0 THEN Base ELSE Step(g[f - 1], f)]
           S == {n \in Nat : \E g : Fits(g, n)}
<1>1. 0 \in S
  <2> HIDE DEF Base, Step
  <2>1. Fits([f \in 0 .. 0 |-> Base], 0)
    OBVIOUS
  <2> QED BY <2>1
<1>2. ASSUME NEW n \in Nat, n \in S PROVE n + 1 \in S
  <2> HIDE DEF Base, Step
  <2>1. PICK g : Fits(g, n)
    BY <1>2
  <2> DEFINE h == [f \in 0 .. n + 1 |-> IF f = n + 1 THEN Step(g[n], n + 1) ELSE g[f]]
  <2>2. \A f \in 0 .. n + 1 : h[f] = IF f = 0 THEN Base ELSE Step(h[f - 1], f)
    BY <2>1
  <2>3. Fits(h, n + 1)
    BY <2>2
  <2> HIDE DEF Fits
  <2> QED BY <2>3
<1>3. Nat \subseteq S
  <2> HIDE DEF S
  <2> QED BY <1>1, <1>2, Induction
<1>4. \E g : Fits(g, Len(parts))
  BY <1>3
<1>5. Fits(JoinTo(parts), Len(parts))
  BY <1>4 DEF JoinTo
<1>6. /\ JoinTo(parts)[0] = Base
      /\ \A f \in 1 .. Len(parts) : JoinTo(parts)[f] = Step(JoinTo(parts)[f - 1], f)
  <2> HIDE DEF Base, Step
  <2> QED BY <1>5
<1> QED BY <1>6

\* And so is ReadTo.
LEMMA ReadToDef ==
    ASSUME NEW p, NEW kinds, NEW strayZero, Len(kinds) \in Nat
    PROVE  /\ ReadTo(p, kinds, strayZero)[0] = [p EXCEPT !.read = <<>>]
           /\ \A f \in 1 .. Len(kinds) :
                  ReadTo(p, kinds, strayZero)[f] =
                      ReadField(ReadTo(p, kinds, strayZero)[f - 1], kinds[f], strayZero)
<1> DEFINE Base == [p EXCEPT !.read = <<>>]
           Step(x, f) == ReadField(x, kinds[f], strayZero)
           Fits(g, n) == g = [f \in 0 .. n |-> IF f = 0 THEN Base ELSE Step(g[f - 1], f)]
           S == {n \in Nat : \E g : Fits(g, n)}
<1>1. 0 \in S
  <2> HIDE DEF Base, Step
  <2>1. Fits([f \in 0 .. 0 |-> Base], 0)
    OBVIOUS
  <2> QED BY <2>1
<1>2. ASSUME NEW n \in Nat, n \in S PROVE n + 1 \in S
  <2> HIDE DEF Base, Step
  <2>1. PICK g : Fits(g, n)
    BY <1>2
  <2> DEFINE h == [f \in 0 .. n + 1 |-> IF f = n + 1 THEN Step(g[n], n + 1) ELSE g[f]]
  <2>2. \A f \in 0 .. n + 1 : h[f] = IF f = 0 THEN Base ELSE Step(h[f - 1], f)
    BY <2>1
  <2>3. Fits(h, n + 1)
    BY <2>2
  <2> HIDE DEF Fits
  <2> QED BY <2>3
<1>3. Nat \subseteq S
  <2> HIDE DEF S
  <2> QED BY <1>1, <1>2, Induction
<1>4. \E g : Fits(g, Len(kinds))
  BY <1>3
<1>5. Fits(ReadTo(p, kinds, strayZero), Len(kinds))
  BY <1>4 DEF ReadTo
<1>6. /\ ReadTo(p, kinds, strayZero)[0] = Base
      /\ \A f \in 1 .. Len(kinds) : ReadTo(p, kinds, strayZero)[f] = Step(ReadTo(p, kinds, strayZero)[f - 1], f)
  <2> HIDE DEF Base, Step
  <2> QED BY <1>5
<1> QED BY <1>6

-----------------------------------------------------------------------------
(* Bytes and packets. *)

\* The bytes of values, and all bytes
ValueByte == {<<"field", place, i>> : place \in Seq(Nat), i \in Nat}
Byte == ValueByte \cup {Zero}
            \cup {<<n, i>> : n \in Nat, i \in 1 .. Width.u32}
            \cup {<<"header", op, size, i>> : op \in Nat, size \in Nat, i \in 1 .. HeaderSize}

\* A value of a field: numbers have their width.
IsValue(v, kind) == v \in Seq(ValueByte) /\ (kind # "text" => Len(v) = Width[kind])

\* Packets while they are built or read
Packet == [opcode : Nat, size : Nat, writePos : Nat, readPos : Nat, data : Seq(Byte),
           length : Nat, read : Seq(Seq(Byte)), thrown : BOOLEAN]

\* Bytes are somewhere in a sequence, as far as it goes.
At(data, pos, bytes) ==
    \A i \in 1 .. Len(bytes) : pos + i <= Len(data) => data[pos + i] = bytes[i]

\* The kinds, and that numbers have a width
LEMMA WidthFacts ==
    /\ Kinds = {"u8", "u32", "text"}
    /\ \A kind \in Kinds : kind # "text" => Width[kind] \in Nat \ {0}
<1>1. DOMAIN Width = {"u8", "u32"}
  BY DEF Width
<1> QED BY <1>1 DEF Kinds, Width

\* No byte of a value is the zero that ends texts.
LEMMA NoZero == Zero \notin ValueByte
<1> SUFFICES ASSUME NEW place \in Seq(Nat), NEW i \in Nat, Zero = <<"field", place, i>>
             PROVE  FALSE
  BY DEF ValueByte
<1>1. Len(Zero) = 1 /\ Len(<<"field", place, i>>) = 3
  BY DEF Zero
<1> QED BY <1>1

\* The model's values are values.
LEMMA FieldBytesIsValue ==
    ASSUME NEW place \in Seq(Nat), NEW kind \in Kinds, NEW length \in Nat
    PROVE  IsValue(FieldBytes(place, kind, length), kind)
<1> DEFINE n == IF kind = "text" THEN length ELSE Width[kind]
<1>1. n \in Nat
  BY WidthFacts
<1> HIDE DEF n
<1>2. [i \in 1 .. n |-> <<"field", place, i>>] \in Seq(ValueByte)
  <2>1. \A i \in 1 .. n : <<"field", place, i>> \in ValueByte
    BY <1>1 DEF ValueByte
  <2>2. [i \in 1 .. n |-> <<"field", place, i>>] \in [1 .. n -> ValueByte]
    BY <2>1
  <2> QED BY <1>1, <2>2, SeqDef
<1>3. Len([i \in 1 .. n |-> <<"field", place, i>>]) = n
  BY <1>1
<1> QED BY <1>2, <1>3 DEF FieldBytes, IsValue, n

\* What a field's bytes are (WriteString adds the zero)
LEMMA WrittenFacts ==
    ASSUME NEW kind \in Kinds, NEW v, IsValue(v, kind)
    PROVE  /\ v \in Seq(Byte) /\ Len(v) \in Nat
           /\ Written(kind, v) \in Seq(Byte)
           /\ Len(Written(kind, v)) = Len(v) + (IF kind = "text" THEN 1 ELSE 0)
           /\ \A i \in 1 .. Len(v) : Written(kind, v)[i] = v[i] /\ v[i] # Zero
           /\ kind = "text" => Written(kind, v)[Len(v) + 1] = Zero
<1>1. v \in Seq(ValueByte)
  BY DEF IsValue
<1>2. Zero \in Byte /\ ValueByte \subseteq Byte
  BY DEF Byte
<1>3. v \in Seq(Byte)
  BY <1>1, <1>2, SeqMonotonic
<1>4. Len(v) \in Nat /\ \A i \in 1 .. Len(v) : v[i] \in ValueByte
  BY <1>1, LenProperties, ElementOfSeq
<1>5. /\ Append(v, Zero) \in Seq(Byte)
      /\ Len(Append(v, Zero)) = Len(v) + 1
      /\ \A i \in 1 .. Len(v) : Append(v, Zero)[i] = v[i]
      /\ Append(v, Zero)[Len(v) + 1] = Zero
  BY <1>2, <1>3, AppendProperties
<1> QED BY <1>3, <1>4, <1>5, NoZero DEF Written

-----------------------------------------------------------------------------
(* Reading one field. *)

\* Bytes that are somewhere in a sequence are what SubSeq takes from there.
LEMMA TakeAt ==
    ASSUME NEW B, NEW data \in Seq(B), NEW v \in Seq(B), NEW pos \in Nat,
           pos + Len(v) <= Len(data), \A i \in 1 .. Len(v) : data[pos + i] = v[i]
    PROVE  SubSeq(data, pos + 1, pos + Len(v)) = v
<1>1. Len(v) \in Nat /\ Len(data) \in Nat
  BY LenProperties
<1>2. \A i \in pos + 1 .. pos + Len(v) : data[i] \in B
  BY <1>1, ElementOfSeq
<1> DEFINE s == SubSeq(data, pos + 1, pos + Len(v))
<1>3. /\ s \in Seq(B)
      /\ Len(s) = IF pos + 1 <= pos + Len(v) THEN pos + Len(v) - (pos + 1) + 1 ELSE 0
      /\ \A i \in 1 .. pos + Len(v) - (pos + 1) + 1 : s[i] = data[pos + 1 + i - 1]
  BY <1>1, <1>2, SubSeqProperties
<1>4. Len(s) = Len(v) /\ \A i \in 1 .. Len(v) : s[i] = data[pos + i]
  <2> HIDE DEF s
  <2> QED BY <1>1, <1>3
<1> HIDE DEF s
<1>5. s = v
  BY <1>3, <1>4, SeqEqual
<1> QED BY <1>5 DEF s

\* The same of bytes, in a form that provers apply at once
LEMMA TakeBytes ==
    \A data, v \in Seq(Byte) : \A pos \in Nat :
        pos + Len(v) <= Len(data) /\ (\A i \in 1 .. Len(v) : data[pos + i] = v[i]) =>
            SubSeq(data, pos + 1, pos + Len(v)) = v
BY TakeAt

\* What has been read when a value has been read
ReadAlso(p, value) == Append(p.read, value)

\* What Took and Throw make of a packet
LEMMA TookPacket ==
    ASSUME NEW p \in Packet, NEW value \in Seq(Byte), NEW pos \in Nat
    PROVE  /\ Took(p, value, pos) \in Packet
           /\ Took(p, value, pos).data = p.data /\ Took(p, value, pos).size = p.size
           /\ Took(p, value, pos).thrown <=> p.thrown
           /\ Took(p, value, pos).readPos = pos
           /\ Took(p, value, pos).read = ReadAlso(p, value)
<1>1. Append(p.read, value) \in Seq(Seq(Byte))
  BY AppendProperties DEF Packet
<1> QED BY <1>1 DEF Took, Packet, ReadAlso

\* A packet that threw is still one.
LEMMA ThrowPacket ==
    ASSUME NEW p \in Packet
    PROVE  /\ Throw(p) \in Packet /\ Throw(p).thrown
           /\ Throw(p).data = p.data /\ Throw(p).size = p.size
BY DEF Throw, Packet

\* A number is read as it was written, or the read throws.
LEMMA ReadNumber ==
    ASSUME NEW p \in Packet, ~p.thrown, Len(p.data) = p.size,
           NEW kind \in Kinds, kind # "text", NEW v, IsValue(v, kind),
           At(p.data, p.readPos, Written(kind, v))
    PROVE  LET q == Read(p, Width[kind])
               end == p.readPos + Len(Written(kind, v))
           IN  /\ q \in Packet /\ q.data = p.data /\ q.size = p.size
               /\ q.thrown \/ (q.readPos = end /\ q.read = ReadAlso(p, v))
               /\ end <= p.size => ~q.thrown
               /\ p.readPos > p.size => q.thrown
<1>1. /\ v \in Seq(Byte) /\ Len(v) = Width[kind] /\ Width[kind] \in Nat \ {0}
      /\ Written(kind, v) = v
  BY WrittenFacts, WidthFacts DEF IsValue, Written
<1>2. p.data \in Seq(Byte) /\ p.readPos \in Nat /\ p.size \in Nat
  BY DEF Packet
<1>3. CASE p.readPos + Width[kind] > p.size
  <2>1. Read(p, Width[kind]) = Throw(p)
    BY <1>3 DEF Read
  <2> QED BY <2>1, <1>1, <1>2, <1>3, ThrowPacket
<1>4. CASE ~(p.readPos + Width[kind] > p.size)
  <2>2. p.readPos + Len(v) <= Len(p.data)
    BY <1>1, <1>2, <1>4
  <2>1. \A i \in 1 .. Len(v) : p.data[p.readPos + i] = v[i]
    <3> SUFFICES ASSUME NEW i \in 1 .. Len(v) PROVE p.data[p.readPos + i] = v[i]
      OBVIOUS
    <3>1. At(p.data, p.readPos, v)
      BY <1>1, Zenon
    <3>2. p.readPos + i <= Len(p.data)
      BY <1>1, <1>2, <2>2
    <3> QED BY <3>1, <3>2, Zenon DEF At
  <2>3. SubSeq(p.data, p.readPos + 1, p.readPos + Len(v)) = v
    BY <2>1, <2>2, <1>1, <1>2, TakeBytes, Zenon
  <2>4. Read(p, Width[kind]) = Took(p, v, p.readPos + Len(v))
    BY <2>3, <1>1, <1>4 DEF Read
  <2>5. p.readPos + Len(v) \in Nat
    BY <1>1, <1>2
  <2> DEFINE q == Took(p, v, p.readPos + Len(v))
  <2>6. /\ q \in Packet /\ q.data = p.data /\ q.size = p.size /\ ~q.thrown
        /\ q.readPos = p.readPos + Len(v) /\ q.read = ReadAlso(p, v)
    <3>1. v \in Seq(Byte)
      BY <1>1
    <3> QED BY <2>5, <3>1, TookPacket
  <2> HIDE DEF q
  <2>7. Read(p, Width[kind]) = q
    BY <2>4 DEF q
  <2> QED BY <2>6, <2>7, <1>1, <1>2, <1>4
<1> QED BY <1>3, <1>4

\* A text is read as it was written if its zero is within the packet.  If not,
\* the read throws, or a stray zero ends what there is of the text behind the
\* end of the packet.
LEMMA ReadText ==
    ASSUME NEW p \in Packet, ~p.thrown, Len(p.data) = p.size,
           NEW v, IsValue(v, "text"), NEW strayZero \in BOOLEAN,
           At(p.data, p.readPos, Written("text", v))
    PROVE  LET q == ReadString(p, strayZero)
               end == p.readPos + Len(Written("text", v))
           IN  /\ q \in Packet /\ q.data = p.data /\ q.size = p.size
               /\ \/ q.thrown
                  \/ q.readPos = end /\ q.read = ReadAlso(p, v)
                  \/ q.readPos > p.size
               /\ end <= p.size => ~q.thrown /\ q.readPos = end /\ q.read = ReadAlso(p, v)
               /\ p.readPos > p.size => q.thrown
<1> DEFINE w == Written("text", v)
           zeros == {i \in p.readPos .. p.size - 1 : p.data[i + 1] = Zero}
           end == IF zeros = {} THEN p.size ELSE CHOOSE i \in zeros : \A j \in zeros : i <= j
           value == SubSeq(p.data, p.readPos + 1, end)
<1>1. /\ v \in Seq(Byte) /\ Len(v) \in Nat
      /\ Len(w) = Len(v) + 1
      /\ \A i \in 1 .. Len(v) : w[i] = v[i] /\ v[i] # Zero
      /\ w[Len(v) + 1] = Zero
  BY WrittenFacts, WidthFacts
<1>2. p.data \in Seq(Byte) /\ p.readPos \in Nat /\ p.size \in Nat
  BY DEF Packet
<1>0. Len(v) \in Nat
  BY <1>1
<1>3. \A i \in 1 .. Len(v) + 1 : p.readPos + i <= p.size => p.data[p.readPos + i] = w[i]
  BY <1>1 DEF At
<1>4. \A i \in zeros : i >= p.readPos + Len(v)
  <2> SUFFICES ASSUME NEW i \in zeros, i < p.readPos + Len(v) PROVE FALSE
    BY <1>1, <1>2
  <2>0. i \in Int /\ i >= p.readPos /\ i <= p.size - 1 /\ p.data[i + 1] = Zero
    BY <1>2
  <2> HIDE DEF w, zeros
  <2>1. i + 1 - p.readPos \in 1 .. Len(v) /\ p.readPos + (i + 1 - p.readPos) = i + 1 /\ i + 1 <= p.size
    BY <1>0, <1>2, <2>0
  <2>2. p.data[i + 1] = v[i + 1 - p.readPos]
    BY <2>1, <1>1, <1>3
  <2> QED BY <2>0, <2>1, <2>2, <1>1
<1>5. ReadString(p, strayZero) = IF p.readPos >= p.size \/ (zeros = {} /\ ~strayZero) THEN Throw(p)
                                 ELSE Took(p, value, end + 1)
  BY DEF ReadString
<1>6. CASE p.readPos + Len(v) < p.size
  <2>1. p.readPos + Len(v) \in zeros
    <3>1. p.data[p.readPos + (Len(v) + 1)] = Zero
      BY <1>1, <1>2, <1>3, <1>6
    <3>2. p.readPos + (Len(v) + 1) = (p.readPos + Len(v)) + 1
      <4> HIDE DEF zeros
      <4> QED BY <1>0, <1>2
    <3>3. p.readPos + Len(v) \in p.readPos .. p.size - 1
      <4> HIDE DEF zeros
      <4> QED BY <1>0, <1>2, <1>6
    <3> QED BY <3>1, <3>2, <3>3
  <2>2. end = p.readPos + Len(v)
    <3>1. zeros \subseteq Int
      BY <1>2
    <3> HIDE DEF zeros
    <3> DEFINE e == p.readPos + Len(v)
    <3>2. e \in zeros /\ e \in Int /\ \A j \in zeros : j >= e
      BY <2>1, <1>4, <3>1
    <3> HIDE DEF e
    <3>3. \A j \in zeros : e <= j
      BY <3>1, <3>2
    <3>4. \A i \in zeros : (\A j \in zeros : i <= j) => i = e
      BY <3>1, <3>2
    <3>5. end = e
      BY <3>2, <3>3, <3>4
    <3> QED BY <3>5 DEF e
  <2>3. value = v
    <3>1. \A i \in 1 .. Len(v) : p.data[p.readPos + i] = v[i]
      BY <1>1, <1>2, <1>3, <1>6
    <3>2. SubSeq(p.data, p.readPos + 1, p.readPos + Len(v)) = v
      <4> HIDE DEF zeros, end, value
      <4>1. p.readPos + Len(v) <= Len(p.data)
        BY <1>0, <1>2, <1>6
      <4> QED BY <3>1, <4>1, <1>1, <1>2, TakeBytes, Zenon
    <3> QED BY <2>2, <3>2
  <2>4. ReadString(p, strayZero) = Took(p, v, p.readPos + Len(v) + 1)
    <3> HIDE DEF zeros, end, value
    <3> QED BY <1>1, <1>2, <1>5, <1>6, <2>1, <2>2, <2>3
  <2>5. p.readPos + Len(v) + 1 \in Nat
    BY <1>1, <1>2
  <2> DEFINE q == Took(p, v, p.readPos + Len(v) + 1)
  <2>6. /\ q \in Packet /\ q.data = p.data /\ q.size = p.size /\ ~q.thrown
        /\ q.readPos = p.readPos + Len(v) + 1 /\ q.read = ReadAlso(p, v)
    <3> DEFINE e == p.readPos + Len(v) + 1
    <3>1. e \in Nat
      BY <2>5
    <3> HIDE DEF e
    <3>2. /\ Took(p, v, e) \in Packet /\ Took(p, v, e).data = p.data /\ Took(p, v, e).size = p.size
          /\ Took(p, v, e).thrown <=> p.thrown
          /\ Took(p, v, e).readPos = e /\ Took(p, v, e).read = ReadAlso(p, v)
      BY <3>1, <1>1, TookPacket
    <3>3. ~p.thrown
      OBVIOUS
    <3> QED BY <3>2, <3>3, Zenon DEF e
  <2> HIDE DEF zeros, end, value, q
  <2>7. ReadString(p, strayZero) = q
    BY <2>4 DEF q
  <2> QED BY <2>6, <2>7, <1>1, <1>2, <1>6
<1>7. CASE ~(p.readPos + Len(v) < p.size)
  <2>1. zeros = {}
    <3> SUFFICES ASSUME NEW i \in zeros PROVE FALSE
      OBVIOUS
    <3>1. i <= p.size - 1 /\ i \in Int
      BY <1>2
    <3> QED BY <3>1, <1>1, <1>2, <1>4, <1>7
  <2>2. end = p.size
    BY <2>1
  <2>3. value \in Seq(Byte)
    <3>1. \A i \in p.readPos + 1 .. p.size : p.data[i] \in Byte
      BY <1>2, ElementOfSeq
    <3> HIDE DEF end
    <3> QED BY <3>1, <2>2, <1>2, SubSeqProperties
  <2>4. \/ ReadString(p, strayZero) = Throw(p)
        \/ p.readPos < p.size /\ ReadString(p, strayZero) = Took(p, value, p.size + 1)
    <3> HIDE DEF zeros, end, value
    <3> QED BY <1>2, <1>5, <2>1, <2>2
  <2> HIDE DEF zeros, end, value
  <2>5. CASE ReadString(p, strayZero) = Throw(p)
    BY <2>5, <1>1, <1>2, <1>7, ThrowPacket
  <2>6. CASE p.readPos < p.size /\ ReadString(p, strayZero) = Took(p, value, p.size + 1)
    <3> DEFINE q == Took(p, value, p.size + 1)
    <3>1. q \in Packet /\ q.data = p.data /\ q.size = p.size /\ q.readPos = p.size + 1
      <4>1. p.size + 1 \in Nat
        BY <1>2
      <4> QED BY <4>1, <2>3, TookPacket
    <3> HIDE DEF q
    <3>2. ReadString(p, strayZero) = q
      BY <2>6 DEF q
    <3> QED BY <2>6, <3>1, <3>2, <1>1, <1>2, <1>7
  <2> QED BY <2>4, <2>5, <2>6
<1> QED BY <1>6, <1>7

-----------------------------------------------------------------------------
(* Sequences of bytes, joined. *)

\* A function on 1 .. n is a sequence.
LEMMA FunctionIsSeq ==
    ASSUME NEW S, NEW n \in Nat, NEW f \in [1 .. n -> S]
    PROVE  f \in Seq(S) /\ Len(f) = n
<1>1. DOMAIN f = 1 .. n /\ f \in Seq(S)
  BY SeqDef
<1> QED BY <1>1, LenProperties

\* One value of its kind for each field
AreValues(values, kinds) ==
    /\ Len(values) = Len(kinds) /\ values \in Seq(Seq(Byte))
    /\ \A f \in 1 .. Len(kinds) : IsValue(values[f], kinds[f])

\* What a concatenation is, by its parts
LEMMA Parts ==
    ASSUME NEW B, NEW s \in Seq(B), NEW t \in Seq(B), NEW u, u = s \o t
    PROVE  /\ u \in Seq(B) /\ Len(u) \in Nat /\ Len(s) \in Nat /\ Len(t) \in Nat
           /\ Len(u) = Len(s) + Len(t)
           /\ \A i \in 1 .. Len(s) : u[i] = s[i]
           /\ \A i \in 1 .. Len(t) : u[Len(s) + i] = t[i]
<1>1. Len(s) \in Nat /\ Len(t) \in Nat
  BY LenProperties
<1>2. /\ u \in Seq(B) /\ Len(u) = Len(s) + Len(t)
      /\ \A i \in 1 .. Len(s) + Len(t) : u[i] = IF i <= Len(s) THEN s[i] ELSE t[i - Len(s)]
  BY ConcatProperties
<1>3. ASSUME NEW i \in 1 .. Len(t) PROVE u[Len(s) + i] = t[i]
  <2>1. Len(s) + i \in 1 .. Len(s) + Len(t) /\ ~(Len(s) + i <= Len(s)) /\ (Len(s) + i) - Len(s) = i
    BY <1>1
  <2> QED BY <1>2, <2>1
<1> QED BY <1>1, <1>2, <1>3

\* The same for bytes
LEMMA ByteParts ==
    \A s, t \in Seq(Byte) : \A u : u = s \o t =>
        /\ u \in Seq(Byte) /\ Len(u) \in Nat /\ Len(s) \in Nat /\ Len(t) \in Nat
        /\ Len(u) = Len(s) + Len(t)
        /\ \A i \in 1 .. Len(s) : u[i] = s[i]
        /\ \A i \in 1 .. Len(t) : u[Len(s) + i] = t[i]
BY Parts

\* What the parts joined so far are
LEMMA JoinFacts ==
    ASSUME NEW parts \in Seq(Seq(Byte))
    PROVE  /\ Len(parts) \in Nat /\ JoinTo(parts)[0] = <<>>
           /\ \A k \in 0 .. Len(parts) : JoinTo(parts)[k] \in Seq(Byte) /\ Len(JoinTo(parts)[k]) \in Nat
           /\ \A k \in 1 .. Len(parts) :
                  /\ JoinTo(parts)[k] = JoinTo(parts)[k - 1] \o parts[k]
                  /\ Len(parts[k]) \in Nat
                  /\ Len(JoinTo(parts)[k]) = Len(JoinTo(parts)[k - 1]) + Len(parts[k])
<1> DEFINE N == Len(parts)
           b == JoinTo(parts)
           S == {k \in 0 .. N : b[k] \in Seq(Byte)}
<1>1. N \in Nat /\ \A k \in 1 .. N : parts[k] \in Seq(Byte)
  BY LenProperties, ElementOfSeq
<1>2. b[0] = <<>> /\ \A k \in 1 .. N : b[k] = b[k - 1] \o parts[k]
  BY <1>1, JoinToDef, Zenon
<1> HIDE DEF b, N
<1>3. 0 \in S
  <2>1. <<>> \in Seq(Byte)
    BY EmptySeq
  <2>2. b[0] \in Seq(Byte)
    BY <1>2, <2>1, Zenon
  <2> QED BY <1>1, <2>2
<1>4. ASSUME NEW k \in 0 .. N - 1, k \in S PROVE k + 1 \in S
  <2>1. k + 1 \in 1 .. N /\ (k + 1) - 1 = k
    BY <1>1
  <2>2. b[k + 1] = b[k] \o parts[k + 1]
    BY <1>2, <2>1, Zenon
  <2>3. b[k] \in Seq(Byte) /\ parts[k + 1] \in Seq(Byte)
    BY <1>1, <1>4, <2>1
  <2>4. b[k + 1] \in Seq(Byte)
    BY <2>2, <2>3, ByteParts
  <2> QED BY <1>1, <2>1, <2>4
<1>5. \A k \in 0 .. N : b[k] \in Seq(Byte)
  <2>1. 0 .. N \subseteq S
    <3> HIDE DEF S
    <3> QED BY <1>1, <1>3, <1>4, InductionTo
  <2> QED BY <2>1
<1>6. ASSUME NEW k \in 1 .. N PROVE Len(b[k]) = Len(b[k - 1]) + Len(parts[k])
  <2>1. k - 1 \in 0 .. N
    BY <1>1
  <2>2. b[k] = b[k - 1] \o parts[k]
    BY <1>2, Zenon
  <2>3. b[k - 1] \in Seq(Byte) /\ parts[k] \in Seq(Byte)
    BY <1>1, <1>5, <2>1
  <2> QED BY <2>2, <2>3, ByteParts
<1>7. /\ \A k \in 0 .. N : Len(b[k]) \in Nat
      /\ \A k \in 1 .. N : Len(parts[k]) \in Nat
  BY <1>1, <1>5, LenProperties
<1> QED BY <1>1, <1>2, <1>5, <1>6, <1>7 DEF b, N

\* The first parts are the first bytes of more parts.
LEMMA JoinPrefix ==
    ASSUME NEW parts \in Seq(Seq(Byte)), NEW f \in 0 .. Len(parts)
    PROVE  LET b == JoinTo(parts)
           IN  /\ Len(b[f]) <= Len(b[Len(parts)])
               /\ \A i \in 1 .. Len(b[f]) : b[Len(parts)][i] = b[f][i]
<1> DEFINE N == Len(parts)
           b == JoinTo(parts)
           S == {g \in 0 .. N : g >= f => /\ Len(b[f]) <= Len(b[g])
                                          /\ \A i \in 1 .. Len(b[f]) : b[g][i] = b[f][i]}
<1>1. N \in Nat /\ \A g \in 1 .. N : parts[g] \in Seq(Byte)
  BY LenProperties, ElementOfSeq
<1>2. /\ \A g \in 0 .. N : b[g] \in Seq(Byte) /\ Len(b[g]) \in Nat
      /\ \A g \in 1 .. N : b[g] = b[g - 1] \o parts[g]
  BY JoinFacts
<1> HIDE DEF b, N
<1>4. 0 \in S
  BY <1>1, <1>2 DEF N
<1>5. ASSUME NEW g \in 0 .. N - 1, g \in S PROVE g + 1 \in S
  <2>1. g + 1 \in 1 .. N /\ (g + 1) - 1 = g /\ g \in 0 .. N /\ f \in 0 .. N
    BY <1>1 DEF N
  <2>3. /\ Len(b[g]) <= Len(b[g + 1])
        /\ \A i \in 1 .. Len(b[g]) : b[g + 1][i] = b[g][i]
    <3> DEFINE w == parts[g + 1]
    <3>1. w \in Seq(Byte) /\ b[g] \in Seq(Byte) /\ b[g + 1] = b[g] \o w
      BY <1>1, <1>2, <2>1
    <3> HIDE DEF w
    <3>2. /\ Len(b[g + 1]) = Len(b[g]) + Len(w) /\ Len(b[g]) \in Nat /\ Len(w) \in Nat
          /\ \A i \in 1 .. Len(b[g]) : b[g + 1][i] = b[g][i]
      BY <3>1, ByteParts
    <3> QED BY <3>2
  <2>4. CASE g >= f
    <3>1. Len(b[f]) <= Len(b[g]) /\ \A i \in 1 .. Len(b[f]) : b[g][i] = b[f][i]
      BY <1>5, <2>4
    <3>2. Len(b[f]) \in Nat /\ Len(b[g]) \in Nat /\ Len(b[g + 1]) \in Nat
      BY <1>2, <2>1
    <3>3. Len(b[f]) <= Len(b[g + 1])
      BY <2>3, <3>1, <3>2
    <3>4. \A i \in 1 .. Len(b[f]) : b[g + 1][i] = b[f][i]
      BY <2>3, <3>1, <3>2
    <3> QED BY <2>1, <3>3, <3>4
  <2>5. CASE g + 1 = f
    BY <1>2, <2>1, <2>5
  <2>6. CASE g + 1 < f
    BY <2>1, <2>6
  <2> QED BY <2>1, <2>4, <2>5, <2>6
<1>6. N \in S
  <2> HIDE DEF S
  <2>1. 0 .. N \subseteq S
    BY <1>1, <1>4, <1>5, InductionTo
  <2> QED BY <1>1, <2>1
<1> QED BY <1>6, <1>1 DEF N, b

\* Where some parts are, each part is.
LEMMA JoinAt ==
    ASSUME NEW parts \in Seq(Seq(Byte)), NEW data \in Seq(Byte), NEW pos \in Nat,
           At(data, pos, JoinTo(parts)[Len(parts)]),
           NEW f \in 1 .. Len(parts)
    PROVE  At(data, pos + Len(JoinTo(parts)[f - 1]), parts[f])
<1> DEFINE b == JoinTo(parts)
           w == parts[f]
<1>1. /\ Len(parts) \in Nat
      /\ f \in 0 .. Len(parts)
      /\ f - 1 \in 0 .. Len(parts)
      /\ Len(parts) \in 0 .. Len(parts)
  BY LenProperties
<1>2. /\ b[f - 1] \in Seq(Byte) /\ b[f] = b[f - 1] \o w
      /\ Len(b[f - 1]) \in Nat /\ Len(b[f]) = Len(b[f - 1]) + Len(w)
      /\ Len(b[Len(parts)]) \in Nat
  BY <1>1, JoinFacts
<1>3. w \in Seq(Byte) /\ Len(w) \in Nat
  BY <1>1, LenProperties, ElementOfSeq
<1>4. /\ Len(b[f]) <= Len(b[Len(parts)])
      /\ \A i \in 1 .. Len(b[f]) : b[Len(parts)][i] = b[f][i]
  BY <1>1, JoinPrefix
<1> HIDE DEF b, w
<1>6. \A i \in 1 .. Len(w) : b[f][Len(b[f - 1]) + i] = w[i]
  BY <1>2, <1>3, ByteParts
<1> SUFFICES ASSUME NEW i \in 1 .. Len(w), pos + Len(b[f - 1]) + i <= Len(data)
             PROVE  data[pos + Len(b[f - 1]) + i] = w[i]
  BY DEF At, b, w
<1> DEFINE j == Len(b[f - 1]) + i
<1>7. j \in 1 .. Len(b[Len(parts)]) /\ j \in 1 .. Len(b[f]) /\ pos + j = pos + Len(b[f - 1]) + i
  <2> DEFINE k == Len(b[f - 1])
             l == Len(w)
             n == Len(b[f])
             e == Len(b[Len(parts)])
  <2>1. k \in Nat /\ l \in Nat /\ n = k + l /\ e \in Nat /\ n <= e /\ i \in 1 .. l
    BY <1>2, <1>3, <1>4
  <2> HIDE DEF k, l, n, e
  <2>2. k + i \in 1 .. e /\ k + i \in 1 .. n /\ pos + (k + i) = pos + k + i
    BY <2>1
  <2> QED BY <2>2 DEF k, n, e
<1>8. data[pos + j] = b[Len(parts)][j]
  <2> HIDE DEF j
  <2> QED BY <1>7 DEF At, b
<1> QED BY <1>4, <1>6, <1>7, <1>8

\* FlattenSeq is the whole of them.
LEMMA FlattenIsJoin ==
    ASSUME NEW parts \in Seq(Seq(Byte))
    PROVE  FlattenSeq(parts) = JoinTo(parts)[Len(parts)]
<1> DEFINE N == Len(parts)
           b == JoinTo(parts)
           Fits(g) == g = [i \in 1 .. N |-> IF i = 1 THEN parts[i] ELSE g[i - 1] \o parts[i]]
           flatten == CHOOSE g : Fits(g)
           S == {k \in 0 .. N : k # 0 => flatten[k] = b[k]}
<1>1. N \in Nat /\ b[0] = <<>> /\ \A k \in 1 .. N : b[k] = b[k - 1] \o parts[k] /\ parts[k] \in Seq(Byte)
  BY JoinFacts, ElementOfSeq
<1>2. CASE N = 0
  <2>1. parts = <<>>
    BY <1>2, EmptySeq
  <2>2. FlattenSeq(parts) = parts
    BY <1>2 DEF FlattenSeq
  <2> QED BY <1>1, <1>2, <2>1, <2>2
<1>3. CASE N # 0
  <2>1. FlattenSeq(parts) = flatten[N]
    BY <1>3 DEF FlattenSeq
  <2> HIDE DEF b, N
  <2>2. b[1] = parts[1]
    <3>1. 1 \in 1 .. N /\ 1 - 1 = 0
      BY <1>1, <1>3
    <3>2. b[1] = <<>> \o parts[1] /\ parts[1] \in Seq(Byte)
      BY <1>1, <3>1
    <3> QED BY <3>2, ConcatEmptySeq
  <2>3. Fits([i \in 1 .. N |-> b[i]])
    <3> DEFINE h == [i \in 1 .. N |-> b[i]]
    <3>1. ASSUME NEW i \in 1 .. N PROVE b[i] = IF i = 1 THEN parts[i] ELSE h[i - 1] \o parts[i]
      <4>1. CASE i = 1
        BY <2>2, <4>1
      <4>2. CASE i # 1
        <5>1. i - 1 \in 1 .. N
          BY <1>1, <4>2
        <5>2. h[i - 1] = b[i - 1]
          BY <5>1
        <5> HIDE DEF h
        <5> QED BY <1>1, <4>2, <5>2
      <4> QED BY <4>1, <4>2
    <3>2. h = [i \in 1 .. N |-> IF i = 1 THEN parts[i] ELSE h[i - 1] \o parts[i]]
      BY <3>1
    <3> HIDE DEF h
    <3> QED BY <3>2 DEF h
  <2>4. Fits(flatten)
    <3> HIDE DEF Fits
    <3> QED BY <2>3
  <2> HIDE DEF flatten
  <2>5. \A i \in 1 .. N : flatten[i] = IF i = 1 THEN parts[i] ELSE flatten[i - 1] \o parts[i]
    BY <2>4
  <2>6. 0 \in S
    BY <1>1
  <2>7. ASSUME NEW k \in 0 .. N - 1, k \in S PROVE k + 1 \in S
    <3>1. k + 1 \in 1 .. N /\ (k + 1) - 1 = k
      BY <1>1
    <3>2. CASE k = 0
      BY <2>2, <2>5, <3>1, <3>2
    <3>3. CASE k # 0
      <4>1. flatten[k] = b[k] /\ k + 1 # 1
        BY <2>7, <3>3
      <4>2. flatten[k + 1] = flatten[k] \o parts[k + 1]
        BY <2>5, <3>1, <4>1
      <4>3. b[k + 1] = b[k] \o parts[k + 1]
        BY <1>1, <3>1
      <4>4. flatten[k + 1] = b[k + 1]
        BY <4>1, <4>2, <4>3, Zenon
      <4> QED BY <1>1, <3>1, <4>4
    <3> QED BY <3>2, <3>3
  <2>8. N \in S
    <3> HIDE DEF S
    <3>1. 0 .. N \subseteq S
      BY <1>1, <2>6, <2>7, InductionTo
    <3> QED BY <1>1, <3>1
  <2> QED BY <1>3, <2>1, <2>8 DEF b, N
<1> QED BY <1>2, <1>3

\* The bytes of the first fields, for each number of them
BytesTo(kinds, values) == JoinTo(WrittenFields(kinds, values))

\* The bytes of each field of a block
LEMMA FieldsFacts ==
    ASSUME NEW kinds \in Seq(Kinds), NEW values, AreValues(values, kinds)
    PROVE  /\ WrittenFields(kinds, values) \in Seq(Seq(Byte))
           /\ Len(WrittenFields(kinds, values)) = Len(kinds)
           /\ \A f \in 1 .. Len(kinds) : WrittenFields(kinds, values)[f] = Written(kinds[f], values[f])
<1> DEFINE N == Len(kinds)
           w == WrittenFields(kinds, values)
<1>1. N \in Nat /\ DOMAIN kinds = 1 .. N /\ \A f \in 1 .. N : kinds[f] \in Kinds
  BY LenProperties, ElementOfSeq
<1>2. \A f \in 1 .. N : Written(kinds[f], values[f]) \in Seq(Byte)
  BY <1>1, WrittenFacts DEF AreValues
<1>3. w = [f \in 1 .. N |-> Written(kinds[f], values[f])]
  BY <1>1 DEF WrittenFields
<1> HIDE DEF w, N
<1>4. w \in [1 .. N -> Seq(Byte)] /\ \A f \in 1 .. N : w[f] = Written(kinds[f], values[f])
  BY <1>2, <1>3
<1>5. w \in Seq(Seq(Byte)) /\ Len(w) = N
  BY <1>1, <1>4, FunctionIsSeq
<1> QED BY <1>4, <1>5 DEF w, N

\* And those of its first fields together
LEMMA BytesToFacts ==
    ASSUME NEW kinds \in Seq(Kinds), NEW values, AreValues(values, kinds)
    PROVE  /\ BytesTo(kinds, values)[0] = <<>>
           /\ \A f \in 0 .. Len(kinds) : BytesTo(kinds, values)[f] \in Seq(Byte)
           /\ \A f \in 1 .. Len(kinds) :
                  Len(BytesTo(kinds, values)[f])
                      = Len(BytesTo(kinds, values)[f - 1]) + Len(Written(kinds[f], values[f]))
           /\ FlattenSeq(WrittenFields(kinds, values)) = BytesTo(kinds, values)[Len(kinds)]
<1> DEFINE w == WrittenFields(kinds, values)
<1>1. /\ w \in Seq(Seq(Byte)) /\ Len(w) = Len(kinds)
      /\ \A f \in 1 .. Len(kinds) : w[f] = Written(kinds[f], values[f])
  BY FieldsFacts
<1>2. BytesTo(kinds, values) = JoinTo(w)
  BY DEF BytesTo
<1> HIDE DEF w
<1>3. FlattenSeq(w) = JoinTo(w)[Len(w)]
  BY <1>1, FlattenIsJoin
<1>4. /\ JoinTo(w)[0] = <<>>
      /\ \A k \in 0 .. Len(w) : JoinTo(w)[k] \in Seq(Byte)
      /\ \A k \in 1 .. Len(w) : Len(JoinTo(w)[k]) = Len(JoinTo(w)[k - 1]) + Len(w[k])
  BY <1>1, JoinFacts
<1> QED BY <1>1, <1>2, <1>3, <1>4 DEF w

\* Where the bytes of the fields are, those of each field are.
LEMMA FieldAt ==
    ASSUME NEW kinds \in Seq(Kinds), NEW values, AreValues(values, kinds),
           NEW data \in Seq(Byte), NEW pos \in Nat,
           At(data, pos, BytesTo(kinds, values)[Len(kinds)]),
           NEW f \in 1 .. Len(kinds)
    PROVE  At(data, pos + Len(BytesTo(kinds, values)[f - 1]), Written(kinds[f], values[f]))
<1> DEFINE w == WrittenFields(kinds, values)
<1>1. /\ w \in Seq(Seq(Byte)) /\ Len(w) = Len(kinds)
      /\ w[f] = Written(kinds[f], values[f])
  BY FieldsFacts
<1>2. BytesTo(kinds, values) = JoinTo(w)
  BY DEF BytesTo
<1> HIDE DEF w
<1>3. At(data, pos, JoinTo(w)[Len(w)]) /\ f \in 1 .. Len(w)
  BY <1>1, <1>2
<1>4. At(data, pos + Len(JoinTo(w)[f - 1]), w[f])
  BY <1>1, <1>3, JoinAt
<1> QED BY <1>1, <1>2, <1>4

-----------------------------------------------------------------------------
(* Reading the fields of a packet. *)

\* What one more field makes of a packet that has not thrown
LEMMA ReadOne ==
    ASSUME NEW p \in Packet, ~p.thrown, Len(p.data) = p.size,
           NEW kind \in Kinds, NEW v, IsValue(v, kind), NEW strayZero \in BOOLEAN,
           At(p.data, p.readPos, Written(kind, v))
    PROVE  LET q == ReadField(p, kind, strayZero)
               end == p.readPos + Len(Written(kind, v))
           IN  /\ q \in Packet /\ q.data = p.data /\ q.size = p.size
               /\ \/ q.thrown
                  \/ q.readPos = end /\ q.read = ReadAlso(p, v)
                  \/ kind = "text" /\ q.readPos > p.size
               /\ end <= p.size => ~q.thrown /\ q.readPos = end /\ q.read = ReadAlso(p, v)
<1>1. CASE kind = "text"
  <2>1. ReadField(p, kind, strayZero) = ReadString(p, strayZero)
    BY <1>1 DEF ReadField
  <2> QED BY <1>1, <2>1, ReadText
<1>2. CASE kind # "text"
  <2>1. ReadField(p, kind, strayZero) = Read(p, Width[kind])
    BY <1>2 DEF ReadField
  <2> QED BY <1>2, <2>1, ReadNumber
<1> QED BY <1>1, <1>2

\* Nothing is read behind the end of a packet.
LEMMA ReadBehind ==
    ASSUME NEW p \in Packet, p.readPos > p.size,
           NEW kind \in Kinds, NEW strayZero \in BOOLEAN
    PROVE  LET q == ReadField(p, kind, strayZero)
           IN  q \in Packet /\ q.data = p.data /\ q.size = p.size /\ q.thrown
<1>1. p.readPos \in Nat /\ p.size \in Nat
  BY DEF Packet
<1>2. CASE p.thrown
  BY <1>2 DEF ReadField
<1>3. CASE ~p.thrown
  <2>1. ReadField(p, kind, strayZero) = Throw(p)
    <3>1. kind # "text" => Width[kind] \in Nat
      BY WidthFacts
    <3> QED BY <1>1, <1>3, <3>1 DEF ReadField, ReadString, Read
  <2> QED BY <2>1, ThrowPacket
<1> QED BY <1>2, <1>3

\* The first values, one after the other
LEMMA FirstValues ==
    ASSUME NEW values \in Seq(Seq(Byte)), NEW f \in 1 .. Len(values), NEW p \in Packet,
           p.read = SubSeq(values, 1, f - 1)
    PROVE  ReadAlso(p, values[f]) = SubSeq(values, 1, f)
<1>1. Len(values) \in Nat /\ values[f] \in Seq(Byte)
  BY LenProperties, ElementOfSeq
<1>2. 1 \in 1 .. Len(values) /\ f \in 1 .. Len(values)
  BY <1>1
<1>3. SubSeq(values, 1, f) = SubSeq(values, 1, f - 1) \o <<values[f]>>
  BY <1>2, SubSeqRecursiveSecond
<1>4. p.read \in Seq(Seq(Byte))
  BY DEF Packet
<1>5. Append(p.read, values[f]) = p.read \o <<values[f]>>
  BY <1>1, <1>4, AppendIsConcat
<1> QED BY <1>3, <1>5 DEF ReadAlso

\* Fields are read as they were written, or a read throws; a text at the end
\* is the exception.
LEMMA ReadToFacts ==
    ASSUME NEW p \in Packet, ~p.thrown, Len(p.data) = p.size,
           NEW kinds \in Seq(Kinds), NEW values, AreValues(values, kinds),
           NEW strayZero \in BOOLEAN,
           At(p.data, p.readPos, BytesTo(kinds, values)[Len(kinds)]),
           NEW f \in 0 .. Len(kinds)
    PROVE  LET q == ReadTo(p, kinds, strayZero)[f]
               end == p.readPos + Len(BytesTo(kinds, values)[f])
           IN  /\ q \in Packet /\ q.data = p.data /\ q.size = p.size
               /\ \/ q.thrown
                  \/ q.readPos = end /\ q.read = SubSeq(values, 1, f)
                  \/ f # 0 /\ kinds[f] = "text" /\ q.readPos > p.size
               /\ end <= p.size => ~q.thrown /\ q.readPos = end /\ q.read = SubSeq(values, 1, f)
<1> DEFINE N == Len(kinds)
           r == ReadTo(p, kinds, strayZero)
           End(g) == p.readPos + Len(BytesTo(kinds, values)[g])
           Good(g) == r[g].readPos = End(g) /\ r[g].read = SubSeq(values, 1, g)
           Ok(g) == /\ r[g] \in Packet /\ r[g].data = p.data /\ r[g].size = p.size
                    /\ r[g].thrown \/ Good(g) \/ (g # 0 /\ kinds[g] = "text" /\ r[g].readPos > p.size)
                    /\ End(g) <= p.size => ~r[g].thrown /\ Good(g)
           S == {g \in 0 .. N : Ok(g)}
<1>1. N \in Nat /\ \A g \in 1 .. N : kinds[g] \in Kinds /\ IsValue(values[g], kinds[g])
  BY LenProperties, ElementOfSeq DEF AreValues
<1>2. p.data \in Seq(Byte) /\ p.readPos \in Nat /\ p.size \in Nat
  BY DEF Packet
<1>3. Len(values) = N /\ values \in Seq(Seq(Byte))
  BY DEF AreValues
<1>4. /\ r[0] = [p EXCEPT !.read = <<>>]
      /\ \A g \in 1 .. N : r[g] = ReadField(r[g - 1], kinds[g], strayZero)
  BY <1>1, ReadToDef
<1>5. /\ \A g \in 0 .. N : End(g) \in Nat
      /\ End(0) = p.readPos
      /\ \A g \in 1 .. N : End(g) = End(g - 1) + Len(Written(kinds[g], values[g]))
                           /\ Len(Written(kinds[g], values[g])) \in Nat
  <2>1. \A g \in 0 .. N : Len(BytesTo(kinds, values)[g]) \in Nat
    BY BytesToFacts, LenProperties
  <2>2. Len(BytesTo(kinds, values)[0]) = 0
    BY BytesToFacts, EmptySeq
  <2>3. ASSUME NEW g \in 1 .. N PROVE Len(Written(kinds[g], values[g])) \in Nat
    BY <1>1, WrittenFacts, LenProperties
  <2>4. ASSUME NEW g \in 1 .. N PROVE End(g) = End(g - 1) + Len(Written(kinds[g], values[g]))
    <3>1. Len(BytesTo(kinds, values)[g])
              = Len(BytesTo(kinds, values)[g - 1]) + Len(Written(kinds[g], values[g]))
      BY BytesToFacts
    <3>2. g - 1 \in 0 .. N /\ g \in 0 .. N
      BY <1>1
    <3>3. Len(BytesTo(kinds, values)[g - 1]) \in Nat /\ Len(Written(kinds[g], values[g])) \in Nat
      BY <2>1, <2>3, <3>2
    <3> DEFINE l == Len(BytesTo(kinds, values)[g])
               k == Len(BytesTo(kinds, values)[g - 1])
               w == Len(Written(kinds[g], values[g]))
    <3>4. End(g) = p.readPos + l /\ End(g - 1) = p.readPos + k /\ l = k + w /\ k \in Nat /\ w \in Nat
      BY <3>1, <3>3
    <3> HIDE DEF l, k, w, End
    <3>5. End(g) = End(g - 1) + w
      BY <1>2, <3>4
    <3> QED BY <3>5 DEF w
  <2> QED BY <1>2, <2>1, <2>2, <2>3, <2>4
<1>6. 0 \in S
  <2>1. SubSeq(values, 1, 0) = <<>>
    BY SubSeqEmpty
  <2>2. <<>> \in Seq(Seq(Byte))
    BY EmptySeq
  <2>3. /\ r[0] \in Packet /\ r[0].data = p.data /\ r[0].size = p.size
        /\ ~r[0].thrown /\ r[0].readPos = p.readPos /\ r[0].read = <<>>
    <3> HIDE DEF r
    <3> QED BY <1>4, <2>2 DEF Packet
  <2> HIDE DEF r, End
  <2>4. Good(0)
    BY <1>5, <2>1, <2>3
  <2>5. Ok(0)
    BY <2>3, <2>4
  <2> HIDE DEF Ok
  <2> QED BY <1>1, <2>5
<1>7. ASSUME NEW g \in 0 .. N - 1, g \in S PROVE g + 1 \in S
  <2>1. g + 1 \in 1 .. N /\ (g + 1) - 1 = g /\ g \in 0 .. N /\ g + 1 \in 0 .. N
    BY <1>1
  <2> DEFINE kind == kinds[g + 1]
             v == values[g + 1]
  <2>2. kind \in Kinds /\ IsValue(v, kind) /\ r[g + 1] = ReadField(r[g], kind, strayZero)
    BY <1>1, <1>4, <2>1
  <2>3. /\ End(g) \in Nat /\ End(g + 1) \in Nat
        /\ End(g + 1) = End(g) + Len(Written(kind, v)) /\ Len(Written(kind, v)) \in Nat
    BY <1>5, <2>1
  <2>4. Ok(g)
    BY <1>7
  <2>5. CASE r[g].thrown
    <3>1. r[g + 1] = r[g]
      BY <2>2, <2>5 DEF ReadField
    <3>2. g + 1 \in 0 .. N
      BY <2>1
    <3> HIDE DEF r, End
    <3>3. r[g + 1] \in Packet /\ r[g + 1].data = p.data /\ r[g + 1].size = p.size /\ r[g + 1].thrown
      BY <2>4, <2>5, <3>1
    <3>4. End(g) <= p.size => ~r[g].thrown
      BY <2>4
    <3>5. p.size \in Nat
      BY <1>2
    <3>6. ~(End(g + 1) <= p.size)
      BY <2>3, <2>5, <3>4, <3>5
    <3> QED BY <3>2, <3>3, <3>6
  <2>6. CASE ~r[g].thrown /\ Good(g)
    <3>1. At(p.data, p.readPos + Len(BytesTo(kinds, values)[g]), Written(kind, v))
      BY <1>2, <2>1, FieldAt
    <3>2. At(r[g].data, r[g].readPos, Written(kind, v))
      BY <2>4, <2>6, <3>1
    <3>3. ReadAlso(r[g], v) = SubSeq(values, 1, g + 1)
      BY <1>3, <2>1, <2>4, <2>6, FirstValues
    <3> HIDE DEF kind, v, r
    <3>4. LET q == r[g + 1]
              end == r[g].readPos + Len(Written(kind, v))
          IN  /\ q \in Packet /\ q.data = r[g].data /\ q.size = r[g].size
              /\ \/ q.thrown
                 \/ q.readPos = end /\ q.read = ReadAlso(r[g], v)
                 \/ kind = "text" /\ q.readPos > r[g].size
              /\ end <= r[g].size => ~q.thrown /\ q.readPos = end /\ q.read = ReadAlso(r[g], v)
      BY <2>2, <2>4, <2>6, <3>2, ReadOne
    <3> HIDE DEF End
    <3> QED BY <2>1, <2>3, <2>4, <2>6, <3>3, <3>4 DEF kind
  <2>7. CASE r[g].readPos > p.size /\ End(g) > p.size
    <3> HIDE DEF r, End, kind, v
    <3>1. /\ r[g + 1] \in Packet /\ r[g + 1].data = r[g].data /\ r[g + 1].size = r[g].size
          /\ r[g + 1].thrown
      BY <2>2, <2>4, <2>7, ReadBehind
    <3> QED BY <1>2, <2>1, <2>3, <2>4, <2>7, <3>1
  <2> HIDE DEF r, End
  <2> QED BY <1>2, <2>3, <2>4, <2>5, <2>6, <2>7
<1>8. f \in S
  <2>1. 0 .. N \subseteq S
    <3> HIDE DEF S
    <3> QED BY <1>1, <1>6, <1>7, InductionTo
  <2> HIDE DEF S
  <2> QED BY <2>1
<1> QED BY <1>8

-----------------------------------------------------------------------------
(* Frames on a stream. *)

\* Pieces first + 1 .. last lie one after the other at the beginning of the
\* bytes, up to an end.  Of each piece there are some possible forms.
Laid(bytes, end, first, last, pieces) ==
    \E ends \in [first .. last -> Nat] :
        /\ ends[first] = 0 /\ ends[last] = end
        /\ \A i, j \in first .. last : i <= j => ends[i] <= ends[j]
        /\ \A i \in first + 1 .. last :
               \E piece \in pieces[i] :
                   /\ ends[i] = ends[i - 1] + Len(piece)
                   /\ \A j \in 1 .. Len(piece) : bytes[ends[i - 1] + j] = piece[j]

\* Two facts of arithmetic
LEMMA Between ==
    ASSUME NEW a \in Nat, NEW b \in Int, NEW k \in Nat, NEW e \in Int, NEW j \in 1 .. k,
           b = a + k, b <= e
    PROVE  a + j \in 1 .. e
OBVIOUS

\* No pieces end where they begin.
LEMMA LaidNone ==
    ASSUME NEW bytes, NEW n \in Nat, NEW pieces
    PROVE  Laid(bytes, 0, n, n, pieces)
<1> DEFINE ends == [i \in n .. n |-> 0]
<1>1. ends \in [n .. n -> Nat] /\ n \in n .. n /\ n + 1 .. n = {}
  OBVIOUS
<1>2. /\ ends[n] = 0
      /\ \A i, j \in n .. n : i <= j => ends[i] <= ends[j]
      /\ \A i \in n + 1 .. n :
             \E piece \in pieces[i] :
                 /\ ends[i] = ends[i - 1] + Len(piece)
                 /\ \A j \in 1 .. Len(piece) : bytes[ends[i - 1] + j] = piece[j]
  BY <1>1
<1> HIDE DEF ends
<1> QED BY <1>1, <1>2 DEF Laid

LEMMA Before ==
    ASSUME NEW a \in Int, NEW c \in Nat, NEW e \in Nat, NEW n \in Nat, a <= e, e <= n
    PROVE  a - c <= n - c /\ n - c \in Int
OBVIOUS

\* A piece is added at the end.
LEMMA LaidAppend ==
    ASSUME NEW bytes \in Seq(Byte), NEW piece \in Seq(Byte),
           NEW first \in Nat, NEW last \in Nat, first <= last, NEW pieces, NEW pieces2,
           Laid(bytes, Len(bytes), first, last, pieces),
           \A i \in first + 1 .. last : pieces2[i] = pieces[i],
           piece \in pieces2[last + 1]
    PROVE  Laid(bytes \o piece, Len(bytes \o piece), first, last + 1, pieces2)
<1> DEFINE all == bytes \o piece
<1>1. /\ Len(all) = Len(bytes) + Len(piece) /\ Len(bytes) \in Nat /\ Len(piece) \in Nat
      /\ \A i \in 1 .. Len(bytes) : all[i] = bytes[i]
      /\ \A i \in 1 .. Len(piece) : all[Len(bytes) + i] = piece[i]
  BY ByteParts
<1> HIDE DEF all
<1>2. PICK ends \in [first .. last -> Nat] :
        /\ ends[first] = 0 /\ ends[last] = Len(bytes)
        /\ \A i, j \in first .. last : i <= j => ends[i] <= ends[j]
        /\ \A i \in first + 1 .. last :
               \E p \in pieces[i] :
                   /\ ends[i] = ends[i - 1] + Len(p)
                   /\ \A j \in 1 .. Len(p) : bytes[ends[i - 1] + j] = p[j]
  BY DEF Laid
<1> DEFINE more == [i \in first .. last + 1 |-> IF i = last + 1 THEN Len(all) ELSE ends[i]]
<1>3. more \in [first .. last + 1 -> Nat]
  BY <1>1
<1>4. more[first] = 0 /\ more[last + 1] = Len(all) /\ more[last] = Len(bytes)
  BY <1>1, <1>2
<1>5. \A i, j \in first .. last + 1 : i <= j => more[i] <= more[j]
  <2>1. \A i \in first .. last : ends[i] <= Len(bytes)
    BY <1>2
  <2> QED BY <1>1, <1>2, <2>1
<1>6. ASSUME NEW i \in first + 1 .. last + 1
      PROVE  \E p \in pieces2[i] :
                   /\ more[i] = more[i - 1] + Len(p)
                   /\ \A j \in 1 .. Len(p) : all[more[i - 1] + j] = p[j]
  <2>1. CASE i = last + 1
    <3>1. i - 1 = last /\ more[i] = Len(all) /\ more[i - 1] = Len(bytes)
      <4>1. i - 1 = last
        BY <2>1
      <4> HIDE DEF more
      <4> QED BY <1>4, <2>1, <4>1
    <3> HIDE DEF more
    <3>2. more[i] = more[i - 1] + Len(piece)
      BY <1>1, <3>1
    <3>3. \A j \in 1 .. Len(piece) : all[more[i - 1] + j] = piece[j]
      BY <1>1, <3>1
    <3> QED BY <2>1, <3>2, <3>3
  <2>2. CASE i # last + 1
    <3>1. i \in first + 1 .. last /\ i - 1 \in first .. last /\ i \in first .. last
      BY <2>2
    <3>2. PICK p \in pieces[i] :
              /\ ends[i] = ends[i - 1] + Len(p)
              /\ \A j \in 1 .. Len(p) : bytes[ends[i - 1] + j] = p[j]
      BY <1>2, <3>1
    <3>3. more[i] = ends[i] /\ more[i - 1] = ends[i - 1]
      BY <3>1
    <3>4. ends[i] \in Nat /\ ends[i - 1] \in Nat /\ ends[i] <= Len(bytes)
      BY <1>2, <3>1
    <3>5. \A j \in 1 .. Len(p) : all[ends[i - 1] + j] = p[j]
      <4> SUFFICES ASSUME NEW j \in 1 .. Len(p) PROVE all[ends[i - 1] + j] = p[j]
        OBVIOUS
      <4>0. Len(p) \in Nat /\ Len(bytes) \in Nat /\ ends[i] = ends[i - 1] + Len(p)
        BY <1>1, <3>2, <3>4
      <4>1. ends[i - 1] + j \in 1 .. Len(bytes)
        <5> DEFINE e == ends[i]
                   d == ends[i - 1]
                   l == Len(p)
                   b == Len(bytes)
        <5>1. e \in Nat /\ d \in Nat /\ l \in Nat /\ b \in Nat /\ e <= b /\ e = d + l /\ j \in 1 .. l
          BY <3>4, <4>0
        <5> HIDE DEF e, d, l, b
        <5>2. d + j \in 1 .. b
          BY <5>1
        <5> QED BY <5>2 DEF d, b
      <4> QED BY <1>1, <3>2, <4>1
    <3> QED BY <3>1, <3>2, <3>3, <3>5
  <2> QED BY <2>1, <2>2
<1> HIDE DEF more
<1>7. Laid(all, Len(all), first, last + 1, pieces2)
  BY <1>3, <1>4, <1>5, <1>6 DEF Laid
<1> QED BY <1>7 DEF all

\* The first piece is taken away.
LEMMA LaidFirst ==
    ASSUME NEW bytes \in Seq(Byte), NEW end \in Nat, end <= Len(bytes),
           NEW first \in Nat, NEW last \in Nat, first < last, NEW pieces,
           \A i \in first + 1 .. last : pieces[i] \subseteq Seq(Byte),
           Laid(bytes, end, first, last, pieces)
    PROVE  \E piece \in pieces[first + 1] :
               /\ Len(piece) <= end
               /\ \A j \in 1 .. Len(piece) : bytes[j] = piece[j]
               /\ Laid(SubSeq(bytes, Len(piece) + 1, Len(bytes)), end - Len(piece), first + 1, last, pieces)
<1>1. PICK ends \in [first .. last -> Nat] :
        /\ ends[first] = 0 /\ ends[last] = end
        /\ \A i, j \in first .. last : i <= j => ends[i] <= ends[j]
        /\ \A i \in first + 1 .. last :
               \E p \in pieces[i] :
                   /\ ends[i] = ends[i - 1] + Len(p)
                   /\ \A j \in 1 .. Len(p) : bytes[ends[i - 1] + j] = p[j]
  BY DEF Laid
<1>2. first + 1 \in first + 1 .. last /\ first + 1 \in first .. last /\ (first + 1) - 1 = first
      /\ last \in first .. last
  OBVIOUS
<1>3. PICK piece \in pieces[first + 1] :
          /\ ends[first + 1] = ends[first] + Len(piece)
          /\ \A j \in 1 .. Len(piece) : bytes[ends[first] + j] = piece[j]
  <2>1. \E p \in pieces[first + 1] :
            /\ ends[first + 1] = ends[(first + 1) - 1] + Len(p)
            /\ \A j \in 1 .. Len(p) : bytes[ends[(first + 1) - 1] + j] = p[j]
    BY <1>1, <1>2
  <2> QED BY <1>2, <2>1, Zenon
<1>4. Len(piece) \in Nat /\ Len(bytes) \in Nat
  BY <1>2, LenProperties
<1>5. ends[first + 1] = Len(piece) /\ Len(piece) <= end
  BY <1>1, <1>2, <1>3, <1>4
<1>6. \A j \in 1 .. Len(piece) : bytes[j] = piece[j]
  <2> SUFFICES ASSUME NEW j \in 1 .. Len(piece) PROVE bytes[j] = piece[j]
    OBVIOUS
  <2>1. ends[first] + j = j
    BY <1>1, <1>4
  <2> QED BY <1>3, <2>1
<1> DEFINE rest == SubSeq(bytes, Len(piece) + 1, Len(bytes))
           left == [i \in first + 1 .. last |-> ends[i] - Len(piece)]
<1>7. \A j \in 1 .. Len(bytes) - Len(piece) : rest[j] = bytes[Len(piece) + j]
  <2>1. \A i \in Len(piece) + 1 .. Len(bytes) : bytes[i] \in Byte
    BY <1>4, ElementOfSeq
  <2>2. \A i \in 1 .. Len(bytes) - (Len(piece) + 1) + 1 : rest[i] = bytes[Len(piece) + 1 + i - 1]
    BY <1>4, <2>1, SubSeqProperties
  <2> HIDE DEF rest
  <2> DEFINE k == Len(piece)
             l == Len(bytes)
  <2>3. k \in Nat /\ l \in Nat /\ \A i \in 1 .. l - (k + 1) + 1 : rest[i] = bytes[k + 1 + i - 1]
    BY <1>4, <2>2
  <2> HIDE DEF k, l
  <2>4. l - (k + 1) + 1 = l - k
    BY <2>3
  <2>5. ASSUME NEW j \in 1 .. l - k PROVE rest[j] = bytes[k + j]
    <3>1. k + 1 + j - 1 = k + j /\ j \in 1 .. l - (k + 1) + 1
      BY <2>3, <2>4
    <3> QED BY <2>3, <3>1
  <2> QED BY <2>5 DEF k, l
<1> HIDE DEF rest
<1>8. left \in [first + 1 .. last -> Nat]
  <2> SUFFICES ASSUME NEW i \in first + 1 .. last PROVE ends[i] - Len(piece) \in Nat
    OBVIOUS
  <2>1. i \in first .. last /\ ends[i] \in Nat /\ ends[first + 1] <= ends[i]
    BY <1>1, <1>2
  <2> QED BY <1>4, <1>5, <2>1
<1>9. left[first + 1] = 0 /\ left[last] = end - Len(piece)
  BY <1>1, <1>2, <1>4, <1>5
<1>10. \A i, j \in first + 1 .. last : i <= j => left[i] <= left[j]
  <2> SUFFICES ASSUME NEW i \in first + 1 .. last, NEW j \in first + 1 .. last, i <= j
               PROVE  ends[i] - Len(piece) <= ends[j] - Len(piece)
    OBVIOUS
  <2>1. i \in first .. last /\ j \in first .. last /\ ends[i] \in Nat /\ ends[j] \in Nat
    OBVIOUS
  <2>2. ends[i] <= ends[j]
    BY <1>1, <2>1
  <2> DEFINE d == ends[i]
             e == ends[j]
             l == Len(piece)
  <2>3. d \in Nat /\ e \in Nat /\ l \in Nat /\ d <= e
    BY <1>4, <2>1, <2>2
  <2> HIDE DEF d, e, l
  <2>4. d - l <= e - l
    BY <2>3
  <2> QED BY <2>4 DEF d, e, l
<1>11. ASSUME NEW i \in (first + 1) + 1 .. last
       PROVE  \E p \in pieces[i] :
                  /\ left[i] = left[i - 1] + Len(p)
                  /\ \A j \in 1 .. Len(p) : rest[left[i - 1] + j] = p[j]
  <2>1. /\ i \in first + 1 .. last
        /\ i - 1 \in first + 1 .. last
        /\ i \in first .. last
        /\ i - 1 \in first .. last
    OBVIOUS
  <2>2. PICK p \in pieces[i] :
            /\ ends[i] = ends[i - 1] + Len(p)
            /\ \A j \in 1 .. Len(p) : bytes[ends[i - 1] + j] = p[j]
    BY <1>1, <2>1
  <2>3. /\ left[i] = ends[i] - Len(piece) /\ left[i - 1] = ends[i - 1] - Len(piece)
        /\ ends[i] \in Nat /\ ends[i - 1] \in Nat /\ ends[i] <= end /\ left[i - 1] \in Nat
    BY <1>1, <1>2, <1>8, <2>1
  <2> HIDE DEF left
  <2>4. Len(p) \in Nat
    BY <2>1, LenProperties
  <2>5. left[i] = left[i - 1] + Len(p)
    BY <1>4, <2>2, <2>3, <2>4
  <2>6. ASSUME NEW j \in 1 .. Len(p) PROVE rest[left[i - 1] + j] = p[j]
    <3>1. left[i - 1] + j \in 1 .. Len(bytes) - Len(piece)
      <4>1. left[i] <= Len(bytes) - Len(piece) /\ Len(bytes) - Len(piece) \in Int
        <5>1. ends[i] \in Int
          BY <2>3
        <5>2. ends[i] - Len(piece) <= Len(bytes) - Len(piece) /\ Len(bytes) - Len(piece) \in Int
          BY <1>4, <2>3, <5>1, Before, Zenon
        <5> QED BY <2>3, <5>2, Zenon
      <4>2. left[i] \in Int /\ left[i - 1] \in Nat
        BY <1>4, <2>3
      <4> QED BY <2>4, <2>5, <4>1, <4>2, Between
    <3>2. Len(piece) + (left[i - 1] + j) = ends[i - 1] + j
      <4> DEFINE k == Len(piece)
                 l == left[i - 1]
                 e == ends[i - 1]
      <4>1. k \in Nat /\ l \in Nat /\ e \in Nat /\ l = e - k
        BY <1>4, <2>3
      <4> HIDE DEF k, l, e
      <4>2. k + (l + j) = e + j
        BY <4>1
      <4> QED BY <4>2 DEF k, l, e
    <3>3. rest[left[i - 1] + j] = bytes[Len(piece) + (left[i - 1] + j)]
      BY <1>7, <3>1
    <3> QED BY <2>2, <3>2, <3>3
  <2> QED BY <2>5, <2>6
<1> HIDE DEF left
<1>12. Laid(rest, end - Len(piece), first + 1, last, pieces)
  <2>1. \A i \in (first + 1) + 1 .. last :
            \E p \in pieces[i] :
                /\ left[i] = left[i - 1] + Len(p)
                /\ \A j \in 1 .. Len(p) : rest[left[i - 1] + j] = p[j]
    BY <1>11
  <2> QED BY <1>8, <1>9, <1>10, <2>1, Zenon DEF Laid
<1> QED BY <1>5, <1>6, <1>12 DEF rest

-----------------------------------------------------------------------------
(* What a client sends, and what a handler reads of it. *)

\* What a client may say
ClientMessage ==
    {m \in [op : DOMAIN ClientLayouts, fields : Seq(Seq(Byte))] : AreValues(m.fields, ClientLayouts[m.op])}

\* What the layouts' assumption says of one opcode
LEMMA LayoutFacts ==
    ASSUME NEW op \in DOMAIN ClientLayouts
    PROVE  /\ op \in Nat
           /\ ClientLayouts[op] \in Seq(Kinds)
           /\ Len(ClientLayouts[op]) \in Nat
           /\ Len(ClientLayouts[op]) # 0 => ClientLayouts[op][Len(ClientLayouts[op])] # "text"
<1>1. op \in 1 .. Len(ClientLayouts) /\ ClientLayouts[op] \in Seq(Kinds)
  BY ClientLayoutsAssumption, LenProperties, ElementOfSeq
<1>2. Len(ClientLayouts[op]) \in Nat
  BY <1>1, LenProperties
<1>3. ClientLayouts[op] # <<>> => ClientLayouts[op][Len(ClientLayouts[op])] # "text"
  BY ClientLayoutsAssumption
<1>4. Len(ClientLayouts[op]) # 0 => ClientLayouts[op] # <<>>
  BY EmptySeq
<1> QED BY <1>1, <1>2, <1>3, <1>4

\* What a client may write is a message.
LEMMA ClientMessagesFacts ==
    ASSUME NEW op \in DOMAIN ClientLayouts, NEW n \in Nat, NEW m \in ClientMessages(op, n)
    PROVE  m \in ClientMessage
<1> DEFINE kinds == ClientLayouts[op]
<1>1. kinds \in Seq(Kinds) /\ Len(kinds) \in Nat /\ DOMAIN kinds = 1 .. Len(kinds)
  BY LayoutFacts, LenProperties
<1> HIDE DEF kinds
<1>2. PICK length \in TextLengths :
          m = [op |-> op, fields |-> [f \in DOMAIN kinds |-> FieldBytes(<<n, f>>, kinds[f], length)]]
  BY DEF ClientMessages, kinds
<1>3. length \in Nat
  BY TextLengthsAssumption
<1> DEFINE values == [f \in DOMAIN kinds |-> FieldBytes(<<n, f>>, kinds[f], length)]
<1>4. \A f \in 1 .. Len(kinds) : IsValue(values[f], kinds[f])
  <2> SUFFICES ASSUME NEW f \in 1 .. Len(kinds)
               PROVE  IsValue(FieldBytes(<<n, f>>, kinds[f], length), kinds[f])
    BY <1>1
  <2>1. kinds[f] \in Kinds
    BY <1>1, ElementOfSeq
  <2>2. <<n, f>> \in Seq(Nat)
    BY <1>1
  <2> QED BY <1>3, <2>1, <2>2, FieldBytesIsValue
<1>5. \A f \in 1 .. Len(kinds) : values[f] \in Seq(Byte)
  <2> SUFFICES ASSUME NEW f \in 1 .. Len(kinds) PROVE values[f] \in Seq(Byte)
    OBVIOUS
  <2>1. kinds[f] \in Kinds
    BY <1>1, ElementOfSeq
  <2> HIDE DEF values
  <2> QED BY <1>4, <2>1, WrittenFacts
<1>6. values \in Seq(Seq(Byte)) /\ Len(values) = Len(kinds)
  <2>1. values \in [1 .. Len(kinds) -> Seq(Byte)]
    BY <1>1, <1>5
  <2>2. DOMAIN values = 1 .. Len(kinds)
    BY <1>1
  <2> HIDE DEF values
  <2> QED BY <1>1, <2>1, <2>2, SeqDef
<1>7. m.op = op /\ m.fields = values /\ m = [op |-> op, fields |-> values]
  BY <1>2
<1> HIDE DEF values
<1>8. AreValues(m.fields, ClientLayouts[m.op])
  BY <1>4, <1>6, <1>7 DEF AreValues, kinds
<1> QED BY <1>6, <1>7, <1>8 DEF ClientMessage

\* The contents of a client's packet are its fields' bytes.
LEMMA ContentsFacts ==
    ASSUME NEW m \in ClientMessage
    PROVE  /\ m.op \in DOMAIN ClientLayouts /\ m.op \in Nat
           /\ m.fields \in Seq(Seq(Byte))
           /\ m = [op |-> m.op, fields |-> m.fields]
           /\ Contents(m) \in Seq(Byte) /\ Len(Contents(m)) \in Nat
           /\ Contents(m) = BytesTo(ClientLayouts[m.op], m.fields)[Len(ClientLayouts[m.op])]
<1>1. /\ m.op \in DOMAIN ClientLayouts /\ m.fields \in Seq(Seq(Byte))
      /\ m = [op |-> m.op, fields |-> m.fields]
      /\ AreValues(m.fields, ClientLayouts[m.op])
  BY DEF ClientMessage
<1>2. /\ ClientLayouts[m.op] \in Seq(Kinds) /\ m.op \in Nat
      /\ Len(ClientLayouts[m.op]) \in 0 .. Len(ClientLayouts[m.op])
  BY <1>1, LayoutFacts
<1>3. /\ Contents(m) \in Seq(Byte)
      /\ Contents(m) = BytesTo(ClientLayouts[m.op], m.fields)[Len(ClientLayouts[m.op])]
  <2> DEFINE kinds == ClientLayouts[m.op]
             values == m.fields
  <2>1. kinds \in Seq(Kinds) /\ AreValues(values, kinds) /\ Len(kinds) \in 0 .. Len(kinds)
    BY <1>1, <1>2
  <2>2. Contents(m) = FlattenSeq(WrittenFields(kinds, values))
    BY DEF Contents
  <2> HIDE DEF kinds, values
  <2>3. Contents(m) \in Seq(Byte) /\ Contents(m) = BytesTo(kinds, values)[Len(kinds)]
    <3>1. FlattenSeq(WrittenFields(kinds, values)) = BytesTo(kinds, values)[Len(kinds)]
      BY <2>1, BytesToFacts
    <3>2. BytesTo(kinds, values)[Len(kinds)] \in Seq(Byte)
      BY <2>1, BytesToFacts
    <3> QED BY <2>2, <3>1, <3>2, Zenon
  <2> QED BY <2>3 DEF kinds, values
<1> QED BY <1>1, <1>2, <1>3, LenProperties

\* A frame has the beginning of its message's contents, and all its bytes
\* unless the size it announces is not accepted.
LEMMA FrameFacts ==
    ASSUME NEW m \in ClientMessage, NEW frame \in Frames(m)
    PROVE  /\ frame.contents \in Seq(Byte) /\ Len(frame.contents) \in Nat
           /\ frame.size \in Nat
           /\ frame.size < MaxSize => frame.size = Len(frame.contents)
           /\ At(frame.contents, 0, Contents(m))
<1> DEFINE c == Contents(m)
           Framed(bytes) == [size |-> Len(bytes), contents |-> bytes]
<1>1. c \in Seq(Byte) /\ Len(c) \in Nat
  BY ContentsFacts
<1>2. \/ frame = Framed(c)
      \/ frame = Framed(Append(c, Zero))
      \/ frame = [size |-> MaxSize, contents |-> c]
      \/ \E k \in Lacking \cap 1 .. Len(c) : frame = Framed(SubSeq(c, 1, Len(c) - k))
  <2> HIDE DEF Framed
  <2>1. frame \in {Framed(c), Framed(Append(c, Zero)), [size |-> MaxSize, contents |-> c]}
                  \cup {Framed(SubSeq(c, 1, Len(c) - k)) : k \in Lacking \cap 1 .. Len(c)}
    BY DEF Frames, Framed
  <2> HIDE DEF c
  <2> QED BY <2>1
<1> HIDE DEF c
<1>3. \A b \in Seq(Byte) : At(b, 0, c) =>
          /\ Framed(b).contents \in Seq(Byte) /\ Len(Framed(b).contents) \in Nat
          /\ Framed(b).size \in Nat
          /\ Framed(b).size = Len(Framed(b).contents)
          /\ At(Framed(b).contents, 0, c)
  BY LenProperties
<1>4. At(c, 0, c)
  <2> SUFFICES ASSUME NEW i \in 1 .. Len(c) PROVE c[0 + i] = c[i]
    BY DEF At
  <2>1. 0 + i = i
    OBVIOUS
  <2> QED BY <2>1
<1>5. Append(c, Zero) \in Seq(Byte) /\ At(Append(c, Zero), 0, c)
  <2> DEFINE s == Append(c, Zero)
  <2>1. s \in Seq(Byte) /\ \A i \in 1 .. Len(c) : s[i] = c[i]
    BY <1>1, AppendProperties DEF Byte
  <2> HIDE DEF s
  <2>2. At(s, 0, c)
    <3> SUFFICES ASSUME NEW i \in 1 .. Len(c) PROVE s[0 + i] = c[i]
      BY DEF At
    <3>1. 0 + i = i
      OBVIOUS
    <3> QED BY <2>1, <3>1
  <2> QED BY <2>1, <2>2 DEF s
<1>6. ASSUME NEW k \in Lacking \cap 1 .. Len(c)
      PROVE  SubSeq(c, 1, Len(c) - k) \in Seq(Byte) /\ At(SubSeq(c, 1, Len(c) - k), 0, c)
  <2> DEFINE n == Len(c) - k
             s == SubSeq(c, 1, n)
  <2>1. n \in Int /\ 1 \in Int /\ n <= Len(c)
    BY <1>1
  <2> HIDE DEF n
  <2>2. \A i \in 1 .. n : c[i] \in Byte
    BY <1>1, <2>1, ElementOfSeq
  <2>3. /\ s \in Seq(Byte)
        /\ Len(s) = IF 1 <= n THEN n - 1 + 1 ELSE 0
        /\ \A i \in 1 .. n - 1 + 1 : s[i] = c[1 + i - 1]
    BY <2>1, <2>2, SubSeqProperties
  <2> HIDE DEF s
  <2>4. At(s, 0, c)
    <3> SUFFICES ASSUME NEW i \in 1 .. Len(c), 0 + i <= Len(s) PROVE s[0 + i] = c[i]
      BY DEF At
    <3>1. 0 + i = i /\ i \in 1 .. n - 1 + 1 /\ 1 + i - 1 = i
      BY <1>1, <2>1, <2>3
    <3> QED BY <2>3, <3>1
  <2> QED BY <2>3, <2>4 DEF s, n
<1>7. CASE frame = [size |-> MaxSize, contents |-> c]
  <2>1. frame.size = MaxSize /\ frame.contents = c
    BY <1>7
  <2> QED BY <1>1, <1>4, <2>1, MaxSizeAssumption DEF c
<1>8. CASE \E b \in Seq(Byte) : At(b, 0, c) /\ frame = Framed(b)
  <2> HIDE DEF Framed
  <2> QED BY <1>3, <1>8 DEF c
<1> HIDE DEF Framed
<1> QED BY <1>1, <1>2, <1>4, <1>5, <1>6, <1>7, <1>8

\* A received packet, before anything is read of it
LEMMA NewPacketFacts ==
    ASSUME NEW op \in Nat, NEW data \in Seq(Byte), NEW size \in Nat, size = Len(data)
    PROVE  LET p == ReceivedPacket(op, size, data)
           IN  p \in Packet /\ ~p.thrown /\ p.size = size /\ p.readPos = 0 /\ p.data = data
<1> DEFINE new == NewPacket(op, size)
           p == [new EXCEPT !.data = data, !.length = Len(data)]
<1>1. /\ new \in Packet /\ ~new.thrown /\ new.size = size /\ new.readPos = 0
  <2>1. <<>> \in Seq(Seq(Byte)) /\ <<>> \in Seq(Byte)
    OBVIOUS
  <2> QED BY <2>1 DEF NewPacket, Packet
<1> HIDE DEF new
<1>2. /\ p \in Packet /\ p.data = data /\ p.size = new.size /\ p.readPos = new.readPos
      /\ p.thrown = new.thrown
  BY <1>1, LenProperties DEF Packet
<1> QED BY <1>1, <1>2 DEF ReceivedPacket, new

\* A handler reads the message of a frame, or throws.
LEMMA HandlerReads ==
    ASSUME NEW m \in ClientMessage, NEW frame \in Frames(m), frame.size < MaxSize,
           NEW strayZero \in BOOLEAN
    PROVE  LET p == ReadFields(ReceivedPacket(m.op, Len(frame.contents), frame.contents),
                               ClientLayouts[m.op], strayZero)
           IN  p.thrown \/ p.read = m.fields
<1> DEFINE p == ReceivedPacket(m.op, Len(frame.contents), frame.contents)
           kinds == ClientLayouts[m.op]
           n == Len(kinds)
           q == ReadTo(p, kinds, strayZero)[n]
<1>1. /\ frame.contents \in Seq(Byte) /\ Len(frame.contents) \in Nat
      /\ At(frame.contents, 0, Contents(m))
  BY FrameFacts
<1>2. m.op \in DOMAIN ClientLayouts /\ m.op \in Nat /\ m.fields \in Seq(Seq(Byte))
  BY ContentsFacts
<1>3. /\ kinds \in Seq(Kinds) /\ n \in 0 .. n /\ n \in Nat
      /\ n # 0 => kinds[n] # "text"
  BY <1>2, LayoutFacts
<1>4. AreValues(m.fields, kinds)
  BY DEF ClientMessage
<1>5. /\ p \in Packet /\ ~p.thrown /\ Len(p.data) = p.size
      /\ p.readPos = 0 /\ p.data = frame.contents
  BY <1>1, <1>2, NewPacketFacts
<1>6. At(p.data, p.readPos, BytesTo(kinds, m.fields)[n])
  <2>1. Contents(m) = BytesTo(kinds, m.fields)[n]
    BY ContentsFacts
  <2> QED BY <1>1, <1>5, <2>1
<1> HIDE DEF p, kinds
<1>7. \/ q.thrown
      \/ q.read = SubSeq(m.fields, 1, n)
      \/ n # 0 /\ kinds[n] = "text"
  BY <1>3, <1>4, <1>5, <1>6, ReadToFacts
<1>8. SubSeq(m.fields, 1, n) = m.fields
  BY <1>2, <1>4, SubSeqFull DEF AreValues
<1>9. q.thrown \/ q.read = m.fields
  BY <1>3, <1>7, <1>8
<1> QED BY <1>9 DEF ReadFields, p, kinds

-----------------------------------------------------------------------------
(* Frames at the beginning of a client's stream. *)

\* The possible forms of the messages' frames
FrameBytes(m) == {Header(m.op, frame.size) \o frame.contents : frame \in Frames(m)}
Forms(messages) == [i \in DOMAIN messages |-> FrameBytes(messages[i])]

\* The bytes of a header
LEMMA HeaderFacts ==
    ASSUME NEW op \in Nat, NEW size \in Nat
    PROVE  /\ Header(op, size) \in Seq(Byte) /\ Len(Header(op, size)) = 4
           /\ Header(op, size) # <<>>
           /\ \A i \in 1 .. 4 : Header(op, size)[i] = <<"header", op, size, i>>
           /\ Header(op, size)[1][2] = op /\ Header(op, size)[1][3] = size
<1>1. \A i \in 1 .. 4 : <<"header", op, size, i>> \in Byte
  BY DEF Byte, HeaderSize
<1>2. Header(op, size) = [i \in 1 .. 4 |-> <<"header", op, size, i>>]
  BY DEF Header, HeaderSize
<1>3. Header(op, size) \in [1 .. 4 -> Byte] /\ DOMAIN Header(op, size) = 1 .. 4
  BY <1>1, <1>2
<1>4. Header(op, size) \in Seq(Byte) /\ Len(Header(op, size)) = 4
  BY <1>2, <1>3, SeqDef
<1>5. \A i \in 1 .. 4 : Header(op, size)[i] = <<"header", op, size, i>>
  BY <1>2
<1>6. Header(op, size)[1] = <<"header", op, size, 1>>
  BY <1>5
<1>7. Header(op, size)[1][2] = op /\ Header(op, size)[1][3] = size
  BY <1>6
<1> QED BY <1>4, <1>5, <1>7, EmptySeq

\* The bytes of a header, in a form that provers apply at once
LEMMA HeaderBytes ==
    \A op, size \in Nat :
        /\ Header(op, size) \in Seq(Byte) /\ Len(Header(op, size)) = 4
        /\ \A i \in 1 .. 4 : Header(op, size)[i] = <<"header", op, size, i>>
<1> SUFFICES ASSUME NEW op \in Nat, NEW size \in Nat
             PROVE  /\ Header(op, size) \in Seq(Byte) /\ Len(Header(op, size)) = 4
                    /\ \A i \in 1 .. 4 : Header(op, size)[i] = <<"header", op, size, i>>
  OBVIOUS
<1> DEFINE h == Header(op, size)
<1>1. h \in Seq(Byte) /\ Len(h) = 4
  BY HeaderFacts
<1>2. \A i \in 1 .. 4 : h[i] = <<"header", op, size, i>>
  BY DEF Header, HeaderSize
<1> QED BY <1>1, <1>2, Zenon

\* The bytes of a frame are its header and its contents.
LEMMA FrameBytesFacts ==
    ASSUME NEW m \in ClientMessage, NEW b \in FrameBytes(m)
    PROVE  /\ b \in Seq(Byte)
           /\ \E frame \in Frames(m) :
                  /\ Len(b) = 4 + Len(frame.contents)
                  /\ \A i \in 1 .. 4 : b[i] = <<"header", m.op, frame.size, i>>
                  /\ \A i \in 1 .. Len(frame.contents) : b[4 + i] = frame.contents[i]
<1>1. PICK frame \in Frames(m) : b = Header(m.op, frame.size) \o frame.contents
  BY DEF FrameBytes
<1> DEFINE h == Header(m.op, frame.size)
           c == frame.contents
<1>2. frame.size \in Nat /\ m.op \in Nat /\ c \in Seq(Byte)
  BY FrameFacts, ContentsFacts
<1>3. h \in Seq(Byte) /\ Len(h) = 4 /\ \A i \in 1 .. 4 : h[i] = <<"header", m.op, frame.size, i>>
  BY <1>2, HeaderFacts
<1>4. b = h \o c
  BY <1>1
<1> HIDE DEF h, c
<1>5. /\ b \in Seq(Byte) /\ Len(b) = Len(h) + Len(c)
      /\ \A i \in 1 .. Len(h) : b[i] = h[i]
      /\ \A i \in 1 .. Len(c) : b[Len(h) + i] = c[i]
  <2>1. \A s, t \in Seq(Byte) : b = s \o t =>
            /\ b \in Seq(Byte) /\ Len(b) = Len(s) + Len(t)
            /\ \A i \in 1 .. Len(s) : b[i] = s[i]
            /\ \A i \in 1 .. Len(t) : b[Len(s) + i] = t[i]
    BY ByteParts
  <2> QED BY <1>2, <1>3, <1>4, <2>1, Zenon
<1>6. /\ Len(b) = 4 + Len(c)
      /\ \A i \in 1 .. 4 : b[i] = <<"header", m.op, frame.size, i>>
      /\ \A i \in 1 .. Len(c) : b[4 + i] = c[i]
  BY <1>3, <1>5
<1> QED BY <1>5, <1>6 DEF c

LEMMA FrameBytesAreBytes ==
    ASSUME NEW m \in ClientMessage
    PROVE  FrameBytes(m) \subseteq Seq(Byte)
BY FrameBytesFacts

\* If there are bytes, there is a piece.
LEMMA LaidSome ==
    ASSUME NEW bytes, NEW end, end # 0, NEW first \in Nat, NEW last \in Nat, first <= last, NEW pieces,
           Laid(bytes, end, first, last, pieces)
    PROVE  first < last
<1> SUFFICES ASSUME first = last PROVE FALSE
  OBVIOUS
<1> QED BY DEF Laid

\* The frame at the beginning of bytes is one of a message, and the frames of
\* the messages after it follow.
FrameAt(all, op, size, messages, n) ==
    \E frame \in Frames(messages[n + 1]) :
        /\ op = messages[n + 1].op /\ size = frame.size /\ size = Len(frame.contents)
        /\ frame.contents \in Seq(Byte)
        /\ 4 + size <= Len(all)
        /\ \A j \in 1 .. size : all[4 + j] = frame.contents[j]
        /\ Laid(SubSeq(all, 4 + size + 1, Len(all)), Len(all) - (4 + size),
                n + 1, Len(messages), Forms(messages))

\* A header whose size is accepted, at the beginning of frames laid one after
\* the other, is the one of the first message that has not been handled.
LEMMA FirstFrame ==
    ASSUME NEW messages \in Seq(ClientMessage), NEW n \in Nat, n <= Len(messages),
           NEW all \in Seq(Byte), Laid(all, Len(all), n, Len(messages), Forms(messages)),
           NEW op \in Nat, NEW size \in Nat, size < MaxSize, Len(all) >= 4,
           all[1] = <<"header", op, size, 1>>
    PROVE  n + 1 \in 1 .. Len(messages) /\ FrameAt(all, op, size, messages, n)
<1> DEFINE pieces == Forms(messages)
           L == Len(messages)
           m == messages[n + 1]
<1>1. L \in Nat /\ Len(all) \in Nat /\ Len(all) # 0
  BY LenProperties
<1>2. n < L /\ n + 1 \in 1 .. L /\ n + 1 \in n + 1 .. L
  <2>1. n < L
    BY <1>1, LaidSome
  <2> QED BY <1>1, <2>1
<1>3. \A i \in 1 .. L : messages[i] \in ClientMessage /\ pieces[i] = FrameBytes(messages[i])
  BY LenProperties, ElementOfSeq DEF Forms
<1>4. \A i \in n + 1 .. L : pieces[i] \subseteq Seq(Byte)
  <2> SUFFICES ASSUME NEW i \in n + 1 .. L PROVE pieces[i] \subseteq Seq(Byte)
    OBVIOUS
  <2>1. i \in 1 .. L
    BY <1>1
  <2> HIDE DEF pieces
  <2> QED BY <1>3, <2>1, FrameBytesAreBytes
<1>5. m \in ClientMessage /\ pieces[n + 1] = FrameBytes(m)
  BY <1>2, <1>3
<1> HIDE DEF pieces
<1>6. PICK piece \in pieces[n + 1] :
          /\ Len(piece) <= Len(all)
          /\ \A j \in 1 .. Len(piece) : all[j] = piece[j]
          /\ Laid(SubSeq(all, Len(piece) + 1, Len(all)), Len(all) - Len(piece), n + 1, L, pieces)
  <2>1. Laid(all, Len(all), n, L, pieces) /\ Len(all) <= Len(all)
    BY <1>1 DEF pieces
  <2> HIDE DEF L
  <2> QED BY <1>1, <1>2, <1>4, <2>1, LaidFirst
<1> HIDE DEF m
<1>7. PICK frame \in Frames(m) :
          /\ Len(piece) = 4 + Len(frame.contents)
          /\ \A i \in 1 .. 4 : piece[i] = <<"header", m.op, frame.size, i>>
          /\ \A i \in 1 .. Len(frame.contents) : piece[4 + i] = frame.contents[i]
  <2>1. piece \in FrameBytes(m)
    BY <1>5
  <2> QED BY <1>5, <2>1, FrameBytesFacts, Zenon
<1> DEFINE k == Len(frame.contents)
<1>8. /\ frame.contents \in Seq(Byte) /\ k \in Nat /\ frame.size \in Nat /\ m.op \in Nat
      /\ frame.size < MaxSize => frame.size = k
  BY <1>5, FrameFacts, ContentsFacts
<1>9. /\ Len(piece) = 4 + k
      /\ \A i \in 1 .. 4 : piece[i] = <<"header", m.op, frame.size, i>>
      /\ \A i \in 1 .. k : piece[4 + i] = frame.contents[i]
  BY <1>7
<1> HIDE DEF k
<1>10. op = m.op /\ size = frame.size
  <2>1. 1 \in 1 .. Len(piece) /\ 1 \in 1 .. 4
    BY <1>8, <1>9
  <2>2. <<"header", op, size, 1>> = <<"header", m.op, frame.size, 1>>
    BY <1>6, <1>9, <2>1
  <2> QED BY <2>2
<1>11. size = k /\ Len(piece) = 4 + size
  BY <1>8, <1>9, <1>10
<1>12. \A j \in 1 .. size : all[4 + j] = frame.contents[j]
  <2> SUFFICES ASSUME NEW j \in 1 .. size PROVE all[4 + j] = frame.contents[j]
    OBVIOUS
  <2>1. 4 + j \in 1 .. Len(piece) /\ j \in 1 .. k
    BY <1>8, <1>11
  <2> QED BY <1>6, <1>9, <2>1
<1>13. Laid(SubSeq(all, 4 + size + 1, Len(all)), Len(all) - (4 + size), n + 1, L, pieces)
  BY <1>6, <1>11
<1>14. 4 + size <= Len(all)
  BY <1>6, <1>11
<1>15. FrameAt(all, op, size, messages, n)
  BY <1>8, <1>10, <1>11, <1>12, <1>13, <1>14 DEF FrameAt, m, pieces, k
<1> QED BY <1>2, <1>15

-----------------------------------------------------------------------------
(* The invariant of the incoming packets. *)

\* What has been said and not handled, in order
Pending(messages, n) == SubSeq(messages, n + 1, Len(messages))

\* The inductive invariant: until the client is removed, frames of what has been
\* said and not handled are on the stream, behind the header read last.
InInv ==
    state = "served" =>
        /\ said \in Seq(ClientMessage) /\ handled \in Seq(ClientMessage)
        /\ Len(handled) <= Len(said)
        /\ stream \in Seq(Byte) /\ arrived \in 0 .. Len(stream)
        /\ header = <<>> \/ \E op \in Nat, size \in Nat : size < MaxSize /\ header = Header(op, size)
        /\ Laid(header \o stream, Len(header \o stream), Len(handled), Len(said), Forms(said))

\* A byte of a header is recognized by its length.
LEMMA HeaderByte ==
    ASSUME NEW b \in Byte, Len(b) = 4
    PROVE  \E op \in Nat, size \in Nat, i \in 1 .. 4 : b = <<"header", op, size, i>>
<1>1. CASE b \in ValueByte
  <2> SUFFICES ASSUME NEW place \in Seq(Nat), NEW i \in Nat, b = <<"field", place, i>> PROVE FALSE
    BY <1>1 DEF ValueByte
  <2>1. Len(b) = 3
    OBVIOUS
  <2> QED BY <2>1
<1>2. CASE b = Zero
  BY <1>2 DEF Zero
<1>3. CASE b \in {<<n, i>> : n \in Nat, i \in 1 .. Width.u32}
  <2>1. PICK n \in Nat, i \in 1 .. Width.u32 : b = <<n, i>>
    BY <1>3
  <2> QED BY <2>1
<1>4. CASE b \in {<<"header", op, size, i>> : op \in Nat, size \in Nat, i \in 1 .. HeaderSize}
  BY <1>4 DEF HeaderSize
<1> QED BY <1>1, <1>2, <1>3, <1>4 DEF Byte

\* The receive loop accepts nothing but headers with a size below the maximum.
LEMMA AcceptedFacts ==
    ASSUME NEW bytes \in Seq(Byte), Accepted(bytes)
    PROVE  /\ Len(bytes) = 4
           /\ \E op \in Nat, size \in Nat :
                  /\ bytes = Header(op, size) /\ size < MaxSize
                  /\ bytes[1] = <<"header", op, size, 1>> /\ bytes[1][2] = op /\ bytes[1][3] = size
<1>1. Len(bytes) = 4 /\ Len(bytes[1]) = 4 /\ bytes = Header(bytes[1][2], bytes[1][3])
  BY DEF Accepted, IsHeader, HeaderSize
<1>2. bytes[1] \in Byte
  BY <1>1, ElementOfSeq
<1>3. PICK op \in Nat, size \in Nat, k \in 1 .. 4 : bytes[1] = <<"header", op, size, k>>
  BY <1>1, <1>2, HeaderByte
<1>4. bytes[1][2] = op /\ bytes[1][3] = size
  BY <1>3
<1>5. bytes = Header(op, size) /\ size < MaxSize
  BY <1>1, <1>4 DEF Accepted
<1>6. Header(op, size)[1] = <<"header", op, size, 1>>
  <2>1. \A i \in 1 .. 4 : Header(op, size)[i] = <<"header", op, size, i>>
    BY HeaderBytes, Zenon
  <2>2. 1 \in 1 .. 4
    OBVIOUS
  <2> QED BY <2>1, <2>2, Zenon
<1>7. bytes[1] = <<"header", op, size, 1>>
  BY <1>5, <1>6
<1> QED BY <1>1, <1>4, <1>5, <1>7

\* recv() takes the first bytes of the stream.
LEMMA ReceivedFacts ==
    ASSUME stream \in Seq(Byte), arrived \in 0 .. Len(stream), NEW n \in Nat
    PROVE  /\ Received(n) \in Seq(Byte)
           /\ Len(Received(n)) = (IF arrived < n THEN arrived ELSE n)
           /\ Len(Received(n)) \in 0 .. arrived
           /\ \A i \in 1 .. Len(Received(n)) : Received(n)[i] = stream[i]
<1> DEFINE k == IF arrived < n THEN arrived ELSE n
           s == SubSeq(stream, 1, k)
<1>1. Len(stream) \in Nat
  BY LenProperties
<1>2. k \in 0 .. arrived /\ k \in Int /\ 1 \in Int /\ k \in 0 .. Len(stream)
  BY <1>1
<1>3. Received(n) = s
  BY DEF Received
<1> HIDE DEF k
<1>4. \A i \in 1 .. k : stream[i] \in Byte
  BY <1>1, <1>2, ElementOfSeq
<1>5. /\ s \in Seq(Byte) /\ Len(s) = IF 1 <= k THEN k - 1 + 1 ELSE 0
      /\ \A i \in 1 .. k - 1 + 1 : s[i] = stream[1 + i - 1]
  BY <1>2, <1>4, SubSeqProperties
<1> HIDE DEF s
<1>6. Len(s) = k /\ k - 1 + 1 = k /\ \A i \in 1 .. k : 1 + i - 1 = i
  BY <1>2, <1>5
<1>7. \A i \in 1 .. k : s[i] = stream[i]
  BY <1>5, <1>6
<1> QED BY <1>2, <1>3, <1>5, <1>6, <1>7 DEF k

\* What recv() leaves in the socket
LEMMA ConsumeFacts ==
    ASSUME stream \in Seq(Byte), arrived \in 0 .. Len(stream),
           NEW bytes, Len(bytes) \in 0 .. arrived, Consume(bytes)
    PROVE  /\ stream' \in Seq(Byte) /\ Len(stream') = Len(stream) - Len(bytes)
           /\ stream' = SubSeq(stream, Len(bytes) + 1, Len(stream))
           /\ \A i \in 1 .. Len(stream') : stream'[i] = stream[Len(bytes) + i]
           /\ arrived' \in 0 .. Len(stream')
<1> DEFINE k == Len(bytes)
           L == Len(stream)
<1>1. L \in Nat /\ k \in Nat /\ k <= L /\ k + 1 \in Int
  BY LenProperties
<1>2. stream' = SubSeq(stream, k + 1, L) /\ arrived' = arrived - k
  BY DEF Consume
<1>3. \A i \in k + 1 .. L : stream[i] \in Byte
  <2> SUFFICES ASSUME NEW i \in k + 1 .. L PROVE stream[i] \in Byte
    OBVIOUS
  <2>1. i \in 1 .. L
    BY <1>1
  <2> QED BY <2>1, ElementOfSeq
<1>4. k \in 0 .. arrived
  OBVIOUS
<1> HIDE DEF k, L
<1>5. /\ stream' \in Seq(Byte) /\ Len(stream') = IF k + 1 <= L THEN L - (k + 1) + 1 ELSE 0
      /\ \A i \in 1 .. L - (k + 1) + 1 : stream'[i] = stream[k + 1 + i - 1]
  BY <1>1, <1>2, <1>3, SubSeqProperties
<1>6. Len(stream') = L - k /\ L - (k + 1) + 1 = L - k
  BY <1>1, <1>5
<1>7. \A i \in 1 .. Len(stream') : stream'[i] = stream[k + i]
  <2> SUFFICES ASSUME NEW i \in 1 .. Len(stream') PROVE stream'[i] = stream[k + i]
    OBVIOUS
  <2>1. i \in 1 .. L - (k + 1) + 1 /\ k + 1 + i - 1 = k + i
    BY <1>1, <1>6
  <2> QED BY <1>5, <2>1
<1>8. arrived' \in 0 .. Len(stream')
  <2>1. Len(stream') = L - k /\ arrived \in 0 .. L /\ k \in 0 .. arrived /\ arrived' = arrived - k
    BY <1>2, <1>4, <1>6 DEF L
  <2> QED BY <1>1, <2>1
<1> QED BY <1>2, <1>5, <1>6, <1>7, <1>8 DEF k, L

\* A handler reads the first message not handled, or the process dies.
LEMMA HandleFacts ==
    ASSUME NEW m \in ClientMessage, NEW frame \in Frames(m), frame.size < MaxSize,
           Handle(m.op, frame.contents)
    PROVE  \/ state' = "dead" /\ handled' = handled
           \/ state' = state /\ handled' = Append(handled, m)
<1> DEFINE read(strayZero) == ReadFields(ReceivedPacket(m.op, Len(frame.contents), frame.contents),
                                         ClientLayouts[m.op], strayZero)
<1>1. PICK strayZero \in BOOLEAN :
          IF read(strayZero).thrown
          THEN state' = "dead" /\ UNCHANGED handled
          ELSE /\ handled' = Append(handled, [op |-> m.op, fields |-> read(strayZero).read])
               /\ UNCHANGED state
  BY DEF Handle
<1>2. read(strayZero).thrown \/ read(strayZero).read = m.fields
  BY HandlerReads
<1> HIDE DEF read
<1>3. m = [op |-> m.op, fields |-> m.fields]
  BY ContentsFacts
<1> QED BY <1>1, <1>2, <1>3

\* The same bytes are laid in the same way.
LEMMA LaidSame ==
    ASSUME NEW bytes, NEW bytes2, NEW end, NEW first \in Nat, NEW last \in Nat, NEW pieces,
           Laid(bytes, end, first, last, pieces), bytes = bytes2
    PROVE  Laid(bytes2, end, first, last, pieces)
OBVIOUS

-----------------------------------------------------------------------------
(* Its steps. *)

\* The bytes of the header that has been taken and of the stream
LEMMA AllFacts ==
    ASSUME header \in Seq(Byte), stream \in Seq(Byte), NEW all, all = header \o stream
    PROVE  /\ all \in Seq(Byte) /\ Len(all) = Len(header) + Len(stream)
           /\ Len(header) \in Nat /\ Len(stream) \in Nat
           /\ \A i \in 1 .. Len(header) : all[i] = header[i]
           /\ \A i \in 1 .. Len(stream) : all[Len(header) + i] = stream[i]
<1>1. \A s, t \in Seq(Byte) : all = s \o t =>
          /\ all \in Seq(Byte) /\ Len(s) \in Nat /\ Len(t) \in Nat
          /\ Len(all) = Len(s) + Len(t)
          /\ \A i \in 1 .. Len(s) : all[i] = s[i]
          /\ \A i \in 1 .. Len(t) : all[Len(s) + i] = t[i]
  BY ByteParts
<1> QED BY <1>1, Zenon

\* What is left of a sequence behind its first elements
LEMMA RestFacts ==
    ASSUME NEW B, NEW s \in Seq(B), NEW k \in Nat, k <= Len(s)
    PROVE  /\ SubSeq(s, k + 1, Len(s)) \in Seq(B)
           /\ Len(SubSeq(s, k + 1, Len(s))) = Len(s) - k
           /\ \A i \in 1 .. Len(s) - k : SubSeq(s, k + 1, Len(s))[i] = s[k + i]
<1> DEFINE e == k + 1
           L == Len(s)
           t == SubSeq(s, e, L)
<1>1. L \in Nat /\ L \in Int /\ e \in Int
  BY LenProperties
<1>2. \A i \in e .. L : s[i] \in B
  <2> SUFFICES ASSUME NEW i \in e .. L PROVE s[i] \in B
    OBVIOUS
  <2>1. i \in 1 .. L
    BY <1>1
  <2> QED BY <2>1, ElementOfSeq
<1> HIDE DEF e, L
<1>3. /\ t \in Seq(B) /\ Len(t) = IF e <= L THEN L - e + 1 ELSE 0
      /\ \A i \in 1 .. L - e + 1 : t[i] = s[e + i - 1]
  BY <1>1, <1>2, SubSeqProperties
<1> HIDE DEF t
<1>4. Len(t) = L - k
  BY <1>1, <1>3 DEF e, L
<1>5. \A i \in 1 .. L - k : t[i] = s[k + i]
  <2> SUFFICES ASSUME NEW i \in 1 .. L - k PROVE t[i] = s[k + i]
    OBVIOUS
  <2>1. i \in 1 .. L - e + 1 /\ e + i - 1 = k + i
    BY <1>1 DEF e
  <2> QED BY <1>3, <2>1
<1> QED BY <1>3, <1>4, <1>5 DEF t, e, L

\* The same of bytes
LEMMA RestBytes ==
    \A s \in Seq(Byte) : \A k \in Nat : k <= Len(s) =>
        /\ SubSeq(s, k + 1, Len(s)) \in Seq(Byte)
        /\ Len(SubSeq(s, k + 1, Len(s))) = Len(s) - k
        /\ \A i \in 1 .. Len(s) - k : SubSeq(s, k + 1, Len(s))[i] = s[k + i]
BY RestFacts

\* A header kept from an earlier turn is bytes.
LEMMA HeaderIsBytes ==
    ASSUME InInv, state = "served"
    PROVE  header \in Seq(Byte)
<1>1. header = <<>> \/ \E op \in Nat, size \in Nat : size < MaxSize /\ header = Header(op, size)
  BY DEF InInv
<1>2. \A op \in Nat, size \in Nat : Header(op, size) \in Seq(Byte)
  BY HeaderFacts
<1>3. CASE header = <<>>
  BY <1>3
<1>4. CASE header # <<>>
  BY <1>1, <1>2, <1>4
<1> QED BY <1>3, <1>4

\* A frame of which all bytes are there is handled.
LEMMA FrameHandled ==
    ASSUME InInv, state = "served",
           NEW all, all = header \o stream,
           NEW op \in Nat, NEW size \in Nat, size < MaxSize, Len(all) >= 4,
           all[1] = <<"header", op, size, 1>>,
           NEW contents \in Seq(Byte), Len(contents) = size,
           \A j \in 1 .. size : contents[j] = all[4 + j],
           Handle(op, contents),
           said' = said, header' = <<>>,
           stream' \in Seq(Byte), arrived' \in 0 .. Len(stream'),
           Len(stream') = Len(all) - (4 + size),
           \A i \in 1 .. Len(stream') : stream'[i] = all[4 + size + i]
    PROVE  /\ InInv'
           /\ Len(handled) < Len(said)
           /\ \/ state' = "dead" /\ handled' = handled
              \/ state' = state /\ handled' = Append(handled, said[Len(handled) + 1])
<1>1. /\ said \in Seq(ClientMessage) /\ handled \in Seq(ClientMessage)
      /\ Len(handled) <= Len(said)
      /\ header \in Seq(Byte) /\ stream \in Seq(Byte)
      /\ Laid(all, Len(all), Len(handled), Len(said), Forms(said))
  BY HeaderIsBytes DEF InInv
<1>2. all \in Seq(Byte)
  BY <1>1, AllFacts
<1>3. Len(handled) \in Nat /\ Len(said) \in Nat /\ Len(all) \in Nat
  BY <1>1, <1>2, LenProperties
<1> DEFINE n == Len(handled)
           m == said[n + 1]
           Rest == SubSeq(all, 4 + size + 1, Len(all))
<1>4. n + 1 \in 1 .. Len(said) /\ FrameAt(all, op, size, said, n)
  BY <1>1, <1>2, <1>3, FirstFrame
<1>5. PICK frame \in Frames(m) :
          /\ op = m.op /\ size = frame.size /\ size = Len(frame.contents)
          /\ frame.contents \in Seq(Byte)
          /\ 4 + size <= Len(all)
          /\ \A j \in 1 .. size : all[4 + j] = frame.contents[j]
          /\ Laid(Rest, Len(all) - (4 + size), n + 1, Len(said), Forms(said))
  BY <1>4 DEF FrameAt
<1>6. m \in ClientMessage
  BY <1>1, <1>4, ElementOfSeq
<1>7. contents = frame.contents
  <2> DEFINE c == frame.contents
  <2>1. c \in Seq(Byte) /\ Len(contents) = Len(c)
    BY <1>5
  <2>2. \A j \in 1 .. Len(contents) : contents[j] = c[j]
    BY <1>5
  <2> HIDE DEF c
  <2>3. contents = c
    BY <2>1, <2>2, SeqEqual
  <2> QED BY <2>3 DEF c
<1>8. Rest = stream'
  <2>1. 4 + size \in Nat /\ 4 + size <= Len(all)
    BY <1>5
  <2>3. /\ Rest \in Seq(Byte) /\ Len(Rest) = Len(all) - (4 + size)
        /\ \A i \in 1 .. Len(all) - (4 + size) : Rest[i] = all[4 + size + i]
    <3> DEFINE k == 4 + size
    <3> HIDE DEF k
    <3>1. k \in Nat /\ k <= Len(all)
      BY <2>1 DEF k
    <3>2. /\ SubSeq(all, k + 1, Len(all)) \in Seq(Byte) /\ Len(SubSeq(all, k + 1, Len(all))) = Len(all) - k
          /\ \A i \in 1 .. Len(all) - k : SubSeq(all, k + 1, Len(all))[i] = all[k + i]
      BY <1>2, <3>1, RestBytes, Zenon
    <3> QED BY <3>2, Zenon DEF k
  <2> DEFINE L == Len(all) - (4 + size)
  <2>6. /\ Len(Rest) = L /\ Len(stream') = L
        /\ \A i \in 1 .. L : Rest[i] = all[4 + size + i]
    BY <2>3
  <2>7. \A i \in 1 .. L : stream'[i] = all[4 + size + i]
    BY <2>6
  <2> HIDE DEF Rest, L
  <2>4. Len(Rest) = Len(stream')
    BY <2>6
  <2>5. \A i \in 1 .. Len(Rest) : Rest[i] = stream'[i]
    BY <2>6, <2>7
  <2> QED BY <2>3, <2>4, <2>5, SeqEqual
<1>9. \/ state' = "dead" /\ handled' = handled
      \/ state' = state /\ handled' = Append(handled, m)
  <2>1. Handle(m.op, frame.contents)
    BY <1>5, <1>7
  <2> QED BY <1>5, <1>6, <2>1, HandleFacts
<1>10. Len(handled) < Len(said)
  BY <1>3, <1>4
<1>11. ASSUME state' = state, handled' = Append(handled, m) PROVE InInv'
  <2>1. handled' \in Seq(ClientMessage) /\ Len(handled') = n + 1
    BY <1>1, <1>6, <1>11, AppendProperties
  <2>2. header' \o stream' = stream'
    BY ConcatEmptySeq
  <2>3. Laid(stream', Len(stream'), Len(handled'), Len(said'), Forms(said'))
    <3>1. Laid(stream', Len(all) - (4 + size), n + 1, Len(said), Forms(said))
      BY <1>5, <1>8
    <3> QED BY <2>1, <3>1
  <2>4. Laid(header' \o stream', Len(header' \o stream'), Len(handled'), Len(said'), Forms(said'))
    BY <2>2, <2>3
  <2>5. Len(handled') <= Len(said')
    BY <1>3, <1>10, <2>1
  <2> QED BY <1>1, <2>1, <2>4, <2>5 DEF InInv
<1>12. ASSUME state' = "dead" PROVE InInv'
  BY <1>12 DEF InInv
<1> QED BY <1>9, <1>10, <1>11, <1>12

\* A packet without contents is handled where its header is read (UpdateClients).
LEMMA ReceiveEmptyStep ==
    ASSUME InInv, ReceiveEmpty
    PROVE  /\ InInv' /\ said' = said
           /\ Len(handled) < Len(said)
           /\ \/ state' = "dead" /\ handled' = handled
              \/ state' = state /\ handled' = Append(handled, said[Len(handled) + 1])
<1> DEFINE bytes == Received(4)
<1>1. /\ state = "served" /\ header = <<>>
      /\ Accepted(bytes) /\ bytes[1][3] = 0 /\ Consume(bytes)
      /\ Handle(bytes[1][2], <<>>) /\ said' = said /\ header' = <<>>
  BY DEF ReceiveEmpty, HeaderSize
<1>2. stream \in Seq(Byte) /\ arrived \in 0 .. Len(stream)
  BY <1>1 DEF InInv
<1>3. /\ bytes \in Seq(Byte) /\ Len(bytes) \in 0 .. arrived
      /\ \A i \in 1 .. Len(bytes) : bytes[i] = stream[i]
  BY <1>2, ReceivedFacts
<1> HIDE DEF bytes
<1>4. /\ stream' \in Seq(Byte) /\ Len(stream') = Len(stream) - Len(bytes)
      /\ \A i \in 1 .. Len(stream') : stream'[i] = stream[Len(bytes) + i]
      /\ arrived' \in 0 .. Len(stream')
  BY <1>1, <1>2, <1>3, ConsumeFacts
<1>5. Len(bytes) = 4
  BY <1>1, <1>3, AcceptedFacts
<1>6. PICK op \in Nat, size \in Nat :
          /\ size < MaxSize /\ bytes[1] = <<"header", op, size, 1>>
          /\ bytes[1][2] = op /\ bytes[1][3] = size
  BY <1>1, <1>3, AcceptedFacts
<1>7. size = 0
  BY <1>1, <1>6
<1>8. Len(stream) \in Nat /\ Len(stream) >= 4
  BY <1>2, <1>3, <1>5, LenProperties
<1>9. stream[1] = <<"header", op, size, 1>>
  BY <1>3, <1>5, <1>6
<1>10. stream = header \o stream
  BY <1>1, <1>2, ConcatEmptySeq
<1>11. /\ <<>> \in Seq(Byte) /\ Len(<<>>) = size /\ \A j \in 1 .. size : <<>>[j] = stream[4 + j]
  BY <1>7
<1>12. /\ Len(stream') = Len(stream) - (4 + size)
       /\ \A i \in 1 .. Len(stream') : stream'[i] = stream[4 + size + i]
  BY <1>4, <1>5, <1>7
<1>13. Handle(op, <<>>)
  BY <1>1, <1>6
<1> QED BY <1>1, <1>4, <1>6, <1>8, <1>9, <1>10, <1>11, <1>12, <1>13, FrameHandled, Zenon

\* A packet whose contents have arrived is handled.
LEMMA ReceiveContentsStep ==
    ASSUME InInv, ReceiveContents
    PROVE  /\ InInv' /\ said' = said
           /\ Len(handled) < Len(said)
           /\ \/ state' = "dead" /\ handled' = handled
              \/ state' = state /\ handled' = Append(handled, said[Len(handled) + 1])
<1>1. /\ state = "served" /\ header # <<>>
      /\ AllArrived /\ Consume(ContentsReceived)
      /\ Handle(header[1][2], ContentsReceived) /\ said' = said /\ header' = <<>>
  BY DEF ReceiveContents
<1>2. stream \in Seq(Byte) /\ arrived \in 0 .. Len(stream)
  BY <1>1 DEF InInv
<1>3. PICK op \in Nat, size \in Nat : size < MaxSize /\ header = Header(op, size)
  BY <1>1 DEF InInv
<1>4. /\ header \in Seq(Byte) /\ Len(header) = 4 /\ header[1] = <<"header", op, size, 1>>
      /\ header[1][2] = op /\ header[1][3] = size
  <2>1. \A i \in 1 .. 4 : header[i] = <<"header", op, size, i>>
    <3>1. \A i \in 1 .. 4 : Header(op, size)[i] = <<"header", op, size, i>>
      BY HeaderBytes, Zenon
    <3> QED BY <1>3, <3>1, Zenon
  <2>2. 1 \in 1 .. 4
    OBVIOUS
  <2>3. header \in Seq(Byte) /\ Len(header) = 4 /\ header[1][2] = op /\ header[1][3] = size
    BY <1>3, HeaderFacts
  <2>4. header[1] = <<"header", op, size, 1>>
    BY <2>1, <2>2, Zenon
  <2> QED BY <2>3, <2>4
<1> DEFINE bytes == Received(size)
           all == header \o stream
<1>5. ContentsReceived = bytes /\ Len(bytes) = size
  BY <1>1, <1>4 DEF ContentsReceived, AllArrived
<1>6. /\ bytes \in Seq(Byte) /\ Len(bytes) \in 0 .. arrived
      /\ \A i \in 1 .. Len(bytes) : bytes[i] = stream[i]
  BY <1>2, ReceivedFacts
<1>7. Consume(bytes) /\ Handle(op, bytes)
  BY <1>1, <1>4, <1>5
<1> HIDE DEF bytes
<1>8. /\ stream' \in Seq(Byte) /\ Len(stream') = Len(stream) - Len(bytes)
      /\ \A i \in 1 .. Len(stream') : stream'[i] = stream[Len(bytes) + i]
      /\ arrived' \in 0 .. Len(stream')
  BY <1>2, <1>6, <1>7, ConsumeFacts
<1>9. /\ all \in Seq(Byte) /\ Len(all) = Len(header) + Len(stream) /\ Len(stream) \in Nat
      /\ \A i \in 1 .. Len(header) : all[i] = header[i]
      /\ \A i \in 1 .. Len(stream) : all[Len(header) + i] = stream[i]
  BY <1>2, <1>4, AllFacts
<1>10. all = header \o stream
  OBVIOUS
<1> HIDE DEF all
<1>11. Len(all) >= 4 /\ all[1] = <<"header", op, size, 1>>
  BY <1>4, <1>9
<1>12. \A j \in 1 .. size : bytes[j] = all[4 + j]
  BY <1>2, <1>4, <1>5, <1>6, <1>9
<1>13. Len(stream') = Len(all) - (4 + size)
  BY <1>4, <1>5, <1>8, <1>9
<1>14. \A i \in 1 .. Len(stream') : stream'[i] = all[4 + size + i]
  <2> SUFFICES ASSUME NEW i \in 1 .. Len(stream') PROVE stream'[i] = all[4 + size + i]
    OBVIOUS
  <2>1. size + i \in 1 .. Len(stream) /\ 4 + (size + i) = 4 + size + i
    BY <1>5, <1>8, <1>9
  <2> QED BY <1>4, <1>5, <1>8, <1>9, <2>1
<1>15. /\ InInv'
       /\ Len(handled) < Len(said)
       /\ \/ state' = "dead" /\ handled' = handled
          \/ state' = state /\ handled' = Append(handled, said[Len(handled) + 1])
  <2>1. state = "served" /\ said' = said /\ header' = <<>> /\ size < MaxSize
    BY <1>1, <1>3
  <2>2. bytes \in Seq(Byte) /\ Len(bytes) = size /\ Handle(op, bytes)
    BY <1>5, <1>6, <1>7
  <2>3. stream' \in Seq(Byte) /\ arrived' \in 0 .. Len(stream')
    BY <1>8
  <2> QED BY <1>10, <1>11, <1>12, <1>13, <1>14, <2>1, <2>2, <2>3, FrameHandled, Zenon
<1> QED BY <1>1, <1>15

\* A header is kept until its contents have arrived.
LEMMA ReceiveHeaderStep ==
    ASSUME InInv, ReceiveHeader
    PROVE  InInv' /\ UNCHANGED <<said, handled, state>>
<1> DEFINE bytes == Received(4)
<1>1. /\ state = "served" /\ header = <<>> /\ Accepted(bytes) /\ Consume(bytes)
      /\ header' = bytes /\ UNCHANGED <<said, handled, state>>
  BY DEF ReceiveHeader, HeaderSize
<1>2. /\ stream \in Seq(Byte) /\ arrived \in 0 .. Len(stream)
      /\ said \in Seq(ClientMessage) /\ handled \in Seq(ClientMessage)
      /\ Len(handled) <= Len(said)
      /\ Laid(header \o stream, Len(header \o stream), Len(handled), Len(said), Forms(said))
  BY <1>1 DEF InInv
<1>3. /\ bytes \in Seq(Byte) /\ Len(bytes) \in 0 .. arrived
      /\ \A i \in 1 .. Len(bytes) : bytes[i] = stream[i]
  BY <1>2, ReceivedFacts
<1> HIDE DEF bytes
<1>4. /\ stream' \in Seq(Byte) /\ Len(stream') = Len(stream) - Len(bytes)
      /\ \A i \in 1 .. Len(stream') : stream'[i] = stream[Len(bytes) + i]
      /\ arrived' \in 0 .. Len(stream')
  BY <1>1, <1>2, <1>3, ConsumeFacts
<1>5. \E op \in Nat, size \in Nat : size < MaxSize /\ bytes = Header(op, size)
  BY <1>1, <1>3, AcceptedFacts
<1> DEFINE all == bytes \o stream'
<1>6. /\ all \in Seq(Byte) /\ Len(all) = Len(bytes) + Len(stream')
      /\ \A i \in 1 .. Len(bytes) : all[i] = bytes[i]
      /\ \A i \in 1 .. Len(stream') : all[Len(bytes) + i] = stream'[i]
  <2>1. \A s, t \in Seq(Byte) : all = s \o t =>
          /\ all \in Seq(Byte) /\ Len(all) = Len(s) + Len(t)
          /\ \A i \in 1 .. Len(s) : all[i] = s[i]
          /\ \A i \in 1 .. Len(t) : all[Len(s) + i] = t[i]
    BY ByteParts
  <2>2. all = bytes \o stream'
    OBVIOUS
  <2> HIDE DEF all
  <2> QED BY <1>3, <1>4, <2>1, <2>2, Zenon
<1> HIDE DEF all
<1>7. all = stream
  <2>1. Len(stream) \in Nat /\ Len(all) = Len(stream)
    BY <1>2, <1>3, <1>4, <1>6, LenProperties
  <2>2. \A i \in 1 .. Len(all) : all[i] = stream[i]
    <3> SUFFICES ASSUME NEW i \in 1 .. Len(all) PROVE all[i] = stream[i]
      OBVIOUS
    <3>1. CASE i <= Len(bytes)
      BY <1>3, <1>6, <3>1
    <3>2. CASE ~(i <= Len(bytes))
      <4> DEFINE j == i - Len(bytes)
      <4>1. j \in 1 .. Len(stream') /\ i = Len(bytes) + j
        BY <1>3, <1>4, <2>1, <3>2
      <4> HIDE DEF j
      <4> QED BY <1>4, <1>6, <4>1
    <3> QED BY <3>1, <3>2
  <2> QED BY <1>2, <1>6, <2>1, <2>2, SeqEqual
<1>8. header \o stream = stream
  BY <1>1, <1>2, ConcatEmptySeq
<1>9. Laid(header' \o stream', Len(header' \o stream'), Len(handled'), Len(said'), Forms(said'))
  <2>1. header' \o stream' = header \o stream
    BY <1>1, <1>7, <1>8 DEF all
  <2>2. handled' = handled /\ said' = said
    BY <1>1
  <2> QED BY <1>2, <2>1, <2>2
<1>10. header' = <<>> \/ \E op \in Nat, size \in Nat : size < MaxSize /\ header' = Header(op, size)
  BY <1>1, <1>5
<1> QED BY <1>1, <1>2, <1>4, <1>9, <1>10 DEF InInv

\* A client is removed, and its stream is forgotten.
LEMMA RemoveSteps ==
    ASSUME RemoveForHeader \/ RemoveForContents
    PROVE  InInv' /\ state = "served" /\ state' = "removed" /\ UNCHANGED handled
BY DEF RemoveForHeader, RemoveForContents, InInv

\* Bytes arrive in the socket.
LEMMA ArriveStep ==
    ASSUME InInv, Arrive
    PROVE  InInv' /\ UNCHANGED <<said, handled, state>>
<1>1. state = "served" /\ arrived' \in arrived + 1 .. Len(stream)
      /\ UNCHANGED <<said, stream, header, handled, state>>
  BY DEF Arrive
<1>2. arrived' \in 0 .. Len(stream')
  <2>1. stream \in Seq(Byte) /\ arrived \in 0 .. Len(stream)
    BY <1>1 DEF InInv
  <2>2. Len(stream) \in Nat
    BY <2>1, LenProperties
  <2> QED BY <1>1, <2>1, <2>2
<1> QED BY <1>1, <1>2 DEF InInv

\* The client sends one more packet.
LEMMA ClientSendsStep ==
    ASSUME InInv, NEW m \in ClientMessage, ClientSends(m)
    PROVE  InInv' /\ said' = Append(said, m) /\ UNCHANGED <<handled, state>>
<1>1. /\ state = "served" /\ said' = Append(said, m)
      /\ UNCHANGED <<arrived, header, handled, state>>
  BY DEF ClientSends
<1>2. PICK frame \in Frames(m) : stream' = stream \o Header(m.op, frame.size) \o frame.contents
  BY DEF ClientSends
<1>3. /\ stream \in Seq(Byte) /\ arrived \in 0 .. Len(stream)
      /\ said \in Seq(ClientMessage) /\ handled \in Seq(ClientMessage)
      /\ Len(handled) <= Len(said)
      /\ header = <<>> \/ \E op \in Nat, size \in Nat : size < MaxSize /\ header = Header(op, size)
      /\ Laid(header \o stream, Len(header \o stream), Len(handled), Len(said), Forms(said))
  BY <1>1 DEF InInv
<1>4. header \in Seq(Byte)
  BY <1>1, HeaderIsBytes
<1>5. Len(handled) \in Nat /\ Len(said) \in Nat /\ Len(stream) \in Nat /\ DOMAIN said = 1 .. Len(said)
  BY <1>3, LenProperties
<1>6. /\ said' \in Seq(ClientMessage) /\ Len(said') = Len(said) + 1
      /\ \A i \in 1 .. Len(said) : said'[i] = said[i]
      /\ said'[Len(said) + 1] = m
  BY <1>1, <1>3, AppendProperties
<1>7. DOMAIN said' = 1 .. Len(said) + 1
  BY <1>6, LenProperties
<1> DEFINE h == Header(m.op, frame.size)
           c == frame.contents
           piece == h \o c
<1>8. piece \in FrameBytes(m)
  BY DEF FrameBytes
<1>9. piece \in Seq(Byte)
  <2> HIDE DEF piece
  <2> QED BY <1>8, FrameBytesAreBytes
<1>10. h \in Seq(Byte) /\ c \in Seq(Byte)
  BY HeaderFacts, FrameFacts, ContentsFacts
<1>11. stream' = stream \o h \o c
  BY <1>2
<1> HIDE DEF h, c
<1>12. stream' = stream \o piece
  <2>1. piece = h \o c
    BY DEF h, c
  <2> HIDE DEF piece
  <2>2. \A s, t, u \in Seq(Byte) : (s \o t) \o u = s \o (t \o u)
    BY ConcatAssociative
  <2>3. (stream \o h) \o c = stream \o (h \o c)
    BY <1>3, <1>10, <2>2, Zenon
  <2> QED BY <1>11, <2>1, <2>3, Zenon
<1>13. header \o stream' = (header \o stream) \o piece
  <2> HIDE DEF piece
  <2>1. (header \o stream) \o piece = header \o (stream \o piece)
    <3>1. \A s, t, u \in Seq(Byte) : (s \o t) \o u = s \o (t \o u)
      BY ConcatAssociative
    <3> QED BY <1>3, <1>4, <1>9, <3>1, Zenon
  <2> QED BY <1>12, <2>1, Zenon
<1>14. header \o stream \in Seq(Byte)
  BY <1>3, <1>4, ConcatProperties
<1> HIDE DEF piece
<1>15. \A i \in Len(handled) + 1 .. Len(said) : Forms(said')[i] = Forms(said)[i]
  <2> SUFFICES ASSUME NEW i \in Len(handled) + 1 .. Len(said) PROVE Forms(said')[i] = Forms(said)[i]
    OBVIOUS
  <2>1. i \in 1 .. Len(said) /\ i \in 1 .. Len(said) + 1
    BY <1>5
  <2> QED BY <1>5, <1>6, <1>7, <2>1 DEF Forms
<1>16. piece \in Forms(said')[Len(said) + 1]
  <2>1. Len(said) + 1 \in 1 .. Len(said) + 1
    BY <1>5
  <2> QED BY <1>6, <1>7, <1>8, <2>1 DEF Forms
<1>17. Laid((header \o stream) \o piece, Len((header \o stream) \o piece), Len(handled), Len(said) + 1, Forms(said'))
  <2> DEFINE before == header \o stream
  <2>1. before \in Seq(Byte) /\ Laid(before, Len(before), Len(handled), Len(said), Forms(said))
    BY <1>3, <1>14
  <2> HIDE DEF before
  <2>2. Laid(before \o piece, Len(before \o piece), Len(handled), Len(said) + 1, Forms(said'))
    BY <1>3, <1>5, <1>9, <1>15, <1>16, <2>1, LaidAppend
  <2> QED BY <2>2 DEF before
<1>18. Laid(header' \o stream', Len(header' \o stream'), Len(handled'), Len(said'), Forms(said'))
  BY <1>1, <1>6, <1>13, <1>17
<1>19. stream' \in Seq(Byte) /\ arrived' \in 0 .. Len(stream')
  <2>1. \A s, t \in Seq(Byte) : stream' = s \o t =>
            stream' \in Seq(Byte) /\ Len(t) \in Nat /\ Len(stream') = Len(s) + Len(t)
    BY ByteParts
  <2>2. /\ stream' \in Seq(Byte) /\ Len(piece) \in Nat
        /\ Len(stream') = Len(stream) + Len(piece)
    BY <1>3, <1>9, <1>12, <2>1, Zenon
  <2> QED BY <1>1, <1>3, <1>5, <2>2
<1>20. Len(handled) <= Len(said') /\ handled' = handled /\ state' = state /\ header' = header
  BY <1>1, <1>3, <1>5, <1>6
<1>21. said' = Append(said, m) /\ UNCHANGED <<handled, state>>
  BY <1>1
<1>22. InInv'
  BY <1>3, <1>6, <1>18, <1>19, <1>20 DEF InInv
<1> QED BY <1>21, <1>22

\* A connection begins with nothing on its stream.
THEOREM InInitInv == InInit => InInv
<1> SUFFICES ASSUME InInit PROVE InInv
  OBVIOUS
<1>1. said = <<>> /\ stream = <<>> /\ arrived = 0 /\ header = <<>> /\ handled = <<>>
  BY DEF InInit
<1>2. Len(<<>>) = 0 /\ <<>> \in Seq(ClientMessage) /\ <<>> \in Seq(Byte) /\ <<>> \o <<>> = <<>>
  OBVIOUS
<1>3. Laid(<<>>, 0, 0, 0, Forms(<<>>))
  BY LaidNone
<1>4. Laid(header \o stream, Len(header \o stream), Len(handled), Len(said), Forms(said))
  BY <1>1, <1>2, <1>3
<1> QED BY <1>1, <1>2, <1>4 DEF InInv

-----------------------------------------------------------------------------
(* The channel of the incoming packets. *)

\* What is pending
LEMMA PendingFacts ==
    ASSUME NEW M, NEW messages \in Seq(M), NEW n \in Nat, n <= Len(messages)
    PROVE  /\ Pending(messages, n) \in Seq(M)
           /\ Len(Pending(messages, n)) = Len(messages) - n
           /\ \A i \in 1 .. Len(messages) - n : Pending(messages, n)[i] = messages[n + i]
BY RestFacts DEF Pending

\* A message is added to what is pending, or the first one is taken.
LEMMA PendingMore ==
    ASSUME NEW M, NEW messages \in Seq(M), NEW n \in Nat, n <= Len(messages),
           NEW m \in M, NEW more, more = Append(messages, m)
    PROVE  /\ Len(Pending(more, n)) = Len(Pending(messages, n)) + 1
           /\ IsPrefix(Pending(messages, n), Pending(more, n))
<1> DEFINE L == Len(messages)
           p == Pending(messages, n)
           q == Pending(more, n)
<1>1. L \in Nat
  BY LenProperties
<1>2. /\ more \in Seq(M) /\ Len(more) = L + 1
      /\ \A i \in 1 .. L : more[i] = messages[i]
  BY AppendProperties
<1>3. L - n \in Nat /\ Len(more) - n = L - n + 1
  BY <1>1, <1>2
<1>4. /\ p \in Seq(M) /\ Len(p) = L - n
      /\ \A i \in 1 .. L - n : p[i] = messages[n + i]
  BY PendingFacts
<1>5. /\ q \in Seq(M) /\ Len(q) = L - n + 1
      /\ \A i \in 1 .. L - n + 1 : q[i] = more[n + i]
  <2>1. n <= Len(more)
    BY <1>1, <1>2
  <2>2. /\ q \in Seq(M) /\ Len(q) = Len(more) - n
        /\ \A i \in 1 .. Len(more) - n : q[i] = more[n + i]
    <3>1. \A s \in Seq(M) : n <= Len(s) =>
              /\ Pending(s, n) \in Seq(M) /\ Len(Pending(s, n)) = Len(s) - n
              /\ \A i \in 1 .. Len(s) - n : Pending(s, n)[i] = s[n + i]
      BY PendingFacts
    <3> QED BY <1>2, <2>1, <3>1, Zenon
  <2> HIDE DEF q
  <2> QED BY <1>3, <2>2
<1>6. \A i \in 1 .. L - n : q[i] = p[i]
  <2> SUFFICES ASSUME NEW i \in 1 .. L - n PROVE q[i] = p[i]
    OBVIOUS
  <2>1. n + i \in 1 .. L /\ i \in 1 .. L - n + 1
    BY <1>1
  <2> HIDE DEF p, q
  <2> QED BY <1>2, <1>4, <1>5, <2>1
<1> HIDE DEF p, q, L
<1>7. SubSeq(p, 1, L - n) = SubSeq(q, 1, L - n)
  <2> DEFINE k == L - n
             s == SubSeq(p, 1, k)
             t == SubSeq(q, 1, k)
  <2>1. k \in Nat /\ k \in Int /\ 1 \in Int
    BY <1>3
  <2>2. \A i \in 1 .. k : p[i] \in M /\ q[i] \in M /\ q[i] = p[i]
    BY <1>4, <1>6, ElementOfSeq
  <2> HIDE DEF k
  <2>3. /\ s \in Seq(M) /\ Len(s) = IF 1 <= k THEN k - 1 + 1 ELSE 0
        /\ \A i \in 1 .. k - 1 + 1 : s[i] = p[1 + i - 1]
    BY <2>1, <2>2, SubSeqProperties
  <2>4. /\ t \in Seq(M) /\ Len(t) = IF 1 <= k THEN k - 1 + 1 ELSE 0
        /\ \A i \in 1 .. k - 1 + 1 : t[i] = q[1 + i - 1]
    BY <2>1, <2>2, SubSeqProperties
  <2> HIDE DEF s, t
  <2>5. Len(s) = Len(t) /\ \A i \in 1 .. Len(s) : s[i] = t[i]
    <3>1. Len(s) = Len(t) /\ Len(s) = k
      BY <2>1, <2>3, <2>4
    <3> SUFFICES ASSUME NEW i \in 1 .. k PROVE s[i] = t[i]
      BY <3>1
    <3>2. 1 + i - 1 = i /\ i \in 1 .. k - 1 + 1
      BY <2>1
    <3> QED BY <2>2, <2>3, <2>4, <3>2
  <2> QED BY <2>3, <2>4, <2>5, SeqEqual DEF s, t, k
<1> QED BY <1>3, <1>4, <1>5, <1>7 DEF IsPrefix, p, q

LEMMA PendingLess ==
    ASSUME NEW M, NEW messages \in Seq(M), NEW n \in Nat, n < Len(messages)
    PROVE  /\ Pending(messages, n) # <<>>
           /\ Head(Pending(messages, n)) = messages[n + 1]
           /\ Tail(Pending(messages, n)) = Pending(messages, n + 1)
<1> DEFINE L == Len(messages)
           p == Pending(messages, n)
           q == Pending(messages, n + 1)
           t == Tail(p)
<1>1. L \in Nat
  BY LenProperties
<1>2. L - n \in Nat \ {0} /\ L - (n + 1) \in Nat /\ L - n = L - (n + 1) + 1
  BY <1>1
<1>3. \A k \in 1 .. L : messages[k] \in M
  BY ElementOfSeq
<1>5. p \in Seq(M) /\ Len(p) = L - n /\ \A i \in 1 .. L - n : p[i] = messages[n + i]
  <2>1. n <= Len(messages)
    BY <1>1
  <2> QED BY <2>1, PendingFacts
<1>6. q \in Seq(M) /\ Len(q) = L - (n + 1) /\ \A i \in 1 .. L - (n + 1) : q[i] = messages[n + 1 + i]
  <2>1. n + 1 \in Nat /\ n + 1 <= Len(messages)
    BY <1>1
  <2> QED BY <2>1, PendingFacts
<1> HIDE DEF p, q, L
<1>7. p # <<>>
  BY <1>2, <1>5, EmptySeq
<1>8. /\ t \in Seq(M) /\ Len(t) = Len(p) - 1
      /\ \A i \in 1 .. Len(t) : t[i] = p[i + 1]
  BY <1>5, <1>7, HeadTailProperties
<1> HIDE DEF t
<1>9. t = q
  <2>1. Len(t) = Len(q) /\ Len(t) = L - (n + 1)
    BY <1>2, <1>5, <1>6, <1>8
  <2>2. \A i \in 1 .. Len(t) : t[i] = q[i]
    <3> SUFFICES ASSUME NEW i \in 1 .. L - (n + 1) PROVE t[i] = q[i]
      BY <2>1
    <3>1. i + 1 \in 1 .. L - n /\ n + (i + 1) = n + 1 + i /\ i \in 1 .. Len(t)
      BY <1>2, <2>1
    <3> QED BY <1>5, <1>6, <1>8, <3>1
  <2> QED BY <1>6, <1>8, <2>1, <2>2, SeqEqual
<1>10. Head(p) = messages[n + 1]
  <2>1. 1 \in 1 .. L - n
    BY <1>2
  <2>2. p[1] = messages[n + 1]
    BY <1>5, <2>1
  <2> QED BY <2>2
<1> QED BY <1>7, <1>9, <1>10 DEF t, p, q

\* What the channel's queue and state are for the incoming packets
InQueue == IF state = "served" THEN Pending(said, Len(handled)) ELSE <<>>
InState == IF state = "served" THEN "open" ELSE "closed"

\* A packet that is said is sent on the channel.
LEMMA InSend ==
    ASSUME InInv, NEW m \in ClientMessage, state = "served",
           said' = Append(said, m), UNCHANGED <<handled, state>>
    PROVE  InChannel!Send
<1>1. said \in Seq(ClientMessage) /\ handled \in Seq(ClientMessage) /\ Len(handled) <= Len(said)
  BY DEF InInv
<1>2. Len(handled) \in Nat
  BY <1>1, LenProperties
<1>3. /\ Len(Pending(said', Len(handled))) = Len(Pending(said, Len(handled))) + 1
      /\ IsPrefix(Pending(said, Len(handled)), Pending(said', Len(handled)))
  BY <1>1, <1>2, PendingMore
<1>4. InQueue = Pending(said, Len(handled)) /\ InQueue' = Pending(said', Len(handled))
  BY DEF InQueue
<1>5. InState = "open" /\ UNCHANGED <<handled, InState>>
  BY DEF InState
<1>6. Len(InQueue') = Len(InQueue) + 1 /\ InChannel!IsPrefix(InQueue, InQueue')
  <2>1. IsPrefix(InQueue, InQueue')
    BY <1>3, <1>4
  <2>2. InChannel!IsPrefix(InQueue, InQueue')
    BY <2>1 DEF IsPrefix, InChannel!IsPrefix
  <2> QED BY <1>3, <1>4, <2>2
<1> QED BY <1>5, <1>6, Zenon DEF InChannel!Send, InQueue, InState, Pending

\* A packet that is handled is delivered by it.
LEMMA InDeliver ==
    ASSUME InInv, state = "served", Len(handled) < Len(said), said' = said,
           state' = state, handled' = Append(handled, said[Len(handled) + 1])
    PROVE  InChannel!Deliver
<1>1. said \in Seq(ClientMessage) /\ handled \in Seq(ClientMessage)
  BY DEF InInv
<1>2. Len(handled) \in Nat /\ Len(handled') = Len(handled) + 1
  BY <1>1, LenProperties
<1>3. /\ Pending(said, Len(handled)) # <<>>
      /\ Head(Pending(said, Len(handled))) = said[Len(handled) + 1]
      /\ Tail(Pending(said, Len(handled))) = Pending(said, Len(handled) + 1)
  BY <1>1, <1>2, PendingLess
<1>4. InQueue = Pending(said, Len(handled)) /\ InQueue' = Pending(said, Len(handled) + 1)
  BY <1>2 DEF InQueue
<1>5. InState # "closed" /\ UNCHANGED InState
  BY DEF InState
<1>6. InQueue # <<>> /\ handled' = Append(handled, Head(InQueue)) /\ InQueue' = Tail(InQueue)
  BY <1>3, <1>4
<1> QED BY <1>5, <1>6, Zenon DEF InChannel!Deliver, InQueue, InState, Pending

\* Removing the client, or the end of the process, closes it.
LEMMA InClose ==
    ASSUME state = "served", state' # "served", handled' = handled
    PROVE  InChannel!Close
<1>1. InState = "open" /\ InState' = "closed" /\ InQueue' = <<>> /\ UNCHANGED handled
  BY DEF InState, InQueue
<1> QED BY <1>1, Zenon DEF InChannel!Close, InQueue, InState, Pending

\* Nothing else shows on the channel.
LEMMA InStutter ==
    ASSUME UNCHANGED <<said, handled, state>>
    PROVE  UNCHANGED InChannel!vars
<1>1. UNCHANGED <<InQueue, handled, InState>>
  BY DEF InQueue, InState, Pending
<1> QED BY <1>1, Zenon DEF InChannel!vars, InQueue, InState, Pending

\* Every step of the client and of the receive loop preserves the invariant and
\* is a step of the channel.
THEOREM InInvStep ==
    ASSUME InInv, [InNext]_inVars
    PROVE  InInv' /\ [InChannel!Next]_(InChannel!vars)
<1>1. CASE UNCHANGED inVars
  <2>1. UNCHANGED <<said, handled, state>>
    BY <1>1 DEF inVars
  <2>2. InInv'
    BY <1>1 DEF inVars, InInv
  <2> QED BY <2>1, <2>2, InStutter
<1>2. ASSUME NEW op \in DOMAIN ClientLayouts, NEW m \in ClientMessages(op, Len(said) + 1),
             ClientSends(m)
      PROVE  InInv' /\ InChannel!Next
  <2>1. state = "served"
    BY <1>2 DEF ClientSends
  <2>2. Len(said) + 1 \in Nat
    BY <2>1, LenProperties DEF InInv
  <2>3. m \in ClientMessage
    BY <2>2, ClientMessagesFacts
  <2>4. InInv' /\ said' = Append(said, m) /\ UNCHANGED <<handled, state>>
    BY <1>2, <2>3, ClientSendsStep
  <2> QED BY <2>1, <2>3, <2>4, InSend DEF InChannel!Next
<1>3. CASE Arrive
  BY <1>3, ArriveStep, InStutter
<1>4. CASE ReceiveHeader
  BY <1>4, ReceiveHeaderStep, InStutter
<1>5. CASE RemoveForHeader \/ RemoveForContents
  BY <1>5, RemoveSteps, InClose DEF InChannel!Next
<1>6. CASE ReceiveEmpty \/ ReceiveContents
  <2>1. /\ InInv' /\ said' = said /\ Len(handled) < Len(said)
        /\ \/ state' = "dead" /\ handled' = handled
           \/ state' = state /\ handled' = Append(handled, said[Len(handled) + 1])
    BY <1>6, ReceiveEmptyStep, ReceiveContentsStep
  <2>2. state = "served"
    BY <1>6 DEF ReceiveEmpty, ReceiveContents
  <2>3. CASE state' = "dead" /\ handled' = handled
    BY <2>1, <2>2, <2>3, InClose DEF InChannel!Next
  <2>4. CASE state' = state /\ handled' = Append(handled, said[Len(handled) + 1])
    BY <2>1, <2>2, <2>4, InDeliver DEF InChannel!Next
  <2> QED BY <2>1, <2>3, <2>4
<1> QED BY <1>1, <1>2, <1>3, <1>4, <1>5, <1>6 DEF InNext, ServerTurn

\* The channel begins open and empty.
LEMMA InInitChannel == InInit => InChannel!Init
<1> SUFFICES ASSUME InInit PROVE InChannel!Init
  OBVIOUS
<1>1. handled = <<>> /\ said = <<>> /\ state = "served"
  BY DEF InInit
<1>2. InState = "open" /\ InQueue = <<>>
  BY <1>1 DEF InState, InQueue, Pending
<1> QED BY <1>1, <1>2, Zenon DEF InChannel!Init, InQueue, InState, Pending

\* A step of Packets is one of this direction, or leaves it alone.
LEMMA InStepOfNext ==
    ASSUME [Next]_vars
    PROVE  [InNext]_inVars
BY DEF Next, vars, outVars, inVars

\* On the stream of every client that is served lie, one after the other, frames
\* of the packets it said and that no handler has seen yet, the first of them
\* without its header if that has been read (Network::UpdateClients, Session).
THEOREM InInvariance == Spec => []InInv
<1>1. Init => InInv
  BY InInitInv DEF Init
<1>2. InInv /\ [Next]_vars => InInv'
  BY InInvStep, InStepOfNext
<1> QED BY <1>1, <1>2, PTL DEF Spec

\* What the handlers read is what the client said: each packet once, whole, with
\* its fields and in order, up to the one at which the client is removed or a
\* read beyond its end stops the process (UpdateClients, _Read, ReadString).
THEOREM ReadsImplement == Spec => ReadsImplementChannel
<1>1. Init => InChannel!Init
  BY InInitChannel DEF Init
<1>2. InInv /\ [Next]_vars => [InChannel!Next]_(InChannel!vars)
  BY InInvStep, InStepOfNext
<1> QED BY <1>1, <1>2, InInvariance, PTL DEF Spec, ReadsImplementChannel, InChannel!Spec

-----------------------------------------------------------------------------
(* Building a packet. *)

\* The recursive functions of building and understanding a packet are what
\* their recursions describe.
LEMMA FieldsToDef ==
    ASSUME NEW p, NEW kinds, NEW block, Len(kinds) \in Nat
    PROVE  /\ FieldsTo(p, kinds, block)[0] = p
           /\ \A f \in 1 .. Len(kinds) :
                  FieldsTo(p, kinds, block)[f] =
                      WriteField(FieldsTo(p, kinds, block)[f - 1], kinds[f], block[f])
<1> DEFINE Base == p
           Step(x, f) == WriteField(x, kinds[f], block[f])
           Fits(g, n) == g = [f \in 0 .. n |-> IF f = 0 THEN Base ELSE Step(g[f - 1], f)]
           S == {n \in Nat : \E g : Fits(g, n)}
<1>1. 0 \in S
  <2> HIDE DEF Base, Step
  <2>1. Fits([f \in 0 .. 0 |-> Base], 0)
    OBVIOUS
  <2> QED BY <2>1
<1>2. ASSUME NEW n \in Nat, n \in S PROVE n + 1 \in S
  <2> HIDE DEF Base, Step
  <2>1. PICK g : Fits(g, n)
    BY <1>2
  <2> DEFINE h == [f \in 0 .. n + 1 |-> IF f = n + 1 THEN Step(g[n], n + 1) ELSE g[f]]
  <2>2. \A f \in 0 .. n + 1 : h[f] = IF f = 0 THEN Base ELSE Step(h[f - 1], f)
    BY <2>1
  <2>3. Fits(h, n + 1)
    BY <2>2
  <2> HIDE DEF Fits
  <2> QED BY <2>3
<1>3. Nat \subseteq S
  <2> HIDE DEF S
  <2> QED BY <1>1, <1>2, Induction
<1>4. \E g : Fits(g, Len(kinds))
  BY <1>3
<1>5. Fits(FieldsTo(p, kinds, block), Len(kinds))
  BY <1>4 DEF FieldsTo
<1>6. /\ FieldsTo(p, kinds, block)[0] = Base
      /\ \A f \in 1 .. Len(kinds) : FieldsTo(p, kinds, block)[f] = Step(FieldsTo(p, kinds, block)[f - 1], f)
  <2> HIDE DEF Base, Step
  <2> QED BY <1>5
<1> QED BY <1>6

LEMMA BlocksToDef ==
    ASSUME NEW p, NEW kinds, NEW blocks, Len(blocks) \in Nat
    PROVE  /\ BlocksTo(p, kinds, blocks)[0] = p
           /\ \A f \in 1 .. Len(blocks) :
                  BlocksTo(p, kinds, blocks)[f] =
                      FieldsTo(BlocksTo(p, kinds, blocks)[f - 1], kinds, blocks[f])[Len(kinds)]
<1> DEFINE Base == p
           Step(x, f) == FieldsTo(x, kinds, blocks[f])[Len(kinds)]
           Fits(g, n) == g = [f \in 0 .. n |-> IF f = 0 THEN Base ELSE Step(g[f - 1], f)]
           S == {n \in Nat : \E g : Fits(g, n)}
<1>1. 0 \in S
  <2> HIDE DEF Base, Step
  <2>1. Fits([f \in 0 .. 0 |-> Base], 0)
    OBVIOUS
  <2> QED BY <2>1
<1>2. ASSUME NEW n \in Nat, n \in S PROVE n + 1 \in S
  <2> HIDE DEF Base, Step
  <2>1. PICK g : Fits(g, n)
    BY <1>2
  <2> DEFINE h == [f \in 0 .. n + 1 |-> IF f = n + 1 THEN Step(g[n], n + 1) ELSE g[f]]
  <2>2. \A f \in 0 .. n + 1 : h[f] = IF f = 0 THEN Base ELSE Step(h[f - 1], f)
    BY <2>1
  <2>3. Fits(h, n + 1)
    BY <2>2
  <2> HIDE DEF Fits
  <2> QED BY <2>3
<1>3. Nat \subseteq S
  <2> HIDE DEF S
  <2> QED BY <1>1, <1>2, Induction
<1>4. \E g : Fits(g, Len(blocks))
  BY <1>3
<1>5. Fits(BlocksTo(p, kinds, blocks), Len(blocks))
  BY <1>4 DEF BlocksTo
<1>6. /\ BlocksTo(p, kinds, blocks)[0] = Base
      /\ \A f \in 1 .. Len(blocks) : BlocksTo(p, kinds, blocks)[f] = Step(BlocksTo(p, kinds, blocks)[f - 1], f)
  <2> HIDE DEF Base, Step
  <2> QED BY <1>5
<1> QED BY <1>6

LEMMA GroupsToDef ==
    ASSUME NEW m, Len(m.groups) \in Nat
    PROVE  /\ GroupsTo(m)[0] = NewPacket(m.op, ServerLayouts[m.op].size)
           /\ \A f \in 1 .. Len(m.groups) :
                  GroupsTo(m)[f] =
                      WriteGroup(GroupsTo(m)[f - 1], ServerLayouts[m.op].groups[f], m.groups[f])
<1> DEFINE Base == NewPacket(m.op, ServerLayouts[m.op].size)
           Step(x, f) == WriteGroup(x, ServerLayouts[m.op].groups[f], m.groups[f])
           Fits(g, n) == g = [f \in 0 .. n |-> IF f = 0 THEN Base ELSE Step(g[f - 1], f)]
           S == {n \in Nat : \E g : Fits(g, n)}
<1>1. 0 \in S
  <2> HIDE DEF Base, Step
  <2>1. Fits([f \in 0 .. 0 |-> Base], 0)
    OBVIOUS
  <2> QED BY <2>1
<1>2. ASSUME NEW n \in Nat, n \in S PROVE n + 1 \in S
  <2> HIDE DEF Base, Step
  <2>1. PICK g : Fits(g, n)
    BY <1>2
  <2> DEFINE h == [f \in 0 .. n + 1 |-> IF f = n + 1 THEN Step(g[n], n + 1) ELSE g[f]]
  <2>2. \A f \in 0 .. n + 1 : h[f] = IF f = 0 THEN Base ELSE Step(h[f - 1], f)
    BY <2>1
  <2>3. Fits(h, n + 1)
    BY <2>2
  <2> HIDE DEF Fits
  <2> QED BY <2>3
<1>3. Nat \subseteq S
  <2> HIDE DEF S
  <2> QED BY <1>1, <1>2, Induction
<1>4. \E g : Fits(g, Len(m.groups))
  BY <1>3
<1>5. Fits(GroupsTo(m), Len(m.groups))
  BY <1>4 DEF GroupsTo
<1>6. GroupsTo(m)[0] = Base /\ \A f \in 1 .. Len(m.groups) : GroupsTo(m)[f] = Step(GroupsTo(m)[f - 1], f)
  <2> DEFINE g == GroupsTo(m)
             n == Len(m.groups)
  <2>1. Fits(g, n) /\ n \in Nat
    BY <1>5
  <2> HIDE DEF g, n, Base, Step
  <2>2. g[0] = Base /\ \A f \in 1 .. n : g[f] = Step(g[f - 1], f)
    BY <2>1
  <2> QED BY <2>2, Zenon DEF g, n
<1> QED BY <1>6

LEMMA BlocksReadDef ==
    ASSUME NEW p, NEW kinds, NEW count \in Nat
    PROVE  /\ BlocksRead(p, kinds, count)[0] = [packet |-> p, blocks |-> <<>>]
           /\ \A f \in 1 .. count :
                  BlocksRead(p, kinds, count)[f] =
                      [packet |-> ReadFields(BlocksRead(p, kinds, count)[f - 1].packet, kinds, FALSE),
                       blocks |-> Append(BlocksRead(p, kinds, count)[f - 1].blocks,
                                         ReadFields(BlocksRead(p, kinds, count)[f - 1].packet, kinds, FALSE).read)]
<1> DEFINE Base == [packet |-> p, blocks |-> <<>>]
           Step(x, f) ==
               [packet |-> ReadFields(x.packet, kinds, FALSE),
                blocks |-> Append(x.blocks, ReadFields(x.packet, kinds, FALSE).read)]
           Fits(g, n) == g = [f \in 0 .. n |-> IF f = 0 THEN Base ELSE Step(g[f - 1], f)]
           S == {n \in Nat : \E g : Fits(g, n)}
<1>1. 0 \in S
  <2> HIDE DEF Base, Step
  <2>1. Fits([f \in 0 .. 0 |-> Base], 0)
    OBVIOUS
  <2> QED BY <2>1
<1>2. ASSUME NEW n \in Nat, n \in S PROVE n + 1 \in S
  <2> HIDE DEF Base, Step
  <2>1. PICK g : Fits(g, n)
    BY <1>2
  <2> DEFINE h == [f \in 0 .. n + 1 |-> IF f = n + 1 THEN Step(g[n], n + 1) ELSE g[f]]
  <2>2. \A f \in 0 .. n + 1 : h[f] = IF f = 0 THEN Base ELSE Step(h[f - 1], f)
    BY <2>1
  <2>3. Fits(h, n + 1)
    BY <2>2
  <2> HIDE DEF Fits
  <2> QED BY <2>3
<1>3. Nat \subseteq S
  <2> HIDE DEF S
  <2> QED BY <1>1, <1>2, Induction
<1>4. \E g : Fits(g, count)
  BY <1>3
<1>5. Fits(BlocksRead(p, kinds, count), count)
  BY <1>4 DEF BlocksRead
<1>6. /\ BlocksRead(p, kinds, count)[0] = Base
      /\ \A f \in 1 .. count : BlocksRead(p, kinds, count)[f] = Step(BlocksRead(p, kinds, count)[f - 1], f)
  <2> HIDE DEF Base, Step
  <2> QED BY <1>5
<1> QED BY <1>6

LEMMA GroupsReadDef ==
    ASSUME NEW p, NEW groups, Len(groups) \in Nat
    PROVE  /\ GroupsRead(p, groups)[0] = [packet |-> p, groups |-> <<>>]
           /\ \A f \in 1 .. Len(groups) :
                  GroupsRead(p, groups)[f] =
                      [packet |-> ReadGroup(GroupsRead(p, groups)[f - 1].packet, groups[f]).packet,
                       groups |-> Append(GroupsRead(p, groups)[f - 1].groups,
                                         ReadGroup(GroupsRead(p, groups)[f - 1].packet, groups[f]).blocks)]
<1> DEFINE Base == [packet |-> p, groups |-> <<>>]
           Step(x, f) ==
               [packet |-> ReadGroup(x.packet, groups[f]).packet,
                groups |-> Append(x.groups, ReadGroup(x.packet, groups[f]).blocks)]
           Fits(g, n) == g = [f \in 0 .. n |-> IF f = 0 THEN Base ELSE Step(g[f - 1], f)]
           S == {n \in Nat : \E g : Fits(g, n)}
<1>1. 0 \in S
  <2> HIDE DEF Base, Step
  <2>1. Fits([f \in 0 .. 0 |-> Base], 0)
    OBVIOUS
  <2> QED BY <2>1
<1>2. ASSUME NEW n \in Nat, n \in S PROVE n + 1 \in S
  <2> HIDE DEF Base, Step
  <2>1. PICK g : Fits(g, n)
    BY <1>2
  <2> DEFINE h == [f \in 0 .. n + 1 |-> IF f = n + 1 THEN Step(g[n], n + 1) ELSE g[f]]
  <2>2. \A f \in 0 .. n + 1 : h[f] = IF f = 0 THEN Base ELSE Step(h[f - 1], f)
    BY <2>1
  <2>3. Fits(h, n + 1)
    BY <2>2
  <2> HIDE DEF Fits
  <2> QED BY <2>3
<1>3. Nat \subseteq S
  <2> HIDE DEF S
  <2> QED BY <1>1, <1>2, Induction
<1>4. \E g : Fits(g, Len(groups))
  BY <1>3
<1>5. Fits(GroupsRead(p, groups), Len(groups))
  BY <1>4 DEF GroupsRead
<1>6. /\ GroupsRead(p, groups)[0] = Base
      /\ \A f \in 1 .. Len(groups) : GroupsRead(p, groups)[f] = Step(GroupsRead(p, groups)[f - 1], f)
  <2> HIDE DEF Base, Step
  <2> QED BY <1>5
<1> QED BY <1>6

\* The same, in a form that provers apply at once
LEMMA GroupsReadAll ==
    \A p, groups : Len(groups) \in Nat =>
        /\ GroupsRead(p, groups)[0] = [packet |-> p, groups |-> <<>>]
        /\ \A f \in 1 .. Len(groups) :
               GroupsRead(p, groups)[f] =
                   [packet |-> ReadGroup(GroupsRead(p, groups)[f - 1].packet, groups[f]).packet,
                    groups |-> Append(GroupsRead(p, groups)[f - 1].groups,
                                      ReadGroup(GroupsRead(p, groups)[f - 1].packet, groups[f]).blocks)]
BY GroupsReadDef

-----------------------------------------------------------------------------
(* What a packet contains while it is built. *)

\* A packet being built has the bytes written so far and a zero behind them.
Padded(bytes) == IF bytes = <<>> THEN <<>> ELSE bytes \o <<Zero>>

\* Its size and its position if they fit into 16 bits
Fitting(p, size, bytes) ==
    /\ p.writePos = Len(bytes) /\ p.data = Padded(bytes) /\ p.length = Len(p.data)
    /\ p.size = IF bytes # <<>> /\ size < Len(bytes) + 1 THEN Len(bytes) + 1 ELSE size

\* And if not: the memory still is as large as they say.
Stored(p, size, bytes) ==
    /\ p.length <= Len(p.data)
    /\ Len(bytes) < SizeRange => p.writePos = Len(bytes) /\ Len(bytes) <= Len(p.data)
    /\ Len(bytes) >= SizeRange => Len(p.data) >= SizeRange
    /\ p.size <= Len(p.data) \/ p.size = size

Built(p, opcode, size, bytes) ==
    /\ p \in Packet /\ bytes \in Seq(Byte) /\ p.opcode = opcode
    /\ Stored(p, size, bytes)
    /\ Len(bytes) + 1 < SizeRange => Fitting(p, size, bytes)

\* Joining bytes is associative.
LEMMA ByteConcat ==
    \A s, t, u \in Seq(Byte) : (s \o t) \o u = s \o (t \o u)
BY ConcatAssociative

\* The bytes are at the beginning of the buffer.
LEMMA PaddedFacts ==
    ASSUME NEW bytes \in Seq(Byte)
    PROVE  /\ Padded(bytes) \in Seq(Byte) /\ <<Zero>> \in Seq(Byte)
           /\ Len(bytes) \in Nat
           /\ bytes # <<>> => Len(Padded(bytes)) = Len(bytes) + 1
           /\ bytes = <<>> => Len(Padded(bytes)) = 0
           /\ \A i \in 1 .. Len(bytes) : Padded(bytes)[i] = bytes[i]
           /\ Len(bytes) <= Len(Padded(bytes))
<1>1. <<Zero>> \in Seq(Byte) /\ Len(<<Zero>>) = 1 /\ Len(bytes) \in Nat
  BY LenProperties DEF Byte
<1> DEFINE s == bytes \o <<Zero>>
           z == <<Zero>>
<1>2. s \in Seq(Byte) /\ Len(s) = Len(bytes) + 1 /\ \A i \in 1 .. Len(bytes) : s[i] = bytes[i]
  <2>1. \A t \in Seq(Byte) : \A u : u = bytes \o t =>
            /\ u \in Seq(Byte) /\ Len(u) = Len(bytes) + Len(t)
            /\ \A i \in 1 .. Len(bytes) : u[i] = bytes[i]
    BY ByteParts
  <2>2. s = bytes \o z /\ z \in Seq(Byte) /\ Len(z) = 1
    BY <1>1
  <2> HIDE DEF s, z
  <2>3. s \in Seq(Byte) /\ Len(s) = Len(bytes) + Len(z) /\ \A i \in 1 .. Len(bytes) : s[i] = bytes[i]
    BY <2>1, <2>2, Zenon
  <2> QED BY <2>2, <2>3
<1> HIDE DEF s
<1>3. CASE bytes = <<>>
  <2>1. Padded(bytes) = bytes
    BY <1>3 DEF Padded
  <2>2. Len(bytes) = 0
    BY <1>3
  <2>3. Padded(bytes) \in Seq(Byte) /\ \A i \in 1 .. Len(bytes) : Padded(bytes)[i] = bytes[i]
    BY <2>1, Zenon
  <2>4. Len(Padded(bytes)) = 0 /\ Len(bytes) <= Len(Padded(bytes))
    BY <2>1, <2>2
  <2> QED BY <1>1, <1>3, <2>3, <2>4
<1>4. CASE bytes # <<>>
  <2>1. Padded(bytes) = s
    BY <1>4 DEF Padded, s
  <2>2. Len(bytes) <= Len(s)
    BY <1>1, <1>2
  <2> QED BY <1>1, <1>2, <1>4, <2>1, <2>2
<1> QED BY <1>3, <1>4

\* A sequence that begins like another one, as long as that lasts
LEMMA PrefixOf ==
    ASSUME NEW M, NEW s \in Seq(M), NEW t \in Seq(M), Len(t) <= Len(s),
           \A i \in 1 .. Len(t) : s[i] = t[i]
    PROVE  SubSeq(s, 1, Len(t)) = t
<1> DEFINE k == Len(t)
           u == SubSeq(s, 1, k)
<1>1. k \in Nat /\ k \in Int /\ 1 \in Int /\ Len(s) \in Nat
  BY LenProperties
<1>2. \A i \in 1 .. k : s[i] \in M /\ s[i] = t[i]
  BY ElementOfSeq
<1> HIDE DEF k
<1>3. /\ u \in Seq(M) /\ Len(u) = IF 1 <= k THEN k - 1 + 1 ELSE 0
      /\ \A i \in 1 .. k - 1 + 1 : u[i] = s[1 + i - 1]
  BY <1>1, <1>2, SubSeqProperties
<1> HIDE DEF u
<1>4. Len(u) = k /\ k - 1 + 1 = k /\ \A i \in 1 .. k : 1 + i - 1 = i
  BY <1>1, <1>3
<1>5. \A i \in 1 .. Len(u) : u[i] = t[i]
  BY <1>2, <1>3, <1>4
<1> QED BY <1>3, <1>4, <1>5, SeqEqual DEF u, k

\* Numbers of 16 bits
LEMMA Wrapped ==
    ASSUME NEW n \in Nat
    PROVE  /\ SizeRange \in Nat \ {0}
           /\ n % SizeRange \in Nat /\ n % SizeRange <= n /\ n % SizeRange < SizeRange
           /\ n < SizeRange => n % SizeRange = n
<1>1. SizeRange \in Nat /\ SizeRange > 0
  BY SizeRangeAssumption
<1> DEFINE r == n % SizeRange
           d == n \div SizeRange
<1>2. r \in Nat /\ r < SizeRange /\ d \in Int /\ n = SizeRange * d + r
  BY <1>1
<1>3. d >= 0
  <2> HIDE DEF r, d
  <2> SUFFICES ASSUME d <= 0 - 1 PROVE FALSE
    BY <1>2
  <2>1. SizeRange * d <= SizeRange * (0 - 1)
    BY <1>1, <1>2
  <2> QED BY <1>1, <1>2, <2>1
<1>4. r <= n
  <2> HIDE DEF r, d
  <2>1. SizeRange * d >= 0
    BY <1>1, <1>2, <1>3
  <2> QED BY <1>1, <1>2, <2>1
<1>5. n < SizeRange => r = n
  BY <1>1
<1> QED BY <1>1, <1>2, <1>4, <1>5

\* Writing leaves memory for all that is written.
LEMMA MemoryFacts ==
    ASSUME NEW p \in Packet, p.length <= Len(p.data), NEW more \in Seq(Byte),
           NEW end, end = p.writePos + Len(more)
    PROVE  /\ Memory(p, more) \in Seq(Byte) /\ Len(Memory(p, more)) \in Nat
           /\ Len(p.data) <= Len(Memory(p, more)) /\ end + 1 <= Len(Memory(p, more))
           /\ \A i \in 1 .. Len(Memory(p, more)) :
                  Memory(p, more)[i] =
                      IF i - p.writePos \in 1 .. Len(more) THEN more[i - p.writePos]
                      ELSE IF i \in p.length + 1 .. end + 1 THEN Zero ELSE p.data[i]
           /\ Len(p.data) <= end + 1 => Len(Memory(p, more)) = end + 1
<1> DEFINE w == p.writePos
           k == Len(more)
           l == p.length
           d == Len(p.data)
           n == IF d <= end + 1 THEN end + 1 ELSE d
           At1(i) == IF i - w \in 1 .. k THEN more[i - w]
                     ELSE IF i \in l + 1 .. end + 1 THEN Zero ELSE p.data[i]
           a == [i \in 1 .. n |-> At1(i)]
<1>1. w \in Nat /\ k \in Nat /\ l \in Nat /\ d \in Nat /\ l <= d /\ end = w + k /\ end \in Nat /\ n \in Nat
  BY LenProperties DEF Packet
<1>2. DOMAIN more = 1 .. k /\ DOMAIN p.data = 1 .. d
  BY LenProperties DEF Packet
<1>3. DOMAIN p.data \cup 1 .. end + 1 = 1 .. n
  BY <1>1, <1>2
<1>4. Memory(p, more) = a
  BY <1>2, <1>3 DEF Memory
<1>5. Zero \in Byte /\ (\A i \in 1 .. k : more[i] \in Byte) /\ (\A i \in 1 .. d : p.data[i] \in Byte)
  <2>1. Zero \in Byte /\ \A i \in 1 .. k : more[i] \in Byte
    BY ElementOfSeq DEF Byte
  <2>2. p.data \in Seq(Byte)
    BY DEF Packet
  <2> QED BY <2>1, <2>2, ElementOfSeq
<1>6. ASSUME NEW i \in 1 .. n PROVE At1(i) \in Byte
  <2>1. CASE i - w \in 1 .. k
    BY <1>5, <2>1
  <2>2. CASE ~(i - w \in 1 .. k) /\ i \in l + 1 .. end + 1
    BY <1>5, <2>2
  <2>3. CASE ~(i - w \in 1 .. k) /\ ~(i \in l + 1 .. end + 1)
    <3>1. i \in 1 .. d
      BY <1>1, <2>3
    <3> QED BY <1>5, <2>3, <3>1
  <2> QED BY <2>1, <2>2, <2>3
<1> HIDE DEF At1, n
<1>7. a \in [1 .. n -> Byte] /\ \A i \in 1 .. n : a[i] = At1(i)
  BY <1>6
<1>8. a \in Seq(Byte) /\ Len(a) = n
  BY <1>1, <1>7, FunctionIsSeq
<1>9. d <= n /\ end + 1 <= n /\ (d <= end + 1 => n = end + 1)
  BY <1>1 DEF n
<1> QED BY <1>1, <1>4, <1>7, <1>8, <1>9, Zenon DEF At1

\* As long as the positions do not wrap, it is the bytes and the zero behind them.
LEMMA MemoryPadded ==
    ASSUME NEW p \in Packet, NEW bytes \in Seq(Byte), NEW more \in Seq(Byte), more # <<>>,
           p.writePos = Len(bytes), p.data = Padded(bytes), p.length = Len(p.data)
    PROVE  Memory(p, more) = Padded(bytes \o more)
<1> DEFINE all == bytes \o more
           b == Len(bytes)
           k == Len(more)
           end == p.writePos + k
           x == Memory(p, more)
           y == Padded(all)
<1>1. /\ all \in Seq(Byte) /\ Len(all) = b + k /\ b \in Nat /\ k \in Nat /\ k # 0
      /\ \A i \in 1 .. b : all[i] = bytes[i]
      /\ \A i \in 1 .. k : all[b + i] = more[i]
  <2>1. \A u : u = bytes \o more =>
            /\ u \in Seq(Byte) /\ Len(u) = Len(bytes) + Len(more)
            /\ Len(bytes) \in Nat /\ Len(more) \in Nat
            /\ \A i \in 1 .. Len(bytes) : u[i] = bytes[i]
            /\ \A i \in 1 .. Len(more) : u[Len(bytes) + i] = more[i]
    BY ByteParts
  <2>2. Len(more) # 0
    BY EmptySeq
  <2> QED BY <2>1, <2>2, Zenon
<1> HIDE DEF all
<1>2. all # <<>>
  <2>1. Len(all) # 0
    BY <1>1
  <2> QED BY <2>1
<1>3. /\ y \in Seq(Byte) /\ Len(y) = b + k + 1 /\ y = all \o <<Zero>>
      /\ \A i \in 1 .. b + k : y[i] = all[i]
  <2>1. /\ y \in Seq(Byte) /\ Len(y) = Len(all) + 1 /\ y = all \o <<Zero>>
        /\ \A i \in 1 .. Len(all) : y[i] = all[i]
    BY <1>1, <1>2, PaddedFacts DEF Padded
  <2> HIDE DEF y
  <2> QED BY <1>1, <2>1
<1>4. y[b + k + 1] = Zero
  <2>1. \A w \in Seq(Byte) : (w \o <<Zero>>)[Len(w) + 1] = Zero
    <3> SUFFICES ASSUME NEW w \in Seq(Byte) PROVE (w \o <<Zero>>)[Len(w) + 1] = Zero
      OBVIOUS
    <3>1. <<Zero>> \in Seq(Byte) /\ Len(<<Zero>>) = 1 /\ <<Zero>>[1] = Zero /\ Len(w) \in Nat
      BY PaddedFacts, LenProperties
    <3> QED BY <3>1, ConcatProperties
  <2> HIDE DEF y
  <2> QED BY <1>1, <1>3, <2>1
<1>5. /\ bytes # <<>> => p.length = b + 1
      /\ bytes = <<>> => p.length = 0 /\ b = 0
      /\ \A i \in 1 .. b : p.data[i] = bytes[i]
  BY PaddedFacts
<1>6. p.length \in Nat /\ p.length <= b + 1 /\ b <= p.length /\ Len(p.data) = p.length
  BY <1>1, <1>5
<1>7. /\ x \in Seq(Byte) /\ Len(x) = end + 1
      /\ \A i \in 1 .. Len(x) :
             x[i] = IF i - p.writePos \in 1 .. k THEN more[i - p.writePos]
                    ELSE IF i \in p.length + 1 .. end + 1 THEN Zero ELSE p.data[i]
  <2>1. p.length <= Len(p.data) /\ Len(p.data) <= end + 1
    BY <1>1, <1>6
  <2> QED BY <2>1, MemoryFacts
<1> HIDE DEF x, y, b, k
<1>8. end = b + k /\ p.writePos = b
  BY DEF b
<1> HIDE DEF end
<1>9. ASSUME NEW i \in 1 .. b + k + 1 PROVE x[i] = y[i]
  <2>0. x[i] = IF i - b \in 1 .. k THEN more[i - b]
               ELSE IF i \in p.length + 1 .. b + k + 1 THEN Zero ELSE p.data[i]
    BY <1>7, <1>8
  <2>1. CASE i \in 1 .. b
    <3>1. ~(i - b \in 1 .. k) /\ ~(i \in p.length + 1 .. b + k + 1) /\ i \in 1 .. b + k
      BY <1>1, <1>6, <2>1
    <3> QED BY <1>1, <1>3, <1>5, <2>0, <2>1, <3>1
  <2>2. CASE i - b \in 1 .. k
    <3>1. i \in 1 .. b + k /\ b + (i - b) = i
      BY <1>1, <2>2
    <3> QED BY <1>1, <1>3, <2>0, <2>2, <3>1
  <2>3. CASE i = b + k + 1
    <3>1. ~(i - b \in 1 .. k) /\ i \in p.length + 1 .. b + k + 1
      BY <1>1, <1>6, <2>3
    <3> QED BY <1>4, <2>0, <2>3, <3>1
  <2> QED BY <1>1, <2>1, <2>2, <2>3
<1>10. Len(x) = b + k + 1
  BY <1>7, <1>8
<1>11. x = y
  BY <1>1, <1>3, <1>7, <1>9, <1>10, SeqEqual
<1> QED BY <1>11 DEF x, y, all

\* Writing adds the bytes.
LEMMA WriteBuilt ==
    ASSUME NEW opcode \in Nat, NEW size \in Nat, NEW bytes, NEW p, Built(p, opcode, size, bytes),
           NEW more \in Seq(Byte), more # <<>>
    PROVE  Built(Write(p, more), opcode, size, bytes \o more)
<1> DEFINE all == bytes \o more
           data == Memory(p, more)
           end == p.writePos + Len(more)
           newPos == end % SizeRange
           grown == (newPos + 1) % SizeRange
           newSize == IF p.size < newPos + 1 THEN grown ELSE p.size
           q == Write(p, more)
<1>1. /\ p \in Packet /\ bytes \in Seq(Byte) /\ p.opcode = opcode /\ Stored(p, size, bytes)
      /\ Len(bytes) + 1 < SizeRange => Fitting(p, size, bytes)
  BY DEF Built
<1>2. /\ all \in Seq(Byte) /\ Len(all) = Len(bytes) + Len(more)
      /\ Len(bytes) \in Nat /\ Len(more) \in Nat /\ Len(more) # 0
  <2>1. \A u : u = bytes \o more =>
            /\ u \in Seq(Byte) /\ Len(u) = Len(bytes) + Len(more)
            /\ Len(bytes) \in Nat /\ Len(more) \in Nat
    BY <1>1, ByteParts
  <2>2. all \in Seq(Byte) /\ Len(all) = Len(bytes) + Len(more) /\ Len(bytes) \in Nat /\ Len(more) \in Nat
    BY <2>1, Zenon
  <2>3. Len(more) # 0
    BY EmptySeq
  <2> QED BY <2>2, <2>3, Zenon
<1>3. p.writePos \in Nat /\ p.size \in Nat /\ Len(p.data) \in Nat /\ end \in Nat
  BY <1>1, <1>2, LenProperties DEF Packet
<1>4. /\ data \in Seq(Byte) /\ Len(data) \in Nat
      /\ Len(p.data) <= Len(data) /\ end + 1 <= Len(data)
  BY <1>1, MemoryFacts DEF Stored
<1> HIDE DEF data
<1>5. /\ SizeRange \in Nat \ {0} /\ newPos \in Nat /\ newPos <= end
      /\ end < SizeRange => newPos = end
  <2> HIDE DEF end
  <2> QED BY <1>3, Wrapped
<1> HIDE DEF newPos
<1>6. /\ grown \in Nat /\ grown <= newPos + 1
      /\ newPos + 1 < SizeRange => grown = newPos + 1
  <2>1. newPos + 1 \in Nat
    BY <1>5
  <2> QED BY <2>1, Wrapped
<1> HIDE DEF grown
<1>7. q = [p EXCEPT !.data = data, !.length = end + 1, !.writePos = newPos, !.size = newSize]
  BY DEF Write, data, end, newPos, grown
<1>8. newSize \in Nat
  BY <1>3, <1>6
<1> HIDE DEF newSize, q, end, all
<1> DEFINE newLength == end + 1
<1>13. newLength \in Nat
  BY <1>3
<1>14. q = [p EXCEPT !.data = data, !.length = newLength, !.writePos = newPos, !.size = newSize]
  BY <1>7
<1> HIDE DEF newLength
<1>15. /\ q \in Packet /\ q.opcode = p.opcode /\ q.writePos = newPos /\ q.data = data /\ q.size = newSize
       /\ q.length = newLength
  BY <1>1, <1>4, <1>5, <1>8, <1>13, <1>14 DEF Packet
<1>9. /\ q \in Packet /\ q.opcode = opcode /\ q.writePos = newPos /\ q.data = data /\ q.size = newSize
      /\ q.length = end + 1
  BY <1>1, <1>15 DEF newLength
<1>10. Stored(q, size, all)
  <2>1. q.length <= Len(q.data)
    BY <1>4, <1>9
  <2>2. Len(all) < SizeRange => q.writePos = Len(all) /\ Len(all) <= Len(q.data)
    <3> SUFFICES ASSUME Len(all) < SizeRange PROVE q.writePos = Len(all) /\ Len(all) <= Len(q.data)
      OBVIOUS
    <3>1. Len(bytes) < SizeRange
      BY <1>2, <1>5
    <3>2. p.writePos = Len(bytes)
      BY <1>1, <3>1 DEF Stored
    <3>3. end = Len(all)
      BY <1>2, <3>2 DEF end
    <3> QED BY <1>2, <1>3, <1>4, <1>5, <1>9, <3>3
  <2>3. Len(all) >= SizeRange => Len(q.data) >= SizeRange
    <3>1. CASE Len(bytes) >= SizeRange
      BY <1>1, <1>3, <1>4, <1>5, <1>9, <3>1 DEF Stored
    <3>2. CASE Len(bytes) < SizeRange
      <4>1. p.writePos = Len(bytes)
        BY <1>1, <3>2 DEF Stored
      <4>2. end = Len(all)
        BY <1>2, <4>1 DEF end
      <4> QED BY <1>2, <1>3, <1>4, <1>5, <1>9, <4>2
    <3> QED BY <1>2, <1>5, <3>1, <3>2
  <2>4. q.size <= Len(q.data) \/ q.size = size
    <3>1. p.size <= Len(p.data) \/ p.size = size
      BY <1>1 DEF Stored
    <3> QED BY <1>3, <1>4, <1>5, <1>6, <1>9, <3>1 DEF newSize
  <2> QED BY <2>1, <2>2, <2>3, <2>4 DEF Stored
<1>11. ASSUME Len(all) + 1 < SizeRange PROVE Fitting(q, size, all)
  <2>1. Len(bytes) + 1 < SizeRange
    BY <1>2, <1>5, <1>11
  <2>2. Fitting(p, size, bytes)
    BY <1>1, <2>1
  <2>3. /\ p.writePos = Len(bytes) /\ p.data = Padded(bytes) /\ p.length = Len(p.data)
        /\ p.size = IF bytes # <<>> /\ size < Len(bytes) + 1 THEN Len(bytes) + 1 ELSE size
    BY <2>2 DEF Fitting
  <2>4. data = Padded(all)
    BY <1>1, <2>3, MemoryPadded DEF data, all
  <2>5. end = Len(all) /\ newPos = Len(all) /\ grown = Len(all) + 1
    <3>1. end = Len(all)
      BY <1>2, <2>3 DEF end
    <3> QED BY <1>2, <1>5, <1>6, <1>11, <3>1
  <2>6. all # <<>>
    <3>1. Len(all) # 0
      BY <1>2
    <3> QED BY <3>1
  <2>7. q.length = Len(q.data)
    <3>1. Len(Padded(all)) = Len(all) + 1
      BY <1>2, <2>6, PaddedFacts
    <3> QED BY <1>9, <2>4, <2>5, <3>1
  <2>8. newSize = IF size < Len(all) + 1 THEN Len(all) + 1 ELSE size
    BY <1>2, <2>3, <2>5 DEF newSize
  <2> QED BY <1>9, <2>4, <2>5, <2>6, <2>7, <2>8 DEF Fitting
<1>12. Built(q, opcode, size, all)
  BY <1>2, <1>9, <1>10, <1>11 DEF Built
<1> QED BY <1>12 DEF q, all

\* The bytes when some of them are replaced
LEMMA ReplacedFacts ==
    ASSUME NEW before \in Seq(Byte), NEW old \in Seq(Byte), NEW new \in Seq(Byte), NEW after \in Seq(Byte),
           Len(old) = Len(new), old # <<>>
    PROVE  LET s == (before \o old) \o after
               t == (before \o new) \o after
           IN  /\ t \in Seq(Byte) /\ Len(t) = Len(s) /\ Len(s) \in Nat /\ s # <<>> /\ t # <<>>
               /\ Padded(t) \in Seq(Byte) /\ Len(Padded(t)) = Len(Padded(s))
               /\ Padded(t) = [i \in DOMAIN Padded(s) |->
                                   IF i - Len(before) \in DOMAIN new THEN new[i - Len(before)]
                                   ELSE Padded(s)[i]]
<1> DEFINE a == Len(before)
           n == Len(new)
           c == Len(after)
           s == (before \o old) \o after
           t == (before \o new) \o after
           x == Padded(s)
           y == Padded(t)
           z == [i \in DOMAIN x |-> IF i - a \in DOMAIN new THEN new[i - a] ELSE x[i]]
<1>2. a \in Nat /\ n \in Nat /\ c \in Nat /\ n # 0 /\ DOMAIN new = 1 .. n
  BY LenProperties, EmptySeq
<1>3. ASSUME NEW m \in Seq(Byte), Len(m) = n
      PROVE  LET u == (before \o m) \o after
             IN  /\ u \in Seq(Byte) /\ Len(u) = a + n + c
                 /\ \A i \in 1 .. a : u[i] = before[i]
                 /\ \A i \in 1 .. n : u[a + i] = m[i]
                 /\ \A i \in 1 .. c : u[a + n + i] = after[i]
  <2> DEFINE v == before \o m
             u == v \o after
  <2>1. /\ v \in Seq(Byte) /\ Len(v) = a + n
        /\ \A i \in 1 .. a : v[i] = before[i]
        /\ \A i \in 1 .. n : v[a + i] = m[i]
    <3>1. \A w : w = before \o m =>
            /\ w \in Seq(Byte) /\ Len(w) = Len(before) + Len(m)
            /\ \A i \in 1 .. Len(before) : w[i] = before[i]
            /\ \A i \in 1 .. Len(m) : w[Len(before) + i] = m[i]
      <4>1. before \in Seq(Byte) /\ m \in Seq(Byte)
        OBVIOUS
      <4>2. \A u1 : u1 = before \o m =>
                /\ u1 \in Seq(Byte) /\ Len(u1) \in Nat /\ Len(before) \in Nat /\ Len(m) \in Nat
                /\ Len(u1) = Len(before) + Len(m)
                /\ \A i \in 1 .. Len(before) : u1[i] = before[i]
                /\ \A i \in 1 .. Len(m) : u1[Len(before) + i] = m[i]
        BY <4>1, ByteParts, Zenon
      <4> SUFFICES ASSUME NEW w, w = before \o m
                   PROVE  /\ w \in Seq(Byte) /\ Len(w) = Len(before) + Len(m)
                          /\ \A i \in 1 .. Len(before) : w[i] = before[i]
                          /\ \A i \in 1 .. Len(m) : w[Len(before) + i] = m[i]
        OBVIOUS
      <4> QED BY <4>2, Zenon
    <3>2. /\ v \in Seq(Byte) /\ Len(v) = Len(before) + Len(m)
          /\ \A i \in 1 .. Len(before) : v[i] = before[i]
          /\ \A i \in 1 .. Len(m) : v[Len(before) + i] = m[i]
      BY <3>1, Zenon
    <3> HIDE DEF v
    <3> QED BY <1>3, <3>2
  <2> HIDE DEF v
  <2>2. /\ u \in Seq(Byte) /\ Len(u) = Len(v) + c
        /\ \A i \in 1 .. Len(v) : u[i] = v[i]
        /\ \A i \in 1 .. c : u[Len(v) + i] = after[i]
    <3>1. \A w : w = v \o after =>
            /\ w \in Seq(Byte) /\ Len(w) = Len(v) + Len(after)
            /\ \A i \in 1 .. Len(v) : w[i] = v[i]
            /\ \A i \in 1 .. Len(after) : w[Len(v) + i] = after[i]
      <4>1. \A m2 \in Seq(Byte) : \A w : w = m2 \o after =>
            /\ w \in Seq(Byte) /\ Len(w) = Len(m2) + Len(after)
            /\ \A i \in 1 .. Len(m2) : w[i] = m2[i]
            /\ \A i \in 1 .. Len(after) : w[Len(m2) + i] = after[i]
        BY ByteParts
      <4> QED BY <2>1, <4>1, Zenon
    <3> QED BY <3>1, Zenon
  <2> HIDE DEF u, a, n, c
  <2>3. /\ u \in Seq(Byte) /\ Len(u) = a + n + c
        /\ \A i \in 1 .. a : u[i] = before[i]
        /\ \A i \in 1 .. n : u[a + i] = m[i]
        /\ \A i \in 1 .. c : u[a + n + i] = after[i]
    <3>1. \A i \in 1 .. a : i \in 1 .. Len(v)
      BY <1>2, <2>1
    <3>2. \A i \in 1 .. n : a + i \in 1 .. Len(v)
      BY <1>2, <2>1
    <3> QED BY <1>2, <2>1, <2>2, <3>1, <3>2
  <2> QED BY <2>3 DEF u, v
<1>1. s \in Seq(Byte)
  BY <1>3
<1>4. /\ Len(s) = a + n + c
      /\ \A i \in 1 .. a : s[i] = before[i]
      /\ \A i \in 1 .. c : s[a + n + i] = after[i]
  BY <1>3
<1>5. /\ t \in Seq(Byte) /\ Len(t) = a + n + c
      /\ \A i \in 1 .. a : t[i] = before[i]
      /\ \A i \in 1 .. n : t[a + i] = new[i]
      /\ \A i \in 1 .. c : t[a + n + i] = after[i]
  BY <1>3
<1> HIDE DEF s, t
<1>6. s # <<>> /\ t # <<>>
  BY <1>2, <1>4, <1>5, EmptySeq
<1>7. /\ x \in Seq(Byte) /\ y \in Seq(Byte) /\ Len(x) = a + n + c + 1 /\ Len(y) = a + n + c + 1
      /\ x = s \o <<Zero>> /\ y = t \o <<Zero>>
      /\ \A i \in 1 .. a + n + c : x[i] = s[i] /\ y[i] = t[i]
  <2>1. /\ x \in Seq(Byte) /\ Len(x) = Len(s) + 1 /\ x = s \o <<Zero>>
        /\ \A i \in 1 .. Len(s) : x[i] = s[i]
    BY <1>1, <1>6, PaddedFacts DEF Padded
  <2>2. /\ y \in Seq(Byte) /\ Len(y) = Len(t) + 1 /\ y = t \o <<Zero>>
        /\ \A i \in 1 .. Len(t) : y[i] = t[i]
    BY <1>5, <1>6, PaddedFacts DEF Padded
  <2> HIDE DEF x, y
  <2> QED BY <1>4, <1>5, <2>1, <2>2
<1>8. x[a + n + c + 1] = Zero /\ y[a + n + c + 1] = Zero
  <2>1. \A w \in Seq(Byte) : (w \o <<Zero>>)[Len(w) + 1] = Zero
    <3> SUFFICES ASSUME NEW w \in Seq(Byte) PROVE (w \o <<Zero>>)[Len(w) + 1] = Zero
      OBVIOUS
    <3>1. <<Zero>> \in Seq(Byte) /\ Len(<<Zero>>) = 1 /\ <<Zero>>[1] = Zero /\ Len(w) \in Nat
      BY PaddedFacts, LenProperties
    <3> QED BY <3>1, ConcatProperties
  <2> HIDE DEF x, y
  <2> QED BY <1>1, <1>4, <1>5, <1>7, <2>1
<1>9. z = y
  <2>1. DOMAIN x = 1 .. a + n + c + 1 /\ DOMAIN y = 1 .. a + n + c + 1
    BY <1>7, LenProperties
  <2> HIDE DEF x, y, a, n, c
  <2>2. ASSUME NEW i \in 1 .. a + n + c + 1
        PROVE  (IF i - a \in 1 .. n THEN new[i - a] ELSE x[i]) = y[i]
    <3>1. CASE i \in 1 .. a
      BY <1>2, <1>4, <1>5, <1>7, <3>1
    <3>2. CASE i - a \in 1 .. n
      <4>1. i = a + (i - a) /\ i \in 1 .. a + n + c
        BY <1>2, <3>2
      <4> QED BY <1>5, <1>7, <3>2, <4>1
    <3>3. CASE i \in a + n + 1 .. a + n + c
      <4> DEFINE j == i - (a + n)
      <4>1. j \in 1 .. c /\ i = a + n + j /\ i \in 1 .. a + n + c /\ ~(i - a \in 1 .. n)
        BY <1>2, <3>3
      <4> HIDE DEF j
      <4>2. s[i] = after[j] /\ t[i] = after[j] /\ x[i] = s[i] /\ y[i] = t[i]
        BY <1>4, <1>5, <1>7, <4>1
      <4> QED BY <4>1, <4>2
    <3>4. CASE i = a + n + c + 1
      <4>1. ~(i - a \in 1 .. n)
        BY <1>2, <3>4
      <4> QED BY <1>8, <3>4, <4>1
    <3>5. \/ i \in 1 .. a \/ i - a \in 1 .. n \/ i \in a + n + 1 .. a + n + c
          \/ i = a + n + c + 1
      BY <1>2
    <3> QED BY <3>1, <3>2, <3>3, <3>4, <3>5, Zenon
  <2>3. z = [i \in 1 .. a + n + c + 1 |-> IF i - a \in 1 .. n THEN new[i - a] ELSE x[i]]
    BY <1>2, <2>1
  <2>4. y = [i \in 1 .. a + n + c + 1 |-> y[i]]
    BY <1>7, <2>1, LenProperties
  <2> HIDE DEF z
  <2> QED BY <2>2, <2>3, <2>4
<1>10. t \in Seq(Byte) /\ Len(t) = Len(s) /\ Len(s) \in Nat
  BY <1>2, <1>4, <1>5
<1>11. y \in Seq(Byte) /\ Len(y) = Len(x)
  BY <1>7
<1> QED BY <1>6, <1>9, <1>10, <1>11, Zenon DEF s, t, x, y, z, a

\* Writing at a position replaces the bytes there, unless the position wrapped.
LEMMA WriteAtBuilt ==
    ASSUME NEW opcode \in Nat, NEW size \in Nat,
           NEW before \in Seq(Byte), NEW old \in Seq(Byte), NEW new \in Seq(Byte), NEW after \in Seq(Byte),
           Len(old) = Len(new), old # <<>>,
           NEW p, Built(p, opcode, size, (before \o old) \o after),
           NEW pos \in Nat, Len((before \o old) \o after) + 1 < SizeRange => pos = Len(before)
    PROVE  Built(WriteAt(p, new, pos), opcode, size, (before \o new) \o after)
<1> DEFINE s == (before \o old) \o after
           t == (before \o new) \o after
           z == [i \in DOMAIN p.data |-> IF i - pos \in DOMAIN new THEN new[i - pos] ELSE p.data[i]]
           q == WriteAt(p, new, pos)
<1>1. /\ p \in Packet /\ p.opcode = opcode /\ Stored(p, size, s)
      /\ Len(s) + 1 < SizeRange => Fitting(p, size, s)
  BY DEF Built
<1>2. /\ t \in Seq(Byte) /\ Len(t) = Len(s) /\ Len(s) \in Nat /\ s # <<>> /\ t # <<>>
      /\ Padded(t) \in Seq(Byte) /\ Len(Padded(t)) = Len(Padded(s))
      /\ Padded(t) = [i \in DOMAIN Padded(s) |->
                          IF i - Len(before) \in DOMAIN new THEN new[i - Len(before)] ELSE Padded(s)[i]]
  BY ReplacedFacts
<1>3. Len(s) + 1 < SizeRange => pos = Len(before)
  OBVIOUS
<1> HIDE DEF s, t
<1>4. z \in Seq(Byte) /\ Len(z) = Len(p.data)
  <2> DEFINE n == Len(p.data)
  <2>1. n \in Nat /\ DOMAIN p.data = 1 .. n /\ \A i \in 1 .. n : p.data[i] \in Byte
    BY <1>1, LenProperties, ElementOfSeq DEF Packet
  <2>2. \A i \in DOMAIN new : new[i] \in Byte
    BY LenProperties, ElementOfSeq
  <2> HIDE DEF n
  <2>3. z \in [1 .. n -> Byte]
    BY <2>1, <2>2
  <2> HIDE DEF z
  <2>4. z \in Seq(Byte) /\ Len(z) = n
    BY <2>1, <2>3, FunctionIsSeq
  <2> QED BY <2>4 DEF n
<1>5. q = [p EXCEPT !.data = z]
  BY DEF WriteAt
<1> HIDE DEF z, q
<1>6. /\ q \in Packet /\ q.opcode = p.opcode /\ q.writePos = p.writePos /\ q.data = z /\ q.size = p.size
      /\ q.length = p.length
  BY <1>1, <1>4, <1>5 DEF Packet
<1>7. Stored(q, size, t)
  BY <1>1, <1>2, <1>4, <1>6 DEF Stored
<1>8. ASSUME Len(t) + 1 < SizeRange PROVE Fitting(q, size, t)
  <2>1. Fitting(p, size, s) /\ pos = Len(before)
    BY <1>1, <1>2, <1>3, <1>8
  <2>2. p.data = Padded(s)
    BY <2>1 DEF Fitting
  <2>3. z = Padded(t)
    BY <1>2, <2>1, <2>2 DEF z
  <2> QED BY <1>2, <1>4, <1>6, <2>1, <2>3 DEF Fitting
<1>9. Built(q, opcode, size, t)
  BY <1>1, <1>2, <1>6, <1>7, <1>8 DEF Built
<1> QED BY <1>9 DEF q, t

\* Parts are written one after the other.
LEMMA BuiltJoin ==
    ASSUME NEW opcode \in Nat, NEW size \in Nat, NEW parts \in Seq(Seq(Byte)), NEW bytes, NEW q,
           Built(q[0], opcode, size, bytes),
           \A k \in 1 .. Len(parts) : \A written \in Seq(Byte) :
               Built(q[k - 1], opcode, size, written) => Built(q[k], opcode, size, written \o parts[k])
    PROVE  Built(q[Len(parts)], opcode, size, bytes \o FlattenSeq(parts))
<1> DEFINE N == Len(parts)
           b == JoinTo(parts)
           S == {k \in 0 .. N : Built(q[k], opcode, size, bytes \o b[k])}
<1>1. /\ N \in Nat /\ b[0] = <<>> /\ bytes \in Seq(Byte)
      /\ \A k \in 0 .. N : b[k] \in Seq(Byte)
      /\ \A k \in 1 .. N : b[k] = b[k - 1] \o parts[k] /\ parts[k] \in Seq(Byte)
  BY JoinFacts, ElementOfSeq DEF Built
<1> HIDE DEF b, N
<1>2. 0 \in S
  <2>1. bytes \o b[0] = bytes
    BY <1>1, ConcatEmptySeq
  <2>2. Built(q[0], opcode, size, bytes \o b[0])
    BY <2>1, Zenon
  <2>3. 0 \in 0 .. N
    BY <1>1
  <2> QED BY <2>2, <2>3, Zenon
<1>3. ASSUME NEW k \in 0 .. N - 1, k \in S PROVE k + 1 \in S
  <2>1. k + 1 \in 1 .. N /\ (k + 1) - 1 = k /\ k \in 0 .. N /\ k + 1 \in 0 .. N
    BY <1>1
  <2> DEFINE s == bytes \o b[k]
  <2>2. s \in Seq(Byte)
    BY <1>1, <2>1, ConcatProperties
  <2>3. Built(q[k], opcode, size, s)
    BY <1>3
  <2>4. s \o parts[k + 1] = bytes \o b[k + 1]
    <3>1. (bytes \o b[k]) \o parts[k + 1] = bytes \o (b[k] \o parts[k + 1])
      BY <1>1, <2>1, ByteConcat, Zenon
    <3>2. b[k + 1] = b[k] \o parts[k + 1]
      BY <1>1, <2>1, Zenon
    <3> QED BY <3>1, <3>2, Zenon
  <2> HIDE DEF s
  <2>5. Built(q[k + 1], opcode, size, s \o parts[k + 1])
    <3>1. \A written \in Seq(Byte) :
               Built(q[(k + 1) - 1], opcode, size, written) => Built(q[k + 1], opcode, size, written \o parts[k + 1])
      BY <2>1 DEF N
    <3> QED BY <2>1, <2>2, <2>3, <3>1, Zenon
  <2> QED BY <2>1, <2>4, <2>5
<1>4. N \in S
  <2> HIDE DEF S
  <2>1. 0 .. N \subseteq S
    BY <1>1, <1>2, <1>3, InductionTo
  <2> QED BY <1>1, <2>1
<1>5. FlattenSeq(parts) = b[N]
  BY FlattenIsJoin DEF b, N
<1> QED BY <1>4, <1>5 DEF N

\* A field adds its bytes.
LEMMA WriteFieldBuilt ==
    ASSUME NEW opcode \in Nat, NEW size \in Nat, NEW bytes, NEW p, Built(p, opcode, size, bytes),
           NEW kind \in Kinds, NEW v, IsValue(v, kind)
    PROVE  Built(WriteField(p, kind, v), opcode, size, bytes \o Written(kind, v))
<1> DEFINE w == Written(kind, v)
<1>1. w \in Seq(Byte) /\ Len(w) = Len(v) + (IF kind = "text" THEN 1 ELSE 0) /\ Len(v) \in Nat
  BY WrittenFacts
<1>2. kind # "text" => Len(v) # 0
  BY WidthFacts DEF IsValue
<1> HIDE DEF w
<1>3. w # <<>>
  <2>1. Len(w) # 0
    BY <1>1, <1>2
  <2> QED BY <2>1
<1>4. Built(Write(p, w), opcode, size, bytes \o w)
  BY <1>1, <1>3, WriteBuilt
<1> QED BY <1>4 DEF WriteField, w

\* A block adds those of its fields.
LEMMA FieldsBuilt ==
    ASSUME NEW opcode \in Nat, NEW size \in Nat, NEW bytes, NEW p, Built(p, opcode, size, bytes),
           NEW kinds \in Seq(Kinds), NEW block, AreValues(block, kinds)
    PROVE  Built(FieldsTo(p, kinds, block)[Len(kinds)], opcode, size,
                 bytes \o FlattenSeq(WrittenFields(kinds, block)))
<1> DEFINE q == FieldsTo(p, kinds, block)
           parts == WrittenFields(kinds, block)
<1>1. /\ parts \in Seq(Seq(Byte)) /\ Len(parts) = Len(kinds)
      /\ \A f \in 1 .. Len(kinds) : parts[f] = Written(kinds[f], block[f])
  BY FieldsFacts
<1>2. /\ Len(kinds) \in Nat
      /\ \A f \in 1 .. Len(kinds) : kinds[f] \in Kinds /\ IsValue(block[f], kinds[f])
  BY LenProperties, ElementOfSeq DEF AreValues
<1>3. q[0] = p /\ \A f \in 1 .. Len(kinds) : q[f] = WriteField(q[f - 1], kinds[f], block[f])
  BY <1>2, FieldsToDef
<1> HIDE DEF q, parts
<1>4. \A f \in 1 .. Len(parts) : \A written \in Seq(Byte) :
          Built(q[f - 1], opcode, size, written) => Built(q[f], opcode, size, written \o parts[f])
  <2> SUFFICES ASSUME NEW f \in 1 .. Len(parts), NEW written \in Seq(Byte),
                      Built(q[f - 1], opcode, size, written)
               PROVE  Built(q[f], opcode, size, written \o parts[f])
    OBVIOUS
  <2>1. f \in 1 .. Len(kinds)
    BY <1>1
  <2>2. Built(WriteField(q[f - 1], kinds[f], block[f]), opcode, size, written \o Written(kinds[f], block[f]))
    BY <1>2, <2>1, WriteFieldBuilt
  <2> QED BY <1>1, <1>3, <2>1, <2>2, Zenon
<1>5. Built(q[0], opcode, size, bytes)
  BY <1>3
<1>6. Built(q[Len(parts)], opcode, size, bytes \o FlattenSeq(parts))
  BY <1>1, <1>4, <1>5, BuiltJoin
<1> QED BY <1>1, <1>6 DEF q, parts

\* The blocks of a group
AreBlocks(blocks, group) ==
    /\ blocks \in Seq(Seq(Seq(Byte)))
    /\ \A b \in 1 .. Len(blocks) : AreValues(blocks[b], group.fields)
    /\ ~group.counted => Len(blocks) = 1

\* The groups of a layout
Group == [counted : BOOLEAN, fields : Seq(Kinds)]

\* The bytes of the blocks of a group
LEMMA BlocksWrittenFacts ==
    ASSUME NEW group \in Group, NEW blocks, AreBlocks(blocks, group)
    PROVE  /\ BlocksWritten(group, blocks) \in Seq(Seq(Byte))
           /\ Len(BlocksWritten(group, blocks)) = Len(blocks) /\ Len(blocks) \in Nat
           /\ \A b \in 1 .. Len(blocks) :
                  /\ BlocksWritten(group, blocks)[b] = FlattenSeq(WrittenFields(group.fields, blocks[b]))
                  /\ BlocksWritten(group, blocks)[b] = BytesTo(group.fields, blocks[b])[Len(group.fields)]
           /\ FlattenSeq(BlocksWritten(group, blocks)) \in Seq(Byte)
<1> DEFINE n == Len(blocks)
           parts == BlocksWritten(group, blocks)
           Bytes(b) == FlattenSeq(WrittenFields(group.fields, blocks[b]))
<1>1. n \in Nat /\ DOMAIN blocks = 1 .. n
  BY LenProperties DEF AreBlocks
<1>2. group.fields \in Seq(Kinds) /\ Len(group.fields) \in 0 .. Len(group.fields)
  BY LenProperties DEF Group
<1>3. \A b \in 1 .. n :
         Bytes(b) \in Seq(Byte) /\ Bytes(b) = BytesTo(group.fields, blocks[b])[Len(group.fields)]
  <2> SUFFICES ASSUME NEW b \in 1 .. n
               PROVE  /\ Bytes(b) \in Seq(Byte)
                      /\ Bytes(b) = BytesTo(group.fields, blocks[b])[Len(group.fields)]
    OBVIOUS
  <2>1. AreValues(blocks[b], group.fields)
    BY DEF AreBlocks
  <2>2. Bytes(b) = BytesTo(group.fields, blocks[b])[Len(group.fields)]
    BY <1>2, <2>1, BytesToFacts
  <2>3. BytesTo(group.fields, blocks[b])[Len(group.fields)] \in Seq(Byte)
    BY <1>2, <2>1, BytesToFacts
  <2> QED BY <2>2, <2>3, Zenon
<1>4. parts = [b \in 1 .. n |-> Bytes(b)]
  BY <1>1 DEF BlocksWritten
<1> HIDE DEF parts, n, Bytes
<1>5. parts \in [1 .. n -> Seq(Byte)] /\ \A b \in 1 .. n : parts[b] = Bytes(b)
  BY <1>3, <1>4
<1>6. parts \in Seq(Seq(Byte)) /\ Len(parts) = n
  BY <1>1, <1>5, FunctionIsSeq
<1>7. FlattenSeq(parts) \in Seq(Byte)
  <2>1. FlattenSeq(parts) = JoinTo(parts)[Len(parts)]
    BY <1>6, FlattenIsJoin
  <2>2. Len(parts) \in 0 .. Len(parts)
    BY <1>1, <1>6
  <2> QED BY <1>6, <2>1, <2>2, JoinFacts
<1> QED BY <1>1, <1>3, <1>5, <1>6, <1>7 DEF parts, n, Bytes

\* The blocks of a group add theirs.
LEMMA BlocksBuilt ==
    ASSUME NEW opcode \in Nat, NEW size \in Nat, NEW bytes, NEW p, Built(p, opcode, size, bytes),
           NEW group \in Group, NEW blocks, AreBlocks(blocks, group)
    PROVE  Built(WriteBlocks(p, group, blocks), opcode, size,
                 bytes \o FlattenSeq(BlocksWritten(group, blocks)))
<1> DEFINE kinds == group.fields
           q == BlocksTo(p, kinds, blocks)
           parts == BlocksWritten(group, blocks)
<1>1. /\ parts \in Seq(Seq(Byte)) /\ Len(parts) = Len(blocks) /\ Len(blocks) \in Nat
      /\ \A b \in 1 .. Len(blocks) : parts[b] = FlattenSeq(WrittenFields(kinds, blocks[b]))
  BY BlocksWrittenFacts
<1>2. kinds \in Seq(Kinds) /\ \A b \in 1 .. Len(blocks) : AreValues(blocks[b], kinds)
  BY DEF Group, AreBlocks
<1>3. q[0] = p /\ \A b \in 1 .. Len(blocks) : q[b] = FieldsTo(q[b - 1], kinds, blocks[b])[Len(kinds)]
  BY <1>1, BlocksToDef
<1> HIDE DEF q, parts, kinds
<1>4. \A b \in 1 .. Len(parts) : \A written \in Seq(Byte) :
          Built(q[b - 1], opcode, size, written) => Built(q[b], opcode, size, written \o parts[b])
  <2> SUFFICES ASSUME NEW b \in 1 .. Len(parts), NEW written \in Seq(Byte),
                      Built(q[b - 1], opcode, size, written)
               PROVE  Built(q[b], opcode, size, written \o parts[b])
    OBVIOUS
  <2>1. b \in 1 .. Len(blocks)
    BY <1>1
  <2>2. Built(FieldsTo(q[b - 1], kinds, blocks[b])[Len(kinds)], opcode, size,
              written \o FlattenSeq(WrittenFields(kinds, blocks[b])))
    BY <1>2, <2>1, FieldsBuilt
  <2> QED BY <1>1, <1>3, <2>1, <2>2, Zenon
<1>5. Built(q[0], opcode, size, bytes)
  BY <1>3
<1>6. Built(q[Len(parts)], opcode, size, bytes \o FlattenSeq(parts))
  BY <1>1, <1>4, <1>5, BuiltJoin
<1> QED BY <1>1, <1>6 DEF WriteBlocks, q, parts, kinds

-----------------------------------------------------------------------------
(* Groups of blocks. *)

\* The bytes of a count
LEMMA CountFacts ==
    ASSUME NEW n \in Nat
    PROVE  /\ Count(n) \in Seq(Byte) /\ Len(Count(n)) = 4 /\ Count(n) # <<>>
           /\ Count(n)[1][1] = n
<1>1. Count(n) = [i \in 1 .. 4 |-> <<n, i>>]
  BY DEF Count, Width
<1>2. \A i \in 1 .. 4 : <<n, i>> \in Byte
  BY DEF Byte, Width
<1>3. Count(n) \in [1 .. 4 -> Byte]
  BY <1>1, <1>2
<1>4. Count(n) \in Seq(Byte) /\ Len(Count(n)) = 4
  BY <1>3, FunctionIsSeq
<1>5. Count(n)[1] = <<n, 1>>
  BY <1>1
<1>6. <<n, 1>>[1] = n
  OBVIOUS
<1> QED BY <1>4, <1>5, <1>6, EmptySeq

\* The bytes of a group
LEMMA GroupBytesFacts ==
    ASSUME NEW group \in Group, NEW blocks, AreBlocks(blocks, group)
    PROVE  /\ GroupBytes(group, blocks) \in Seq(Byte)
           /\ Len(blocks) \in Nat
           /\ group.counted => GroupBytes(group, blocks)
                                   = Count(Len(blocks)) \o FlattenSeq(BlocksWritten(group, blocks))
           /\ ~group.counted => GroupBytes(group, blocks) = FlattenSeq(BlocksWritten(group, blocks))
<1> DEFINE bytes == FlattenSeq(BlocksWritten(group, blocks))
<1>1. bytes \in Seq(Byte) /\ Len(blocks) \in Nat
  BY BlocksWrittenFacts
<1>2. Count(Len(blocks)) \in Seq(Byte)
  BY <1>1, CountFacts
<1>3. GroupBytes(group, blocks) = (IF group.counted THEN Count(Len(blocks)) ELSE <<>>) \o bytes
  BY DEF GroupBytes
<1> HIDE DEF bytes
<1>4. CASE group.counted
  <2>1. GroupBytes(group, blocks) = Count(Len(blocks)) \o bytes
    BY <1>3, <1>4
  <2>2. Count(Len(blocks)) \o bytes \in Seq(Byte)
    BY <1>1, <1>2, ConcatProperties
  <2> QED BY <1>1, <1>4, <2>1, <2>2, Zenon DEF bytes
<1>5. CASE ~group.counted
  <2>1. GroupBytes(group, blocks) = <<>> \o bytes
    BY <1>3, <1>5
  <2>2. <<>> \o bytes = bytes
    BY <1>1, ConcatEmptySeq
  <2> QED BY <1>1, <1>5, <2>1, <2>2, Zenon DEF bytes
<1> QED BY <1>4, <1>5

\* A group adds its bytes: the zero at its beginning is overwritten with the
\* number of the blocks, at the position remembered before (_WriteAt).
LEMMA GroupBuilt ==
    ASSUME NEW opcode \in Nat, NEW size \in Nat, NEW bytes, NEW p, Built(p, opcode, size, bytes),
           NEW group \in Group, NEW blocks, AreBlocks(blocks, group)
    PROVE  Built(WriteGroup(p, group, blocks), opcode, size, bytes \o GroupBytes(group, blocks))
<1> DEFINE written == FlattenSeq(BlocksWritten(group, blocks))
           zero == Count(0)
           count == Count(Len(blocks))
<1>1. /\ written \in Seq(Byte) /\ Len(blocks) \in Nat
      /\ bytes \in Seq(Byte) /\ p.writePos \in Nat
      /\ Len(bytes) + 1 < SizeRange => p.writePos = Len(bytes)
  BY BlocksWrittenFacts DEF Built, Fitting, Packet
<1>2. /\ zero \in Seq(Byte) /\ zero # <<>> /\ count \in Seq(Byte) /\ Len(zero) = Len(count)
  BY <1>1, CountFacts
<1>3. CASE ~group.counted
  <2>1. WriteGroup(p, group, blocks) = WriteBlocks(p, group, blocks)
    BY <1>3 DEF WriteGroup
  <2>2. GroupBytes(group, blocks) = written
    BY <1>3, GroupBytesFacts
  <2>3. Built(WriteBlocks(p, group, blocks), opcode, size, bytes \o written)
    BY BlocksBuilt
  <2> QED BY <2>1, <2>2, <2>3, Zenon
<1>4. CASE group.counted
  <2> DEFINE q == Write(p, zero)
             r == WriteBlocks(q, group, blocks)
  <2>1. WriteGroup(p, group, blocks) = WriteAt(r, count, p.writePos)
    BY <1>4 DEF WriteGroup
  <2>2. GroupBytes(group, blocks) = count \o written
    BY <1>4, GroupBytesFacts
  <2> HIDE DEF zero, count, written
  <2>3. Built(q, opcode, size, bytes \o zero)
    BY <1>2, WriteBuilt
  <2> HIDE DEF q
  <2>4. Built(r, opcode, size, (bytes \o zero) \o written)
    BY <2>3, BlocksBuilt DEF written
  <2> HIDE DEF r
  <2>7. Len((bytes \o zero) \o written) + 1 < SizeRange => p.writePos = Len(bytes)
    <3>1. \A s, t \in Seq(Byte) : \A u : u = s \o t =>
              u \in Seq(Byte) /\ Len(u) = Len(s) + Len(t) /\ Len(s) \in Nat /\ Len(t) \in Nat
      BY ByteParts
    <3> DEFINE u == bytes \o zero
               v == u \o written
    <3>4. u \in Seq(Byte) /\ Len(u) = Len(bytes) + Len(zero) /\ Len(bytes) \in Nat /\ Len(zero) \in Nat
      BY <1>1, <1>2, <3>1, Zenon
    <3> HIDE DEF u
    <3>2. Len(v) = Len(u) + Len(written) /\ Len(written) \in Nat
      BY <1>1, <3>1, <3>4, Zenon
    <3> HIDE DEF v
    <3>3. Len(v) + 1 < SizeRange => Len(bytes) + 1 < SizeRange
      BY <3>2, <3>4, SizeRangeAssumption
    <3> QED BY <1>1, <3>3 DEF v, u
  <2>5. Built(WriteAt(r, count, p.writePos), opcode, size, (bytes \o count) \o written)
    BY <1>1, <1>2, <2>4, <2>7, WriteAtBuilt
  <2>6. (bytes \o count) \o written = bytes \o (count \o written)
    BY <1>1, <1>2, ByteConcat, Zenon
  <2> QED BY <2>1, <2>2, <2>5, <2>6, Zenon
<1> QED BY <1>3, <1>4

\* What a packet of the server may say
BuiltMessage ==
    {m \in [op : DOMAIN ServerLayouts, groups : Seq(Seq(Seq(Seq(Byte))))] :
        /\ Len(m.groups) = Len(ServerLayouts[m.op].groups)
        /\ \A g \in 1 .. Len(m.groups) : AreBlocks(m.groups[g], ServerLayouts[m.op].groups[g])
        /\ ServerLayouts[m.op].size <= Len(MessageBytes(m))}

\* And what does not make its size or a position wrap
ServerMessage == {m \in BuiltMessage : SizeFits(m)}

\* What the layouts' assumption says of one opcode
LEMMA ServerLayoutFacts ==
    ASSUME NEW op \in DOMAIN ServerLayouts
    PROVE  /\ op \in Nat
           /\ ServerLayouts[op].size \in Nat
           /\ ServerLayouts[op].groups \in Seq(Group)
           /\ Len(ServerLayouts[op].groups) \in Nat
           /\ DOMAIN ServerLayouts[op].groups = 1 .. Len(ServerLayouts[op].groups)
           /\ \A g \in 1 .. Len(ServerLayouts[op].groups) :
                  /\ ServerLayouts[op].groups[g] \in Group
                  /\ ServerLayouts[op].groups[g].fields \in Seq(Kinds)
<1> DEFINE L == [size : Nat, groups : Seq(Group)]
<1>1. ServerLayouts \in Seq(L)
  BY ServerLayoutsAssumption DEF Group
<1>2. op \in 1 .. Len(ServerLayouts) /\ Len(ServerLayouts) \in Nat
  BY <1>1, LenProperties
<1>3. ServerLayouts[op] \in L /\ op \in Nat
  <2> HIDE DEF L
  <2> QED BY <1>1, <1>2, ElementOfSeq
<1> DEFINE groups == ServerLayouts[op].groups
<1>4. groups \in Seq(Group) /\ ServerLayouts[op].size \in Nat
  BY <1>3
<1> HIDE DEF groups, L
<1>5. Len(groups) \in Nat /\ DOMAIN groups = 1 .. Len(groups)
  BY <1>4, LenProperties
<1>6. \A g \in 1 .. Len(groups) : groups[g] \in Group
  BY <1>4, ElementOfSeq
<1>7. \A g \in 1 .. Len(groups) : groups[g].fields \in Seq(Kinds)
  BY <1>6 DEF Group
<1> QED BY <1>3, <1>4, <1>5, <1>6, <1>7 DEF groups

\* The bytes of each group of a message
GroupsWritten(m) ==
    [g \in DOMAIN m.groups |-> GroupBytes(ServerLayouts[m.op].groups[g], m.groups[g])]

\* A message in which each group has blocks that fit its layout
FitsLayout(m) ==
    /\ m.op \in DOMAIN ServerLayouts
    /\ m.groups \in Seq(Seq(Seq(Seq(Byte))))
    /\ Len(m.groups) = Len(ServerLayouts[m.op].groups)
    /\ \A g \in 1 .. Len(m.groups) : AreBlocks(m.groups[g], ServerLayouts[m.op].groups[g])

\* What a packet of a message should contain is the bytes of its groups.
LEMMA GroupsWrittenFacts ==
    ASSUME NEW m, FitsLayout(m)
    PROVE  /\ GroupsWritten(m) \in Seq(Seq(Byte)) /\ Len(GroupsWritten(m)) = Len(m.groups)
           /\ Len(m.groups) \in Nat
           /\ \A g \in 1 .. Len(m.groups) :
                  /\ GroupsWritten(m)[g] = GroupBytes(ServerLayouts[m.op].groups[g], m.groups[g])
                  /\ ServerLayouts[m.op].groups[g] \in Group
                  /\ AreBlocks(m.groups[g], ServerLayouts[m.op].groups[g])
           /\ MessageBytes(m) = FlattenSeq(GroupsWritten(m))
           /\ MessageBytes(m) \in Seq(Byte) /\ Len(MessageBytes(m)) \in Nat
<1> DEFINE n == Len(m.groups)
           groups == ServerLayouts[m.op].groups
           parts == GroupsWritten(m)
<1>1. /\ n \in Nat /\ DOMAIN m.groups = 1 .. n
      /\ \A g \in 1 .. n : groups[g] \in Group /\ AreBlocks(m.groups[g], groups[g])
  BY ServerLayoutFacts, LenProperties DEF FitsLayout
<1>2. \A g \in 1 .. n : GroupBytes(groups[g], m.groups[g]) \in Seq(Byte)
  BY <1>1, GroupBytesFacts
<1>3. parts = [g \in 1 .. n |-> GroupBytes(groups[g], m.groups[g])]
  BY <1>1 DEF GroupsWritten
<1> HIDE DEF parts, n, groups
<1>4. parts \in [1 .. n -> Seq(Byte)] /\ \A g \in 1 .. n : parts[g] = GroupBytes(groups[g], m.groups[g])
  BY <1>2, <1>3
<1>5. parts \in Seq(Seq(Byte)) /\ Len(parts) = n
  BY <1>1, <1>4, FunctionIsSeq
<1>6. MessageBytes(m) = FlattenSeq(parts)
  BY DEF MessageBytes, parts, GroupsWritten
<1>7. FlattenSeq(parts) \in Seq(Byte)
  <2>1. FlattenSeq(parts) = JoinTo(parts)[Len(parts)]
    BY <1>5, FlattenIsJoin
  <2>2. Len(parts) \in 0 .. Len(parts)
    BY <1>1, <1>5
  <2> QED BY <1>5, <2>1, <2>2, JoinFacts
<1> QED BY <1>1, <1>4, <1>5, <1>6, <1>7, LenProperties DEF parts, n, groups

\* And that is what the packet contains.
LEMMA BuildBuilt ==
    ASSUME NEW m, FitsLayout(m)
    PROVE  Built(Build(m), m.op, ServerLayouts[m.op].size, MessageBytes(m))
<1> DEFINE parts == GroupsWritten(m)
           size == ServerLayouts[m.op].size
           groups == ServerLayouts[m.op].groups
           q == GroupsTo(m)
<1>1. m.op \in Nat /\ size \in Nat
  BY ServerLayoutFacts DEF FitsLayout
<1>2. /\ parts \in Seq(Seq(Byte)) /\ Len(parts) = Len(m.groups) /\ Len(m.groups) \in Nat
      /\ \A g \in 1 .. Len(m.groups) :
             /\ parts[g] = GroupBytes(groups[g], m.groups[g])
             /\ groups[g] \in Group /\ AreBlocks(m.groups[g], groups[g])
      /\ MessageBytes(m) = FlattenSeq(parts) /\ MessageBytes(m) \in Seq(Byte)
  BY GroupsWrittenFacts
<1>3. /\ q[0] = NewPacket(m.op, size)
      /\ \A g \in 1 .. Len(m.groups) : q[g] = WriteGroup(q[g - 1], groups[g], m.groups[g])
  BY <1>2, GroupsToDef
<1> HIDE DEF parts, size, groups, q
<1>4. Built(q[0], m.op, size, <<>>)
  <2>1. <<>> \in Seq(Byte) /\ <<>> \in Seq(Seq(Byte)) /\ Len(<<>>) = 0
    OBVIOUS
  <2>2. NewPacket(m.op, size) \in Packet
    BY <1>1, <2>1 DEF NewPacket, Packet
  <2> DEFINE new == NewPacket(m.op, size)
  <2>5. /\ new.opcode = m.op /\ new.writePos = 0 /\ new.data = <<>> /\ new.length = 0 /\ new.size = size
    BY DEF NewPacket
  <2> HIDE DEF new
  <2>3. Padded(<<>>) = <<>>
    BY DEF Padded
  <2>6. Stored(new, size, <<>>) /\ Fitting(new, size, <<>>)
    BY <2>1, <2>3, <2>5, SizeRangeAssumption DEF Stored, Fitting
  <2>4. Built(NewPacket(m.op, size), m.op, size, <<>>)
    BY <2>1, <2>2, <2>5, <2>6 DEF Built, new
  <2> QED BY <1>3, <2>4
<1>5. \A g \in 1 .. Len(parts) : \A written \in Seq(Byte) :
          Built(q[g - 1], m.op, size, written) => Built(q[g], m.op, size, written \o parts[g])
  <2> SUFFICES ASSUME NEW g \in 1 .. Len(parts), NEW written \in Seq(Byte),
                      Built(q[g - 1], m.op, size, written)
               PROVE  Built(q[g], m.op, size, written \o parts[g])
    OBVIOUS
  <2>1. g \in 1 .. Len(m.groups)
    BY <1>2
  <2>2. Built(WriteGroup(q[g - 1], groups[g], m.groups[g]), m.op, size,
              written \o GroupBytes(groups[g], m.groups[g]))
    BY <1>1, <1>2, <2>1, GroupBuilt
  <2> QED BY <1>2, <1>3, <2>1, <2>2, Zenon
<1>6. Built(q[Len(parts)], m.op, size, <<>> \o FlattenSeq(parts))
  BY <1>1, <1>2, <1>4, <1>5, BuiltJoin
<1>7. <<>> \o FlattenSeq(parts) = MessageBytes(m)
  BY <1>2, ConcatEmptySeq
<1> QED BY <1>2, <1>6, <1>7, Zenon DEF Build, q, size

-----------------------------------------------------------------------------
(* Reading a packet of the server. *)

\* A packet that is being read, and bytes that are in it from a position on
Reading(p, data, pos) ==
    /\ p \in Packet /\ ~p.thrown
    /\ p.data = data /\ p.size = Len(data) /\ p.readPos = pos

HasAt(data, pos, bytes) == pos + Len(bytes) <= Len(data) /\ At(data, pos, bytes)

\* Fields that are all there are read as they were written.
LEMMA FieldsReadBack ==
    ASSUME NEW p, NEW data, NEW pos, Reading(p, data, pos),
           NEW kinds \in Seq(Kinds), NEW values, AreValues(values, kinds),
           NEW bytes, bytes = BytesTo(kinds, values)[Len(kinds)], HasAt(data, pos, bytes)
    PROVE  /\ Reading(ReadFields(p, kinds, FALSE), data, pos + Len(bytes))
           /\ ReadFields(p, kinds, FALSE).read = values
<1> DEFINE N == Len(kinds)
           q == ReadTo(p, kinds, FALSE)[N]
<1>1. N \in Nat /\ N \in 0 .. N /\ FALSE \in BOOLEAN
  BY LenProperties
<1>2. /\ p \in Packet /\ ~p.thrown /\ Len(p.data) = p.size /\ p.data = data /\ p.readPos = pos
      /\ p.size = Len(data)
  BY DEF Reading
<1>3. At(p.data, p.readPos, BytesTo(kinds, values)[Len(kinds)]) /\ pos + Len(bytes) <= p.size
  BY <1>2 DEF HasAt
<1> DEFINE end == p.readPos + Len(BytesTo(kinds, values)[N])
<1>4. /\ q \in Packet /\ q.data = p.data /\ q.size = p.size
      /\ ~q.thrown /\ q.readPos = end /\ q.read = SubSeq(values, 1, N)
  <2>1. end <= p.size
    BY <1>2, <1>3
  <2> DEFINE Ok(r) == /\ r \in Packet /\ r.data = p.data /\ r.size = p.size
                      /\ end <= p.size => ~r.thrown /\ r.readPos = end /\ r.read = SubSeq(values, 1, N)
  <2>2. \A strayZero \in BOOLEAN : Ok(ReadTo(p, kinds, strayZero)[N])
    BY <1>1, <1>2, <1>3, ReadToFacts
  <2> HIDE DEF Ok
  <2>3. Ok(q)
    BY <2>2, Zenon
  <2> QED BY <2>1, <2>3 DEF Ok
<1>5. SubSeq(values, 1, N) = values
  BY SubSeqFull DEF AreValues
<1> HIDE DEF q
<1>6. ~q.thrown /\ q.readPos = pos + Len(bytes) /\ q.read = values
  BY <1>2, <1>4, <1>5
<1>7. ReadFields(p, kinds, FALSE) = q
  BY DEF ReadFields, q
<1> QED BY <1>2, <1>4, <1>6, <1>7 DEF Reading

\* So is a count.
LEMMA CountReadBack ==
    ASSUME NEW p, NEW data, NEW pos, Reading(p, data, pos),
           NEW n \in Nat, HasAt(data, pos, Count(n))
    PROVE  CountIn(p).count = n /\ Reading(CountIn(p).packet, data, pos + 4)
<1> DEFINE c == Count(n)
           p2 == [p EXCEPT !.read = <<>>]
           s == SubSeq(data, pos + 1, pos + 4)
           q == Read(p2, 4)
<1>1. c \in Seq(Byte) /\ Len(c) = 4 /\ c[1][1] = n
  BY CountFacts
<1>2. /\ p \in Packet /\ ~p.thrown /\ p.data = data /\ p.size = Len(data) /\ p.readPos = pos
      /\ data \in Seq(Byte) /\ pos \in Nat /\ Len(data) \in Nat
  BY LenProperties DEF Reading, Packet
<1>3. pos + 4 <= Len(data) /\ \A i \in 1 .. 4 : pos + i <= Len(data) => data[pos + i] = c[i]
  BY <1>1 DEF HasAt, At
<1>4. /\ p2 \in Packet /\ ~p2.thrown /\ p2.data = data /\ p2.size = Len(data) /\ p2.readPos = pos
      /\ p2.read = <<>>
  <2>1. <<>> \in Seq(Seq(Byte))
    BY EmptySeq
  <2> QED BY <1>2, <2>1 DEF Packet
<1>5. s = c
  <2>1. pos + 1 \in Int /\ pos + 4 \in Int /\ \A i \in pos + 1 .. pos + 4 : i \in 1 .. Len(data)
    BY <1>2, <1>3
  <2>2. \A i \in pos + 1 .. pos + 4 : data[i] \in Byte
    BY <1>2, <2>1, ElementOfSeq
  <2> DEFINE a == pos + 1
             b == pos + 4
  <2>3. a \in Int /\ b \in Int /\ \A i \in a .. b : data[i] \in Byte
    BY <2>1, <2>2
  <2> HIDE DEF a, b
  <2>4. /\ SubSeq(data, a, b) \in Seq(Byte) /\ Len(SubSeq(data, a, b)) = IF a <= b THEN b - a + 1 ELSE 0
        /\ \A i \in 1 .. b - a + 1 : SubSeq(data, a, b)[i] = data[a + i - 1]
    BY <2>3, SubSeqProperties
  <2>5. a <= b /\ b - a + 1 = 4 /\ \A i \in 1 .. 4 : a + i - 1 = pos + i /\ pos + i <= Len(data)
    BY <1>2, <1>3 DEF a, b
  <2>6. s = SubSeq(data, a, b)
    BY DEF a, b
  <2> HIDE DEF s
  <2>7. s \in Seq(Byte) /\ Len(s) = 4 /\ \A i \in 1 .. 4 : s[i] = data[pos + i]
    BY <2>4, <2>5, <2>6
  <2>8. \A i \in 1 .. Len(s) : s[i] = c[i]
    BY <1>3, <2>5, <2>7
  <2> HIDE DEF c
  <2> QED BY <1>1, <2>7, <2>8, SeqEqual
<1> HIDE DEF s, c
<1>6. q = Took(p2, s, pos + 4)
  <2>1. ~(p2.readPos + 4 > p2.size)
    BY <1>2, <1>3, <1>4
  <2> HIDE DEF p2
  <2> QED BY <1>4, <2>1 DEF Read, s
<1> HIDE DEF p2, q
<1>7. /\ q \in Packet /\ q.data = data /\ q.size = Len(data) /\ ~q.thrown
      /\ q.readPos = pos + 4 /\ q.read = ReadAlso(p2, s)
  <2>1. s \in Seq(Byte) /\ pos + 4 \in Nat
    BY <1>1, <1>2, <1>5
  <2> DEFINE end == pos + 4
  <2>2. end \in Nat /\ q = Took(p2, s, end)
    BY <1>6, <2>1
  <2> HIDE DEF end
  <2> DEFINE t == Took(p2, s, end)
  <2>3. /\ t \in Packet /\ t.data = p2.data /\ t.size = p2.size
        /\ t.thrown <=> p2.thrown
        /\ t.readPos = end /\ t.read = ReadAlso(p2, s)
    <3>1. p2 \in Packet
      BY <1>4
    <3>2. \A value \in Seq(Byte), at \in Nat :
              /\ Took(p2, value, at) \in Packet
              /\ Took(p2, value, at).data = p2.data /\ Took(p2, value, at).size = p2.size
              /\ Took(p2, value, at).thrown <=> p2.thrown
              /\ Took(p2, value, at).readPos = at
              /\ Took(p2, value, at).read = ReadAlso(p2, value)
      <4> TAKE value \in Seq(Byte), at \in Nat
      <4> QED BY <3>1, TookPacket, Zenon
    <3>3. s \in Seq(Byte) /\ end \in Nat
      BY <2>1, <2>2
    <3> QED BY <3>2, <3>3, Zenon
  <2>4. q = t
    BY <2>2
  <2> HIDE DEF t
  <2> QED BY <1>4, <2>3, <2>4 DEF end
<1>8. q.read[1] = c
  <2>1. q.read = Append(<<>>, c)
    BY <1>4, <1>5, <1>7 DEF ReadAlso
  <2> QED BY <2>1
<1>9. CountIn(p) = [packet |-> q, count |-> n]
  <2>1. Width.u32 = 4
    BY DEF Width
  <2>2. q.read[1] = Count(q.read[1][1][1]) /\ q.read[1][1][1] = n
    <3>1. q.read[1][1][1] = n
      BY <1>1, <1>8
    <3> QED BY <1>8, <3>1 DEF c
  <2> QED BY <1>7, <2>1, <2>2, Zenon DEF CountIn, q, p2
<1>10. CountIn(p).count = n /\ CountIn(p).packet = q
  BY <1>9
<1> QED BY <1>7, <1>10 DEF Reading

\* Parts one after the other are each contained.
LEMMA HasParts ==
    ASSUME NEW data \in Seq(Byte), NEW pos \in Nat, NEW parts \in Seq(Seq(Byte)),
           HasAt(data, pos, JoinTo(parts)[Len(parts)]), NEW k \in 1 .. Len(parts)
    PROVE  HasAt(data, pos + Len(JoinTo(parts)[k - 1]), parts[k])
<1> DEFINE b == JoinTo(parts)
           N == Len(parts)
<1>1. N \in Nat /\ N \in 0 .. N /\ k \in 0 .. N /\ k - 1 \in 0 .. N
  BY JoinFacts
<1>2. /\ Len(b[k]) = Len(b[k - 1]) + Len(parts[k]) /\ Len(parts[k]) \in Nat
      /\ Len(b[k]) \in Nat /\ Len(b[k - 1]) \in Nat /\ Len(b[N]) \in Nat
  BY <1>1, JoinFacts
<1>3. Len(b[k]) <= Len(b[N])
  BY <1>1, JoinPrefix
<1>4. pos + Len(b[N]) <= Len(data) /\ At(data, pos, b[N]) /\ Len(data) \in Nat
  BY LenProperties DEF HasAt
<1>5. At(data, pos + Len(b[k - 1]), parts[k])
  BY <1>4, JoinAt
<1> DEFINE x == Len(b[k - 1])
           y == Len(parts[k])
           z == Len(b[k])
           w == Len(b[N])
           L == Len(data)
<1>6. z = x + y /\ x \in Nat /\ y \in Nat /\ w \in Nat /\ z <= w /\ pos + w <= L /\ L \in Nat
  BY <1>2, <1>3, <1>4
<1> HIDE DEF b, N, x, y, z, w, L
<1>7. (pos + x) + y <= L
  BY <1>6
<1> QED BY <1>5, <1>7 DEF HasAt, b, N, x, y, z, w, L

\* Values that are read one after the other, each from its part
ReadsEach(data, parts, values, pk, vl) ==
    /\ vl[0] = <<>>
    /\ \A k \in 1 .. Len(parts) : \A at \in Nat :
           Reading(pk[k - 1], data, at) /\ HasAt(data, at, parts[k]) =>
               /\ Reading(pk[k], data, at + Len(parts[k]))
               /\ vl[k] = Append(vl[k - 1], values[k])

ReadsAll(data, pos, parts, values, pk, vl) ==
    /\ Reading(pk[Len(parts)], data, pos + Len(JoinTo(parts)[Len(parts)]))
    /\ vl[Len(parts)] = values

\* Then all values are read, and the position is behind the parts.
LEMMA ReadJoin ==
    ASSUME NEW data \in Seq(Byte), NEW pos \in Nat, NEW parts \in Seq(Seq(Byte)),
           HasAt(data, pos, JoinTo(parts)[Len(parts)]),
           NEW V, NEW values \in Seq(V), Len(values) = Len(parts), NEW pk, NEW vl,
           Reading(pk[0], data, pos), ReadsEach(data, parts, values, pk, vl)
    PROVE  ReadsAll(data, pos, parts, values, pk, vl)
<1> DEFINE N == Len(parts)
           b == JoinTo(parts)
           Ok(k) == Reading(pk[k], data, pos + Len(b[k])) /\ vl[k] = SubSeq(values, 1, k)
           S == {k \in 0 .. N : Ok(k)}
<1>1. /\ N \in Nat /\ b[0] = <<>>
      /\ \A k \in 0 .. N : Len(b[k]) \in Nat
      /\ \A k \in 1 .. N : Len(b[k]) = Len(b[k - 1]) + Len(parts[k]) /\ Len(parts[k]) \in Nat
  BY JoinFacts
<1>2. \A k \in 1 .. N : HasAt(data, pos + Len(b[k - 1]), parts[k])
  BY HasParts
<1> HIDE DEF b
<1>0. /\ vl[0] = <<>>
      /\ \A k \in 1 .. Len(parts) : \A at \in Nat :
             Reading(pk[k - 1], data, at) /\ HasAt(data, at, parts[k]) =>
                 /\ Reading(pk[k], data, at + Len(parts[k]))
                 /\ vl[k] = Append(vl[k - 1], values[k])
  BY DEF ReadsEach
<1>3. 0 \in S
  <2>1. pos + Len(b[0]) = pos
    BY <1>1
  <2>2. SubSeq(values, 1, 0) = <<>>
    BY SubSeqEmpty
  <2>3. Reading(pk[0], data, pos + Len(b[0])) /\ vl[0] = SubSeq(values, 1, 0)
    BY <1>0, <2>1, <2>2, Zenon
  <2>4. 0 \in 0 .. N
    BY <1>1
  <2> QED BY <2>3, <2>4, Zenon
<1>4. ASSUME NEW k \in 0 .. N - 1, k \in S PROVE k + 1 \in S
  <2>1. k + 1 \in 1 .. N /\ (k + 1) - 1 = k /\ k \in 0 .. N /\ k + 1 \in 0 .. N /\ k \in Nat
    <3>1. N \in Nat
      BY <1>1
    <3> HIDE DEF N
    <3> QED BY <3>1
  <2> DEFINE at == pos + Len(b[k])
             w == parts[k + 1]
  <2>2. at \in Nat /\ at + Len(w) = pos + Len(b[k + 1])
    <3>1. Len(b[k + 1]) = Len(b[k]) + Len(parts[k + 1]) /\ Len(b[k]) \in Nat /\ Len(parts[k + 1]) \in Nat
      BY <1>1, <2>1
    <3> DEFINE x == Len(b[k])
               y == Len(parts[k + 1])
               z == Len(b[k + 1])
    <3>2. z = x + y /\ x \in Nat /\ y \in Nat
      BY <3>1
    <3> HIDE DEF x, y, z
    <3>3. pos + x \in Nat /\ (pos + x) + y = pos + z
      BY <3>2
    <3> QED BY <3>3 DEF x, y, z
  <2>3. Reading(pk[k], data, at) /\ vl[k] = SubSeq(values, 1, k)
    BY <1>4
  <2>4. HasAt(data, at, w)
    BY <1>2, <2>1
  <2>5. \A a \in Nat : Reading(pk[k], data, a) /\ HasAt(data, a, w) =>
            Reading(pk[k + 1], data, a + Len(w)) /\ vl[k + 1] = Append(vl[k], values[k + 1])
    BY <1>0, <2>1
  <2> HIDE DEF at, w
  <2>6. Reading(pk[k + 1], data, at + Len(w)) /\ vl[k + 1] = Append(vl[k], values[k + 1])
    BY <2>2, <2>3, <2>4, <2>5, Zenon
  <2>7. Append(SubSeq(values, 1, k), values[k + 1]) = SubSeq(values, 1, k + 1)
    <3>1. Len(values) \in Nat /\ 1 \in 1 .. Len(values) /\ k + 1 \in 1 .. Len(values)
      BY <1>1, <2>1
    <3>2. SubSeq(values, 1, k + 1) = SubSeq(values, 1, (k + 1) - 1) \o <<values[k + 1]>>
      BY <3>1, SubSeqRecursiveSecond
    <3>3. values[k + 1] \in V /\ \A i \in 1 .. k : values[i] \in V
      <4>1. \A i \in 1 .. Len(values) : values[i] \in V
        BY ElementOfSeq
      <4>2. \A i \in 1 .. k : i \in 1 .. Len(values)
        BY <2>1, <3>1
      <4> QED BY <3>1, <4>1, <4>2
    <3>4. SubSeq(values, 1, k) \in Seq(V)
      BY <2>1, <3>3, SubSeqProperties
    <3>5. Append(SubSeq(values, 1, k), values[k + 1]) = SubSeq(values, 1, k) \o <<values[k + 1]>>
      BY <3>3, <3>4, AppendIsConcat
    <3> QED BY <2>1, <3>2, <3>5
  <2>8. Ok(k + 1)
    <3>1. Reading(pk[k + 1], data, pos + Len(b[k + 1]))
      BY <2>2, <2>6, Zenon
    <3>2. vl[k + 1] = SubSeq(values, 1, k + 1)
      BY <2>3, <2>6, <2>7, Zenon
    <3> QED BY <3>1, <3>2
  <2> HIDE DEF Ok
  <2> QED BY <2>1, <2>8
<1>5. N \in S
  <2> HIDE DEF S
  <2>1. 0 .. N \subseteq S
    BY <1>1, <1>3, <1>4, InductionTo
  <2> QED BY <1>1, <2>1
<1>6. SubSeq(values, 1, N) = values
  BY SubSeqFull
<1> QED BY <1>5, <1>6 DEF ReadsAll, b

\* Two parts one after the other
LEMMA HasTwo ==
    ASSUME NEW data \in Seq(Byte), NEW pos \in Nat, NEW s \in Seq(Byte), NEW t \in Seq(Byte),
           NEW u, u = s \o t, HasAt(data, pos, u)
    PROVE  HasAt(data, pos, s) /\ HasAt(data, pos + Len(s), t) /\ Len(u) = Len(s) + Len(t)
<1> DEFINE a == Len(s)
           b == Len(t)
           L == Len(data)
<1>1. /\ Len(u) = a + b /\ a \in Nat /\ b \in Nat
      /\ \A i \in 1 .. a : u[i] = s[i]
      /\ \A i \in 1 .. b : u[a + i] = t[i]
  BY ByteParts
<1>2. L \in Nat
  BY LenProperties
<1>3. pos + Len(u) <= L /\ \A i \in 1 .. Len(u) : pos + i <= L => data[pos + i] = u[i]
  BY DEF HasAt, At
<1> HIDE DEF a, b, L
<1>4. pos + a <= L /\ (pos + a) + b <= L
  BY <1>1, <1>2, <1>3
<1>5. ASSUME NEW i \in 1 .. a PROVE data[pos + i] = s[i]
  <2>1. i \in 1 .. Len(u) /\ pos + i <= L
    BY <1>1, <1>2, <1>4
  <2> QED BY <1>1, <1>3, <2>1
<1>6. ASSUME NEW i \in 1 .. b PROVE data[(pos + a) + i] = t[i]
  <2>1. a + i \in 1 .. Len(u) /\ pos + (a + i) <= L /\ (pos + a) + i = pos + (a + i)
    BY <1>1, <1>2, <1>4
  <2> QED BY <1>1, <1>3, <2>1
<1> QED BY <1>1, <1>4, <1>5, <1>6 DEF HasAt, At, a, b, L

\* The blocks of a group are read as they were written.
LEMMA BlocksReadBack ==
    ASSUME NEW data \in Seq(Byte), NEW pos \in Nat, NEW p, Reading(p, data, pos),
           NEW group \in Group, NEW blocks, AreBlocks(blocks, group),
           HasAt(data, pos, FlattenSeq(BlocksWritten(group, blocks)))
    PROVE  LET r == BlocksRead(p, group.fields, Len(blocks))[Len(blocks)]
           IN  /\ Reading(r.packet, data, pos + Len(FlattenSeq(BlocksWritten(group, blocks))))
               /\ r.blocks = blocks
<1> DEFINE kinds == group.fields
           n == Len(blocks)
           parts == BlocksWritten(group, blocks)
           r == BlocksRead(p, kinds, n)
           V == Seq(Seq(Byte))
<1>1. /\ parts \in Seq(Seq(Byte)) /\ Len(parts) = n /\ n \in Nat
      /\ \A b \in 1 .. n : parts[b] = BytesTo(kinds, blocks[b])[Len(kinds)]
  BY BlocksWrittenFacts
<1>2. /\ kinds \in Seq(Kinds) /\ blocks \in Seq(V)
      /\ \A b \in 1 .. n : AreValues(blocks[b], kinds)
  BY DEF Group, AreBlocks
<1>3. FlattenSeq(parts) = JoinTo(parts)[n]
  BY <1>1, FlattenIsJoin
<1> HIDE DEF kinds, V
<1>4. /\ r[0] = [packet |-> p, blocks |-> <<>>]
      /\ \A b \in 1 .. n :
             r[b] = [packet |-> ReadFields(r[b - 1].packet, kinds, FALSE),
                     blocks |-> Append(r[b - 1].blocks, ReadFields(r[b - 1].packet, kinds, FALSE).read)]
  <2>1. n \in Nat
    BY <1>1
  <2> HIDE DEF n
  <2> QED BY <2>1, BlocksReadDef, Zenon
<1> HIDE DEF r, n, parts
<1> DEFINE pk == [b \in 0 .. n |-> r[b].packet]
           vl == [b \in 0 .. n |-> r[b].blocks]
<1>5. /\ pk[0] = p /\ vl[0] = <<>>
      /\ \A b \in 1 .. n : /\ pk[b] = ReadFields(pk[b - 1], kinds, FALSE)
                           /\ vl[b] = Append(vl[b - 1], ReadFields(pk[b - 1], kinds, FALSE).read)
      /\ pk[n] = r[n].packet /\ vl[n] = r[n].blocks
  <2>1. 0 \in 0 .. n /\ n \in 0 .. n /\ \A b \in 1 .. n : b \in 0 .. n /\ b - 1 \in 0 .. n
    BY <1>1
  <2>2. \A b \in 0 .. n : pk[b] = r[b].packet /\ vl[b] = r[b].blocks
    OBVIOUS
  <2> HIDE DEF pk, vl
  <2>3. r[0].packet = p /\ r[0].blocks = <<>>
    BY <1>4
  <2>4. ASSUME NEW b \in 1 .. n
        PROVE  /\ pk[b] = ReadFields(pk[b - 1], kinds, FALSE)
               /\ vl[b] = Append(vl[b - 1], ReadFields(pk[b - 1], kinds, FALSE).read)
    <3> DEFINE q == ReadFields(r[b - 1].packet, kinds, FALSE)
               w == Append(r[b - 1].blocks, q.read)
    <3>1. r[b] = [packet |-> q, blocks |-> w]
      BY <1>4
    <3> HIDE DEF q, w
    <3>2. r[b].packet = q /\ r[b].blocks = w
      BY <3>1
    <3>3. /\ pk[b - 1] = r[b - 1].packet
          /\ vl[b - 1] = r[b - 1].blocks
          /\ pk[b] = r[b].packet
          /\ vl[b] = r[b].blocks
      BY <2>1, <2>2
    <3> QED BY <3>2, <3>3, Zenon DEF q, w
  <2> QED BY <2>1, <2>2, <2>3, <2>4
<1> HIDE DEF pk, vl
<1>6. ASSUME NEW b \in 1 .. n, NEW at \in Nat, Reading(pk[b - 1], data, at), HasAt(data, at, parts[b])
      PROVE  Reading(pk[b], data, at + Len(parts[b])) /\ vl[b] = Append(vl[b - 1], blocks[b])
  <2>1. AreValues(blocks[b], kinds) /\ parts[b] = BytesTo(kinds, blocks[b])[Len(kinds)]
    BY <1>1, <1>2
  <2>2. /\ Reading(ReadFields(pk[b - 1], kinds, FALSE), data, at + Len(parts[b]))
        /\ ReadFields(pk[b - 1], kinds, FALSE).read = blocks[b]
    <3> DEFINE v == blocks[b]
               q == pk[b - 1]
    <3>1. AreValues(v, kinds) /\ Reading(q, data, at) /\ kinds \in Seq(Kinds)
      BY <1>2, <1>6, <2>1
    <3> HIDE DEF v, q
    <3>2. \A bytes : bytes = BytesTo(kinds, v)[Len(kinds)] /\ HasAt(data, at, bytes) =>
              Reading(ReadFields(q, kinds, FALSE), data, at + Len(bytes)) /\ ReadFields(q, kinds, FALSE).read = v
      BY <3>1, FieldsReadBack
    <3> QED BY <1>6, <2>1, <3>2, Zenon DEF v, q
  <2> QED BY <1>5, <2>2, Zenon
<1>7. HasAt(data, pos, JoinTo(parts)[Len(parts)])
  BY <1>1, <1>3 DEF parts
<1>8. Reading(pk[0], data, pos)
  BY <1>5
<1>9. ReadsEach(data, parts, blocks, pk, vl)
  BY <1>1, <1>5, <1>6, Zenon DEF ReadsEach
<1>10. Len(blocks) = Len(parts)
  BY <1>1 DEF n
<1>11. /\ Reading(pk[Len(parts)], data, pos + Len(JoinTo(parts)[Len(parts)]))
       /\ vl[Len(parts)] = blocks
  <2>1. ReadsAll(data, pos, parts, blocks, pk, vl)
    BY <1>1, <1>2, <1>7, <1>8, <1>9, <1>10, ReadJoin
  <2> QED BY <2>1 DEF ReadsAll
<1>12. Reading(r[n].packet, data, pos + Len(FlattenSeq(parts))) /\ r[n].blocks = blocks
  BY <1>1, <1>3, <1>5, <1>11, Zenon
<1> QED BY <1>12 DEF r, n, parts, kinds

\* And so is a group with its count.
LEMMA GroupReadBack ==
    ASSUME NEW data \in Seq(Byte), NEW pos \in Nat, NEW p, Reading(p, data, pos),
           NEW group \in Group, NEW blocks, AreBlocks(blocks, group),
           HasAt(data, pos, GroupBytes(group, blocks))
    PROVE  /\ Reading(ReadGroup(p, group).packet, data, pos + Len(GroupBytes(group, blocks)))
           /\ ReadGroup(p, group).blocks = blocks
<1> DEFINE written == FlattenSeq(BlocksWritten(group, blocks))
           n == Len(blocks)
<1>1. written \in Seq(Byte) /\ n \in Nat
  BY BlocksWrittenFacts
<1>2. ~p.thrown
  BY DEF Reading
<1>3. CASE group.counted
  <2> DEFINE c == CountIn(p)
             g == GroupBytes(group, blocks)
  <2>1. g = Count(n) \o written
    BY <1>3, GroupBytesFacts
  <2>2. Count(n) \in Seq(Byte) /\ Len(Count(n)) = 4
    BY <1>1, CountFacts
  <2>3. /\ HasAt(data, pos, Count(n)) /\ HasAt(data, pos + Len(Count(n)), written)
        /\ Len(g) = Len(Count(n)) + Len(written)
    <3> HIDE DEF written, n, g
    <3>1. HasAt(data, pos, g)
      BY DEF g
    <3> DEFINE d == Count(n)
    <3>2. d \in Seq(Byte) /\ g = d \o written
      BY <2>1, <2>2 DEF g
    <3> HIDE DEF d
    <3>3. HasAt(data, pos, d)
      BY <1>1, <3>1, <3>2, HasTwo
    <3>4. HasAt(data, pos + Len(d), written)
      BY <1>1, <3>1, <3>2, HasTwo
    <3>5. Len(g) = Len(d) + Len(written)
      BY <1>1, <3>1, <3>2, HasTwo
    <3> QED BY <3>3, <3>4, <3>5 DEF d, g, n
  <2>4. c.count = n /\ Reading(c.packet, data, pos + 4)
    BY <1>1, <2>3, CountReadBack
  <2> HIDE DEF c
  <2> DEFINE r == BlocksRead(c.packet, group.fields, n)[n]
             at == pos + 4
  <2>5. ReadGroup(p, group) = r
    BY <1>2, <1>3, <2>4 DEF ReadGroup, c
  <2>6. at \in Nat /\ HasAt(data, at, written) /\ Reading(c.packet, data, at)
    BY <2>2, <2>3, <2>4
  <2> HIDE DEF at
  <2>7. Reading(r.packet, data, at + Len(written)) /\ r.blocks = blocks
    BY <2>6, BlocksReadBack
  <2>8. at + Len(written) = pos + Len(g)
    <3> DEFINE w == Len(written)
               v == Len(g)
    <3>1. v = 4 + w /\ w \in Nat
      BY <1>1, <2>2, <2>3, LenProperties
    <3> HIDE DEF w, v
    <3>2. (pos + 4) + w = pos + v
      BY <3>1
    <3> QED BY <3>2 DEF w, v, at
  <2> HIDE DEF r
  <2> QED BY <2>5, <2>7, <2>8, Zenon
<1>4. CASE ~group.counted
  <2> DEFINE r == BlocksRead(p, group.fields, 1)[1]
  <2>1. n = 1 /\ GroupBytes(group, blocks) = written
    BY <1>4, GroupBytesFacts DEF AreBlocks
  <2>2. ReadGroup(p, group) = r
    BY <1>4 DEF ReadGroup
  <2>3. HasAt(data, pos, written)
    BY <2>1, Zenon
  <2>4. LET r2 == BlocksRead(p, group.fields, n)[n]
        IN  Reading(r2.packet, data, pos + Len(written)) /\ r2.blocks = blocks
    BY <2>3, BlocksReadBack
  <2> QED BY <2>1, <2>2, <2>4, Zenon
<1> QED BY <1>3, <1>4

\* What a client understands of a whole packet is the message.
LEMMA UnderstoodBack ==
    ASSUME NEW m \in ServerMessage, NEW data, data = Padded(MessageBytes(m))
    PROVE  Understood(m.op, data) = m
<1> DEFINE parts == GroupsWritten(m)
           groups == ServerLayouts[m.op].groups
           n == Len(m.groups)
           V == Seq(Seq(Seq(Byte)))
           p == ReceivedPacket(m.op, Len(data), data)
           r == GroupsRead(p, groups)
<1>1. FitsLayout(m) /\ m = [op |-> m.op, groups |-> m.groups]
  BY DEF ServerMessage, BuiltMessage, FitsLayout
<1>2. /\ parts \in Seq(Seq(Byte)) /\ Len(parts) = n /\ n \in Nat
      /\ \A g \in 1 .. n : /\ parts[g] = GroupBytes(groups[g], m.groups[g])
                           /\ groups[g] \in Group /\ AreBlocks(m.groups[g], groups[g])
      /\ MessageBytes(m) = FlattenSeq(parts)
      /\ MessageBytes(m) \in Seq(Byte)
  BY <1>1, GroupsWrittenFacts
<1>3. m.groups \in Seq(V) /\ Len(groups) = n /\ m.op \in Nat
  BY <1>1, ServerLayoutFacts DEF FitsLayout
<1>4. data \in Seq(Byte) /\ HasAt(data, 0, MessageBytes(m))
  <2>1. /\ data \in Seq(Byte) /\ Len(MessageBytes(m)) \in Nat /\ Len(MessageBytes(m)) <= Len(data)
        /\ \A i \in 1 .. Len(MessageBytes(m)) : data[i] = MessageBytes(m)[i]
    BY <1>2, PaddedFacts
  <2> DEFINE b == MessageBytes(m)
             L == Len(b)
  <2>2. L \in Nat /\ 0 + L = L /\ \A i \in 1 .. L : 0 + i = i
    BY <2>1
  <2> HIDE DEF b, L
  <2> QED BY <2>1, <2>2 DEF HasAt, At, b, L
<1> HIDE DEF parts, groups, n, V
<1>5. Reading(p, data, 0)
  <2>1. Len(data) \in Nat
    BY <1>4, LenProperties
  <2>2. <<>> \in Seq(Seq(Byte))
    BY EmptySeq
  <2> QED BY <1>3, <1>4, <2>1, <2>2 DEF Reading, ReceivedPacket, NewPacket, Packet
<1> HIDE DEF p
<1>6. /\ r[0] = [packet |-> p, groups |-> <<>>]
      /\ \A g \in 1 .. n :
             r[g] = [packet |-> ReadGroup(r[g - 1].packet, groups[g]).packet,
                     groups |-> Append(r[g - 1].groups, ReadGroup(r[g - 1].packet, groups[g]).blocks)]
  <2>1. Len(groups) \in Nat /\ Len(groups) = n
    BY <1>2, <1>3
  <2>2. /\ r[0] = [packet |-> p, groups |-> <<>>]
        /\ \A g \in 1 .. Len(groups) :
               r[g] = [packet |-> ReadGroup(r[g - 1].packet, groups[g]).packet,
                       groups |-> Append(r[g - 1].groups, ReadGroup(r[g - 1].packet, groups[g]).blocks)]
    BY <2>1, GroupsReadAll, Zenon
  <2> HIDE DEF r
  <2> QED BY <2>1, <2>2
<1> HIDE DEF r
<1> DEFINE pk == [g \in 0 .. n |-> r[g].packet]
           vl == [g \in 0 .. n |-> r[g].groups]
<1>7. /\ pk[0] = p /\ vl[0] = <<>>
      /\ \A g \in 1 .. n : /\ pk[g] = ReadGroup(pk[g - 1], groups[g]).packet
                           /\ vl[g] = Append(vl[g - 1], ReadGroup(pk[g - 1], groups[g]).blocks)
      /\ pk[n] = r[n].packet /\ vl[n] = r[n].groups
  <2>1. 0 \in 0 .. n /\ n \in 0 .. n /\ \A g \in 1 .. n : g \in 0 .. n /\ g - 1 \in 0 .. n
    BY <1>2
  <2>2. \A g \in 0 .. n : pk[g] = r[g].packet /\ vl[g] = r[g].groups
    OBVIOUS
  <2> HIDE DEF pk, vl
  <2>3. r[0].packet = p /\ r[0].groups = <<>>
    BY <1>6
  <2>4. ASSUME NEW g \in 1 .. n
        PROVE  /\ pk[g] = ReadGroup(pk[g - 1], groups[g]).packet
               /\ vl[g] = Append(vl[g - 1], ReadGroup(pk[g - 1], groups[g]).blocks)
    <3> DEFINE q == ReadGroup(r[g - 1].packet, groups[g])
               v == q.packet
               w == Append(r[g - 1].groups, q.blocks)
    <3>1. r[g] = [packet |-> v, groups |-> w]
      BY <1>6
    <3> HIDE DEF q, v, w
    <3>2. r[g].packet = v /\ r[g].groups = w
      BY <3>1
    <3>3. /\ pk[g - 1] = r[g - 1].packet
          /\ vl[g - 1] = r[g - 1].groups
          /\ pk[g] = r[g].packet
          /\ vl[g] = r[g].groups
      BY <2>1, <2>2
    <3> QED BY <3>2, <3>3, Zenon DEF q, v, w
  <2> QED BY <2>1, <2>2, <2>3, <2>4
<1> HIDE DEF pk, vl
<1>8. ASSUME NEW g \in 1 .. n, NEW at \in Nat, Reading(pk[g - 1], data, at), HasAt(data, at, parts[g])
      PROVE  Reading(pk[g], data, at + Len(parts[g])) /\ vl[g] = Append(vl[g - 1], m.groups[g])
  <2>1. /\ parts[g] = GroupBytes(groups[g], m.groups[g])
        /\ groups[g] \in Group
        /\ AreBlocks(m.groups[g], groups[g])
    BY <1>2
  <2>2. HasAt(data, at, GroupBytes(groups[g], m.groups[g]))
    BY <1>8, <2>1, Zenon
  <2>3. /\ Reading(ReadGroup(pk[g - 1], groups[g]).packet, data, at + Len(GroupBytes(groups[g], m.groups[g])))
        /\ ReadGroup(pk[g - 1], groups[g]).blocks = m.groups[g]
    BY <1>4, <1>8, <2>1, <2>2, GroupReadBack
  <2> QED BY <1>7, <2>1, <2>3, Zenon
<1>9. FlattenSeq(parts) = JoinTo(parts)[Len(parts)]
  BY <1>2, FlattenIsJoin
<1>10. HasAt(data, 0, JoinTo(parts)[Len(parts)])
  BY <1>2, <1>4, <1>9
<1>11. Reading(pk[0], data, 0)
  BY <1>5, <1>7
<1>12. ReadsEach(data, parts, m.groups, pk, vl)
  BY <1>2, <1>7, <1>8, Zenon DEF ReadsEach
<1>13. Len(m.groups) = Len(parts)
  BY <1>2 DEF n
<1> DEFINE values == m.groups
<1>14. /\ Reading(pk[Len(parts)], data, 0 + Len(JoinTo(parts)[Len(parts)]))
       /\ vl[Len(parts)] = values
  <2>1. values \in Seq(V) /\ Len(values) = Len(parts) /\ 0 \in Nat
    BY <1>3, <1>13
  <2>2. ReadsEach(data, parts, values, pk, vl)
    BY <1>12
  <2> HIDE DEF values
  <2>3. ReadsAll(data, 0, parts, values, pk, vl)
    BY <1>2, <1>4, <1>10, <1>11, <2>1, <2>2, ReadJoin
  <2> QED BY <2>3 DEF ReadsAll
<1>15. ~r[n].packet.thrown /\ r[n].groups = m.groups
  <2>1. pk[n] = r[n].packet /\ vl[n] = r[n].groups /\ n = Len(parts)
    BY <1>2, <1>7
  <2> QED BY <1>14, <2>1 DEF Reading
<1>16. Understood(m.op, data) = [op |-> m.op, groups |-> m.groups]
  <2>1. Understood(m.op, data) = IF r[Len(groups)].packet.thrown THEN Nonsense
                                 ELSE [op |-> m.op, groups |-> r[Len(groups)].groups]
    BY DEF Understood, r, p, groups
  <2> QED BY <1>3, <1>15, <2>1
<1> QED BY <1>1, <1>16

-----------------------------------------------------------------------------
(* Frames of the server. *)

\* The packets the server builds say what they should.
LEMMA ServerMessagesFacts ==
    ASSUME NEW op \in DOMAIN ServerLayouts, NEW n \in 1 .. MaxSends, NEW m \in ServerMessages(op, n)
    PROVE  m \in BuiltMessage
<1> DEFINE groups == ServerLayouts[op].groups
           N == Len(groups)
<1>1. /\ op \in Nat /\ N \in Nat /\ DOMAIN groups = 1 .. N
      /\ \A g \in 1 .. N : groups[g] \in Group /\ groups[g].fields \in Seq(Kinds)
  BY ServerLayoutFacts
<1>2. n \in Nat
  BY ServerLayoutsAssumption
<1> DEFINE Block(g, b, length) ==
               [f \in DOMAIN groups[g].fields |-> FieldBytes(<<n, g, b, f>>, groups[g].fields[f], length)]
           Blocks(g, count, length) == [b \in 1 .. count |-> Block(g, b, length)]
<1>3. \E length \in TextLengths : \E counts \in [DOMAIN groups -> 0 .. MaxBlocks] :
          /\ \A g \in DOMAIN groups : ~groups[g].counted => counts[g] = 1
          /\ m = [op |-> op, groups |-> [g \in DOMAIN groups |-> Blocks(g, counts[g], length)]]
  BY DEF ServerMessages
<1>4. PICK length \in TextLengths, counts \in [DOMAIN groups -> 0 .. MaxBlocks] :
          /\ \A g \in DOMAIN groups : ~groups[g].counted => counts[g] = 1
          /\ m = [op |-> op, groups |-> [g \in DOMAIN groups |-> Blocks(g, counts[g], length)]]
  <2> HIDE DEF Blocks, groups
  <2> QED BY <1>3
<1>5. length \in Nat
  BY TextLengthsAssumption
<1>6. \A g \in 1 .. N : counts[g] \in Nat /\ (~groups[g].counted => counts[g] = 1)
  <2>1. MaxBlocks \in Nat
    BY ServerLayoutsAssumption
  <2>2. \A g \in DOMAIN groups : counts[g] \in 0 .. MaxBlocks /\ (~groups[g].counted => counts[g] = 1)
    <3> HIDE DEF Blocks, groups, N
    <3>1. \A g \in DOMAIN groups : ~groups[g].counted => counts[g] = 1
      BY <1>4
    <3> QED BY <3>1
  <2> HIDE DEF Blocks, groups, N
  <2>3. \A c \in 0 .. MaxBlocks : c \in Nat
    BY <2>1
  <2> QED BY <1>1, <2>2, <2>3, Zenon
<1> HIDE DEF groups, N
<1>7. ASSUME NEW g \in 1 .. N, NEW b \in Nat
      PROVE  AreValues(Block(g, b, length), groups[g].fields) /\ Block(g, b, length) \in Seq(Seq(Byte))
  <2> DEFINE kinds == groups[g].fields
             v == Block(g, b, length)
  <2>1. kinds \in Seq(Kinds) /\ Len(kinds) \in Nat /\ DOMAIN kinds = 1 .. Len(kinds)
    BY <1>1, LenProperties
  <2>2. ASSUME NEW f \in 1 .. Len(kinds)
        PROVE  IsValue(FieldBytes(<<n, g, b, f>>, kinds[f], length), kinds[f])
    <3>1. kinds[f] \in Kinds
      BY <2>1, ElementOfSeq
    <3>2. <<n, g, b, f>> \in Seq(Nat)
      BY <1>1, <1>2, <2>1
    <3> QED BY <1>5, <3>1, <3>2, FieldBytesIsValue
  <2>3. ASSUME NEW f \in 1 .. Len(kinds)
        PROVE  FieldBytes(<<n, g, b, f>>, kinds[f], length) \in Seq(Byte)
    <3>1. kinds[f] \in Kinds
      BY <2>1, ElementOfSeq
    <3> DEFINE x == FieldBytes(<<n, g, b, f>>, kinds[f], length)
    <3>2. IsValue(x, kinds[f])
      BY <2>2
    <3> HIDE DEF x
    <3>3. x \in Seq(Byte)
      BY <3>1, <3>2, WrittenFacts
    <3> QED BY <3>3 DEF x
  <2>4. v = [f \in 1 .. Len(kinds) |-> FieldBytes(<<n, g, b, f>>, kinds[f], length)]
    BY <2>1
  <2> HIDE DEF v, kinds
  <2>5. v \in [1 .. Len(kinds) -> Seq(Byte)] /\ \A f \in 1 .. Len(kinds) : IsValue(v[f], kinds[f])
    BY <2>2, <2>3, <2>4
  <2>6. v \in Seq(Seq(Byte)) /\ Len(v) = Len(kinds)
    BY <2>1, <2>5, FunctionIsSeq
  <2> QED BY <2>5, <2>6 DEF AreValues, v, kinds
<1>8. ASSUME NEW g \in 1 .. N
      PROVE  /\ AreBlocks(Blocks(g, counts[g], length), groups[g])
             /\ Blocks(g, counts[g], length) \in Seq(Seq(Seq(Byte)))
  <2> DEFINE count == counts[g]
             blocks == Blocks(g, count, length)
  <2>1. count \in Nat /\ (~groups[g].counted => count = 1)
    BY <1>6
  <2>2. \A b \in 1 .. count :
           Block(g, b, length) \in Seq(Seq(Byte)) /\ AreValues(Block(g, b, length), groups[g].fields)
    <3> HIDE DEF Block
    <3> QED BY <1>7, <2>1
  <2> HIDE DEF Block, count
  <2>3. blocks = [b \in 1 .. count |-> Block(g, b, length)]
    OBVIOUS
  <2> HIDE DEF blocks, Blocks
  <2>4. /\ blocks \in [1 .. count -> Seq(Seq(Byte))]
        /\ \A b \in 1 .. count : AreValues(blocks[b], groups[g].fields)
    BY <2>2, <2>3
  <2>5. blocks \in Seq(Seq(Seq(Byte))) /\ Len(blocks) = count
    BY <2>1, <2>4, FunctionIsSeq
  <2> QED BY <2>1, <2>4, <2>5 DEF AreBlocks, blocks, count
<1> HIDE DEF Blocks, Block
<1> DEFINE all == [g \in 1 .. N |-> Blocks(g, counts[g], length)]
<1>9. m = [op |-> op, groups |-> all]
  BY <1>1, <1>4
<1>10. all \in [1 .. N -> Seq(Seq(Seq(Byte)))] /\ \A g \in 1 .. N : AreBlocks(all[g], groups[g])
  BY <1>8
<1> HIDE DEF all
<1>11. all \in Seq(Seq(Seq(Seq(Byte)))) /\ Len(all) = N
  BY <1>1, <1>10, FunctionIsSeq
<1>12. m.op = op /\ m.groups = all
  BY <1>9
<1>13. m \in [op : DOMAIN ServerLayouts, groups : Seq(Seq(Seq(Seq(Byte))))]
  BY <1>9, <1>11
<1>14. ServerLayouts[m.op].size <= Len(MessageBytes(m))
  BY <1>12, SizesAssumption
<1>15. /\ Len(m.groups) = Len(ServerLayouts[m.op].groups)
       /\ \A g \in 1 .. Len(m.groups) : AreBlocks(m.groups[g], ServerLayouts[m.op].groups[g])
  BY <1>10, <1>11, <1>12 DEF groups, N
<1> QED BY <1>13, <1>14, <1>15 DEF BuiltMessage

\* The frame of a message: SendPacket sends neither less nor more than was written.
LEMMA FrameBuilt ==
    ASSUME NEW m \in ServerMessage, NEW data, data = Padded(MessageBytes(m)),
           NEW frame, frame = Frame(Build(m))
    PROVE  /\ m.op \in Nat /\ data \in Seq(Byte) /\ Len(data) \in Nat
           /\ frame \in Seq(Byte) /\ Len(frame) = 4 + Len(data)
           /\ \A i \in 1 .. 4 : frame[i] = <<"header", m.op, Len(data), i>>
           /\ \A i \in 1 .. Len(data) : frame[4 + i] = data[i]
<1> DEFINE p == Build(m)
           bytes == MessageBytes(m)
           size == ServerLayouts[m.op].size
           L == Len(data)
           h == Header(m.op, L)
<1>1. FitsLayout(m) /\ size <= Len(bytes)
  BY DEF ServerMessage, BuiltMessage, FitsLayout
<1>2. m.op \in Nat /\ size \in Nat
  BY <1>1, ServerLayoutFacts DEF FitsLayout
<1>3. bytes \in Seq(Byte) /\ Len(bytes) \in Nat
  BY <1>1, GroupsWrittenFacts
<1>4. /\ p.opcode = m.op /\ p.data = data
      /\ p.size = IF bytes # <<>> /\ size < Len(bytes) + 1 THEN Len(bytes) + 1 ELSE size
  <2>1. Len(bytes) + 1 < SizeRange
    BY DEF ServerMessage, SizeFits
  <2> QED BY <1>1, <2>1, BuildBuilt DEF Built, Fitting
<1>5. data \in Seq(Byte) /\ L \in Nat /\ (bytes # <<>> => L = Len(bytes) + 1) /\ (bytes = <<>> => L = 0)
  BY <1>3, PaddedFacts, LenProperties
<1> HIDE DEF p, bytes, size, L
<1>6. p.size = L
  <2>1. bytes = <<>> => Len(bytes) = 0
    OBVIOUS
  <2> QED BY <1>1, <1>2, <1>3, <1>4, <1>5, <2>1
<1>7. SubSeq(data, 1, L) = data
  BY <1>5, SubSeqFull DEF L
<1>8. h \in Seq(Byte) /\ Len(h) = 4 /\ \A i \in 1 .. 4 : h[i] = <<"header", m.op, L, i>>
  BY <1>2, <1>5, HeaderBytes, Zenon
<1>9. frame = h \o data
  BY <1>4, <1>6, <1>7 DEF Frame, p
<1> HIDE DEF h
<1>10. /\ frame \in Seq(Byte) /\ Len(frame) = Len(h) + Len(data)
       /\ \A i \in 1 .. Len(h) : frame[i] = h[i]
       /\ \A i \in 1 .. Len(data) : frame[Len(h) + i] = data[i]
  <2>1. \A s, t \in Seq(Byte) : frame = s \o t =>
            /\ frame \in Seq(Byte) /\ Len(frame) = Len(s) + Len(t)
            /\ \A i \in 1 .. Len(s) : frame[i] = s[i]
            /\ \A i \in 1 .. Len(t) : frame[Len(s) + i] = t[i]
    BY ByteParts
  <2> QED BY <1>5, <1>8, <1>9, <2>1, Zenon
<1> QED BY <1>2, <1>5, <1>8, <1>10 DEF L

\* Also if the size wraps, there are as many bytes in memory as it says.
LEMMA FrameIsBytes ==
    ASSUME NEW m \in BuiltMessage, NEW frame, frame = Frame(Build(m))
    PROVE  frame \in Seq(Byte) /\ Len(frame) \in Nat /\ Len(frame) # 0
<1> DEFINE p == Build(m)
           bytes == MessageBytes(m)
           size == ServerLayouts[m.op].size
           n == p.size
           part == SubSeq(p.data, 1, n)
           h == Header(m.op, n)
<1>1. FitsLayout(m) /\ size <= Len(bytes)
  BY DEF BuiltMessage, FitsLayout
<1>2. m.op \in Nat /\ m.op \in DOMAIN ServerLayouts /\ size \in Nat
  BY <1>1, ServerLayoutFacts DEF FitsLayout
<1>3. Len(bytes) \in Nat
  BY <1>1, GroupsWrittenFacts
<1>4. p \in Packet /\ p.opcode = m.op /\ Stored(p, size, bytes)
  BY <1>1, BuildBuilt DEF Built
<1>5. size < SizeRange /\ SizeRange \in Nat
  BY <1>2, ServerLayoutsAssumption, SizeRangeAssumption
<1> HIDE DEF p, bytes, size
<1>6. n \in Nat /\ p.data \in Seq(Byte) /\ Len(p.data) \in Nat
  BY <1>4, LenProperties DEF Packet
<1>7. n <= Len(p.data)
  BY <1>1, <1>2, <1>3, <1>4, <1>5, <1>6 DEF Stored
<1> HIDE DEF n
<1>8. part \in Seq(Byte)
  <2>1. \A i \in 1 .. n : p.data[i] \in Byte
    <3> SUFFICES ASSUME NEW i \in 1 .. n PROVE p.data[i] \in Byte
      OBVIOUS
    <3>1. i \in 1 .. Len(p.data)
      BY <1>6, <1>7
    <3> QED BY <1>6, <3>1, ElementOfSeq
  <2>2. n \in Int /\ 1 \in Int
    BY <1>6
  <2> QED BY <2>1, <2>2, SubSeqProperties
<1>9. h \in Seq(Byte) /\ Len(h) = 4
  BY <1>2, <1>6, HeaderBytes, Zenon
<1>10. frame = h \o part
  BY <1>4 DEF Frame, p, n
<1> HIDE DEF h, part
<1>11. frame \in Seq(Byte) /\ Len(frame) = Len(h) + Len(part) /\ Len(part) \in Nat
  <2>1. \A s, t \in Seq(Byte) : frame = s \o t =>
            frame \in Seq(Byte) /\ Len(frame) = Len(s) + Len(t) /\ Len(t) \in Nat
    BY ByteParts
  <2> QED BY <1>8, <1>9, <1>10, <2>1, Zenon
<1> QED BY <1>9, <1>11

\* The same, in a form that provers apply at once
LEMMA FrameBuiltOf ==
    \A m \in ServerMessage :
        /\ m.op \in Nat /\ Padded(MessageBytes(m)) \in Seq(Byte) /\ Len(Padded(MessageBytes(m))) \in Nat
        /\ Frame(Build(m)) \in Seq(Byte) /\ Len(Frame(Build(m))) = 4 + Len(Padded(MessageBytes(m)))
        /\ \A i \in 1 .. 4 : Frame(Build(m))[i] = <<"header", m.op, Len(Padded(MessageBytes(m))), i>>
        /\ \A i \in 1 .. Len(Padded(MessageBytes(m))) :
               Frame(Build(m))[4 + i] = Padded(MessageBytes(m))[i]
<1> TAKE m \in ServerMessage
<1> DEFINE data == Padded(MessageBytes(m))
           frame == Frame(Build(m))
<1>1. data = Padded(MessageBytes(m)) /\ frame = Frame(Build(m))
  OBVIOUS
<1> HIDE DEF data, frame
<1>2. /\ m.op \in Nat /\ data \in Seq(Byte) /\ Len(data) \in Nat
      /\ frame \in Seq(Byte) /\ Len(frame) = 4 + Len(data)
      /\ \A i \in 1 .. 4 : frame[i] = <<"header", m.op, Len(data), i>>
      /\ \A i \in 1 .. Len(data) : frame[4 + i] = data[i]
  BY <1>1, FrameBuilt
<1> QED BY <1>1, <1>2, Zenon

\* What follows does not matter to what lies at the beginning.
LEMMA LaidLonger ==
    ASSUME NEW bytes \in Seq(Byte), NEW end \in Nat, end <= Len(bytes),
           NEW first \in Nat, NEW last \in Nat, first <= last, NEW pieces,
           \A i \in first + 1 .. last : pieces[i] \subseteq Seq(Byte),
           Laid(bytes, end, first, last, pieces),
           NEW bytes2, \A i \in 1 .. Len(bytes) : bytes2[i] = bytes[i]
    PROVE  Laid(bytes2, end, first, last, pieces)
<1>1. PICK ends \in [first .. last -> Nat] :
        /\ ends[first] = 0 /\ ends[last] = end
        /\ \A i, j \in first .. last : i <= j => ends[i] <= ends[j]
        /\ \A i \in first + 1 .. last :
               \E p \in pieces[i] :
                   /\ ends[i] = ends[i - 1] + Len(p)
                   /\ \A j \in 1 .. Len(p) : bytes[ends[i - 1] + j] = p[j]
  BY DEF Laid
<1>2. ASSUME NEW i \in first + 1 .. last
      PROVE  \E p \in pieces[i] :
                 /\ ends[i] = ends[i - 1] + Len(p)
                 /\ \A j \in 1 .. Len(p) : bytes2[ends[i - 1] + j] = p[j]
  <2>1. PICK p \in pieces[i] :
            /\ ends[i] = ends[i - 1] + Len(p)
            /\ \A j \in 1 .. Len(p) : bytes[ends[i - 1] + j] = p[j]
    BY <1>1
  <2>2. i \in first .. last /\ i - 1 \in first .. last /\ last \in first .. last /\ i <= last
    OBVIOUS
  <2>3. ends[i] \in Nat /\ ends[i - 1] \in Nat /\ ends[i] <= end /\ Len(p) \in Nat /\ Len(bytes) \in Nat
    BY <1>1, <2>2, LenProperties
  <2>4. ends[i] <= Len(bytes) /\ ends[i] \in Int /\ Len(bytes) \in Int
    BY <2>3
  <2>5. \A j \in 1 .. Len(p) : ends[i - 1] + j \in 1 .. Len(bytes)
    BY <2>1, <2>3, <2>4, Between
  <2>6. \A j \in 1 .. Len(p) : bytes2[ends[i - 1] + j] = p[j]
    BY <2>1, <2>5
  <2> QED BY <2>1, <2>6
<1> QED BY <1>1, <1>2, Zenon DEF Laid

\* Nothing is pending when all has been decoded.
LEMMA PendingNone ==
    ASSUME NEW M, NEW messages \in Seq(M), NEW n \in Nat, Len(messages) <= n
    PROVE  Pending(messages, n) = <<>>
<1>1. Len(messages) \in Nat
  BY LenProperties
<1>2. n + 1 \in Int /\ Len(messages) \in Int /\ Len(messages) < n + 1
  BY <1>1
<1> QED BY <1>2, SubSeqEmpty DEF Pending

\* A sequence is a prefix of what is appended to it.
LEMMA PrefixAppend ==
    ASSUME NEW M, NEW s \in Seq(M), NEW x \in M, NEW t, t = Append(s, x)
    PROVE  Len(s) <= Len(t) /\ SubSeq(s, 1, Len(s)) = SubSeq(t, 1, Len(s))
<1>1. Len(s) \in Nat /\ t \in Seq(M) /\ Len(t) = Len(s) + 1 /\ \A i \in 1 .. Len(s) : t[i] = s[i]
  BY AppendProperties, LenProperties
<1>2. Len(s) <= Len(t)
  BY <1>1
<1>3. SubSeq(t, 1, Len(s)) = s
  BY <1>1, <1>2, PrefixOf
<1>4. SubSeq(s, 1, Len(s)) = s
  BY SubSeqFull
<1> QED BY <1>2, <1>3, <1>4, Zenon

-----------------------------------------------------------------------------
(* The invariant of the outgoing packets. *)

\* The frame of each message
OutForms(messages) == [i \in DOMAIN messages |-> {Frame(Build(messages[i]))}]

\* The inductive invariant: the frames of what has been sent whole and not been
\* decoded are on the wire, and there is nothing else before a packet is cut.
OutInv ==
    /\ sent \in Seq(ServerMessage) /\ wire \in Seq(Byte) /\ sends \in Nat /\ cut \in BOOLEAN
    /\ \E S : heard \in Seq(S)
    /\ ~cut => Len(heard) <= Len(sent)
    /\ Len(heard) <= Len(sent) =>
           \E end \in 0 .. Len(wire) :
               /\ Laid(wire, end, Len(heard), Len(sent), OutForms(sent))
               /\ ~cut => end = Len(wire)

\* Each message has one frame.
LEMMA OutFormsFacts ==
    ASSUME NEW messages \in Seq(ServerMessage), NEW i \in 1 .. Len(messages)
    PROVE  /\ messages[i] \in ServerMessage
           /\ OutForms(messages)[i] = {Frame(Build(messages[i]))}
           /\ OutForms(messages)[i] \subseteq Seq(Byte)
<1>1. DOMAIN messages = 1 .. Len(messages) /\ messages[i] \in ServerMessage
  BY LenProperties, ElementOfSeq
<1>2. Frame(Build(messages[i])) \in Seq(Byte)
  BY <1>1, FrameBuilt
<1> QED BY <1>1, <1>2 DEF OutForms

\* A connection begins with nothing sent.
THEOREM OutInitInv == OutInit => OutInv
<1> SUFFICES ASSUME OutInit PROVE OutInv
  OBVIOUS
<1>1. wire = <<>> /\ sends = 0 /\ sent = <<>> /\ heard = <<>> /\ cut = FALSE
  BY DEF OutInit
<1>2. Len(<<>>) = 0 /\ <<>> \in Seq(ServerMessage) /\ <<>> \in Seq(Byte) /\ 0 \in 0 .. 0
  OBVIOUS
<1>3. Laid(<<>>, 0, 0, 0, OutForms(<<>>))
  BY LaidNone
<1>4. \E end \in 0 .. Len(wire) :
          /\ Laid(wire, end, Len(heard), Len(sent), OutForms(sent))
          /\ ~cut => end = Len(wire)
  BY <1>1, <1>2, <1>3, Zenon
<1>5. \E S : heard \in Seq(S)
  BY <1>1, <1>2, Zenon
<1>6. sent \in Seq(ServerMessage) /\ wire \in Seq(Byte) /\ sends \in Nat /\ cut \in BOOLEAN
  BY <1>1, <1>2
<1>7. Len(heard) <= Len(sent)
  BY <1>1, <1>2
<1> QED BY <1>4, <1>5, <1>6, <1>7 DEF OutInv

\* A message is sent whole.
LEMMA SendWhole ==
    ASSUME OutInv, NEW m \in ServerMessage, ~cut, ~cut', cut' \in BOOLEAN,
           sends' = sends + 1, sent' = Append(sent, m), heard' = heard,
           wire' = wire \o Frame(Build(m))
    PROVE  OutInv'
<1> DEFINE frame == Frame(Build(m))
           h == Len(heard)
           L == Len(sent)
           forms == OutForms(sent)
           forms2 == OutForms(sent')
<1>1. /\ sent \in Seq(ServerMessage) /\ wire \in Seq(Byte) /\ sends \in Nat
      /\ \E S : heard \in Seq(S)
      /\ h <= L
  BY DEF OutInv
<1>2. \E end \in 0 .. Len(wire) :
               /\ Laid(wire, end, h, L, forms)
               /\ ~cut => end = Len(wire)
  BY <1>1 DEF OutInv
<1>3. Laid(wire, Len(wire), h, L, forms)
  <2> HIDE DEF h, L, forms
  <2> QED BY <1>2
<1>4. frame \in Seq(Byte)
  BY FrameBuilt
<1>5. h \in Nat /\ L \in Nat
  BY <1>1, LenProperties
<1>6. /\ sent' \in Seq(ServerMessage) /\ Len(sent') = L + 1
      /\ \A i \in 1 .. L : sent'[i] = sent[i]
      /\ sent'[L + 1] = m
  BY <1>1, AppendProperties
<1>7. \A i \in h + 1 .. L : forms2[i] = forms[i]
  <2> SUFFICES ASSUME NEW i \in h + 1 .. L PROVE forms2[i] = forms[i]
    OBVIOUS
  <2> HIDE DEF h
  <2>1. i \in 1 .. L /\ i \in 1 .. Len(sent')
    BY <1>5, <1>6
  <2>2. forms[i] = {Frame(Build(sent[i]))}
    BY <1>1, <2>1, OutFormsFacts
  <2>3. forms2[i] = {Frame(Build(sent'[i]))}
    BY <1>6, <2>1, OutFormsFacts
  <2>4. sent'[i] = sent[i]
    BY <1>6, <2>1
  <2> QED BY <2>2, <2>3, <2>4, Zenon
<1>8. frame \in forms2[L + 1]
  <2> HIDE DEF L
  <2>1. L + 1 \in 1 .. Len(sent')
    BY <1>5, <1>6
  <2>2. forms2[L + 1] = {Frame(Build(sent'[L + 1]))}
    BY <1>6, <2>1, OutFormsFacts
  <2>3. forms2[L + 1] = {frame}
    BY <1>6, <2>2, Zenon
  <2> HIDE DEF forms2, frame
  <2> QED BY <2>3
<1> HIDE DEF frame, h, L, forms, forms2
<1>9. Laid(wire \o frame, Len(wire \o frame), h, L + 1, forms2)
  BY <1>1, <1>3, <1>4, <1>5, <1>7, <1>8, LaidAppend
<1>10. wire' = wire \o frame
  BY DEF frame
<1>11. wire' \in Seq(Byte) /\ Len(wire') \in Nat
  <2>1. \A s, t \in Seq(Byte) : wire' = s \o t => wire' \in Seq(Byte) /\ Len(wire') \in Nat
    BY ByteParts
  <2> QED BY <1>1, <1>4, <1>10, <2>1, Zenon
<1>12. Len(heard') = h /\ Len(sent') = L + 1 /\ forms2 = OutForms(sent)'
  BY <1>6 DEF h, forms2
<1>13. Laid(wire', Len(wire'), Len(heard'), Len(sent'), OutForms(sent)')
  BY <1>9, <1>10, <1>12, Zenon
<1>14. Len(wire') \in 0 .. Len(wire')
  BY <1>11
<1>15. Len(heard') <= Len(sent') /\ sends' \in Nat /\ \E S : heard' \in Seq(S)
  BY <1>1, <1>5, <1>12
<1> QED BY <1>6, <1>11, <1>13, <1>14, <1>15, Zenon DEF OutInv

\* A message is lost, or it is cut, or the packet before it was.
LEMMA SendLost ==
    ASSUME OutInv, cut' \in BOOLEAN, cut => cut',
           sends' = sends + 1, sent' = sent, heard' = heard,
           NEW part \in Seq(Byte), wire' = wire \o part, cut' \/ part = <<>>
    PROVE  OutInv'
<1> DEFINE h == Len(heard)
           L == Len(sent)
           forms == OutForms(sent)
<1>1. /\ sent \in Seq(ServerMessage) /\ wire \in Seq(Byte) /\ sends \in Nat
      /\ \E S : heard \in Seq(S)
      /\ ~cut => h <= L
  BY DEF OutInv
<1>2. h \in Nat /\ L \in Nat /\ Len(wire) \in Nat
  BY <1>1, LenProperties
<1>3. /\ wire' \in Seq(Byte) /\ Len(wire') = Len(wire) + Len(part) /\ Len(part) \in Nat
      /\ \A i \in 1 .. Len(wire) : wire'[i] = wire[i]
  <2>1. \A s, t \in Seq(Byte) : wire' = s \o t =>
            /\ wire' \in Seq(Byte) /\ Len(wire') = Len(s) + Len(t) /\ Len(t) \in Nat
            /\ \A i \in 1 .. Len(s) : wire'[i] = s[i]
    BY ByteParts
  <2> QED BY <1>1, <2>1, Zenon
<1>4. ~cut' => Len(wire') = Len(wire)
  <2>1. part = <<>> => Len(part) = 0
    OBVIOUS
  <2> QED BY <1>2, <1>3, <2>1
<1>5. ASSUME h <= L
      PROVE  \E end \in 0 .. Len(wire') : Laid(wire', end, h, L, forms) /\ (~cut' => end = Len(wire'))
  <2>1. PICK end \in 0 .. Len(wire) : Laid(wire, end, h, L, forms) /\ (~cut => end = Len(wire))
    BY <1>5 DEF OutInv
  <2>2. \A i \in h + 1 .. L : forms[i] \subseteq Seq(Byte)
    <3> SUFFICES ASSUME NEW i \in h + 1 .. L PROVE forms[i] \subseteq Seq(Byte)
      OBVIOUS
    <3>1. i \in 1 .. L
      BY <1>2
    <3> QED BY <1>1, <3>1, OutFormsFacts
  <2> HIDE DEF h, L, forms
  <2>3. end \in Nat /\ end <= Len(wire) /\ end \in 0 .. Len(wire')
    BY <1>2, <1>3
  <2>4. Laid(wire', end, h, L, forms)
    BY <1>1, <1>2, <1>3, <1>5, <2>1, <2>2, <2>3, LaidLonger
  <2> QED BY <1>4, <2>1, <2>3, <2>4
<1>6. Len(heard') = h /\ Len(sent') = L /\ OutForms(sent)' = forms
  OBVIOUS
<1>7. ~cut' => h <= L
  BY <1>1
<1>8. sends' \in Nat
  BY <1>1
<1>9. sent' \in Seq(ServerMessage) /\ \E S : heard' \in Seq(S)
  BY <1>1
<1>10. Len(heard') <= Len(sent') =>
           \E end \in 0 .. Len(wire') :
               /\ Laid(wire', end, Len(heard'), Len(sent'), OutForms(sent)')
               /\ ~cut' => end = Len(wire')
  BY <1>5, <1>6, Zenon
<1>11. ~cut' => Len(heard') <= Len(sent')
  BY <1>6, <1>7, Zenon
<1> HIDE DEF h, L, forms
<1> QED BY <1>3, <1>8, <1>9, <1>10, <1>11, Zenon DEF OutInv

\* SendPacket sends all of a frame, or a part of it, or nothing, or a frame with a
\* size that has wrapped.
LEMMA SendStep ==
    ASSUME OutInv, NEW m \in BuiltMessage, SendPacket(m)
    PROVE  /\ OutInv' /\ heard' = heard
           /\ \/ m \in ServerMessage /\ ~cut /\ ~cut' /\ sent' = Append(sent, m)
              \/ (cut => cut') /\ cut' \in BOOLEAN /\ sent' = sent
<1> DEFINE frame == Frame(Build(m))
           n == Len(frame)
<1>1. PICK k \in TakenBySend(n) :
          /\ wire' = wire \o SubSeq(frame, 1, k)
          /\ sent' = IF (k = n /\ SizeFits(m)) /\ ~cut THEN Append(sent, m) ELSE sent
          /\ cut'  = (cut \/ (k # 0 /\ ~(k = n /\ SizeFits(m))))
  BY DEF SendPacket
<1>2. sends' = sends + 1 /\ heard' = heard /\ cut \in BOOLEAN
  BY DEF SendPacket, OutInv
<1>3. frame \in Seq(Byte) /\ n \in Nat /\ n # 0
  BY FrameIsBytes
<1>4. k \in 0 .. n /\ cut' \in BOOLEAN
  <2> HIDE DEF frame, n
  <2>1. k \in {0, n} \cup (Cuts \cap 1 .. n - 1)
    BY DEF TakenBySend
  <2> QED BY <1>1, <1>2, <1>3, <2>1
<1> DEFINE part == SubSeq(frame, 1, k)
<1>5. part \in Seq(Byte) /\ (k = n => part = frame) /\ (k = 0 => part = <<>>)
  <2>1. \A i \in 1 .. k : frame[i] \in Byte
    BY <1>3, <1>4, ElementOfSeq
  <2>2. k \in Int /\ 1 \in Int /\ (k = 0 => k < 1)
    BY <1>3, <1>4
  <2>3. part \in Seq(Byte)
    BY <2>1, <2>2, SubSeqProperties
  <2>4. k = 0 => part = <<>>
    BY <2>2, SubSeqEmpty
  <2>5. SubSeq(frame, 1, n) = frame
    BY <1>3, SubSeqFull
  <2> HIDE DEF n, frame
  <2> QED BY <2>3, <2>4, <2>5
<1> HIDE DEF n
<1>6. CASE (k = n /\ SizeFits(m)) /\ ~cut
  <2>1. ~cut' /\ sent' = Append(sent, m)
    BY <1>1, <1>6
  <2>2. wire' = wire \o frame
    BY <1>1, <1>5, <1>6, Zenon
  <2>3. m \in ServerMessage
    BY <1>6 DEF ServerMessage
  <2>4. OutInv'
    BY <1>2, <1>4, <1>6, <2>1, <2>2, <2>3, SendWhole
  <2> QED BY <1>2, <1>6, <2>1, <2>3, <2>4
<1>7. CASE ~((k = n /\ SizeFits(m)) /\ ~cut)
  <2>1. sent' = sent /\ (cut => cut') /\ wire' = wire \o part
    BY <1>1, <1>7
  <2>2. cut' \/ part = <<>>
    <3> HIDE DEF part
    <3> QED BY <1>1, <1>5, <1>7
  <2> HIDE DEF part
  <2>3. OutInv'
    BY <1>2, <1>4, <1>5, <2>1, <2>2, SendLost
  <2> QED BY <1>2, <1>4, <2>1, <2>3
<1> QED BY <1>6, <1>7

-----------------------------------------------------------------------------
(* What the client decodes. *)

\* What the client takes for a frame
LEMMA DecodesFacts ==
    ASSUME OutInv, ClientDecodes
    PROVE  \E op \in Nat, size \in Nat :
               /\ 4 + size <= Len(wire) /\ Len(wire) \in Nat
               /\ wire[1] = <<"header", op, size, 1>>
               /\ heard' = Append(heard, Understood(op, SubSeq(wire, 5, 4 + size)))
               /\ wire' = SubSeq(wire, 4 + size + 1, Len(wire)) /\ wire' \in Seq(Byte)
               /\ UNCHANGED <<sends, sent, cut>>
<1> DEFINE first == SubSeq(wire, 1, 4)
<1>1. wire \in Seq(Byte) /\ Len(wire) \in Nat
  BY LenProperties DEF OutInv
<1>2. /\ Len(wire) >= 4 /\ IsHeader(first) /\ Len(wire) >= 4 + first[1][3]
      /\ heard' = Append(heard, Understood(first[1][2], SubSeq(wire, 4 + 1, 4 + first[1][3])))
      /\ wire'  = SubSeq(wire, 4 + first[1][3] + 1, Len(wire))
      /\ UNCHANGED <<sends, sent, cut>>
  BY DEF ClientDecodes, HeaderSize
<1>3. first \in Seq(Byte) /\ Len(first) = 4 /\ first[1] = wire[1]
  <2>1. \A i \in 1 .. 4 : wire[i] \in Byte
    BY <1>1, <1>2, ElementOfSeq
  <2>2. /\ first \in Seq(Byte) /\ Len(first) = IF 1 <= 4 THEN 4 - 1 + 1 ELSE 0
        /\ \A i \in 1 .. 4 - 1 + 1 : first[i] = wire[1 + i - 1]
    BY <2>1, SubSeqProperties
  <2> HIDE DEF first
  <2>3. 1 \in 1 .. 4 - 1 + 1 /\ 1 + 1 - 1 = 1
    OBVIOUS
  <2>4. first[1] = wire[1 + 1 - 1]
    BY <2>2, <2>3
  <2> QED BY <2>2, <2>3, <2>4
<1> HIDE DEF first
<1>4. first = Header(first[1][2], first[1][3]) /\ Len(first[1]) = 4
  BY <1>2 DEF IsHeader
<1>5. first[1] \in Byte
  <2>1. 1 \in 1 .. Len(first)
    BY <1>3
  <2> QED BY <1>3, <2>1, ElementOfSeq
<1>6. PICK op \in Nat, size \in Nat, i \in 1 .. 4 : first[1] = <<"header", op, size, i>>
  BY <1>4, <1>5, HeaderByte
<1>7. first[1][2] = op /\ first[1][3] = size
  BY <1>6
<1>8. first[1] = <<"header", op, size, 1>>
  <2>1. first = Header(op, size)
    BY <1>4, <1>7
  <2>2. 1 \in 1 .. 4
    OBVIOUS
  <2>3. Header(op, size)[1] = <<"header", op, size, 1>>
    BY <2>2, HeaderBytes, Zenon
  <2> QED BY <2>1, <2>3, Zenon
<1>9. 4 + size <= Len(wire)
  BY <1>1, <1>2, <1>7
<1>10. wire' = SubSeq(wire, 4 + size + 1, Len(wire))
  BY <1>2, <1>7
<1>11. wire' \in Seq(Byte)
  <2> DEFINE k == 4 + size
  <2>1. k \in Nat /\ k <= Len(wire) /\ wire' = SubSeq(wire, k + 1, Len(wire))
    BY <1>9, <1>10
  <2> HIDE DEF k
  <2>2. SubSeq(wire, k + 1, Len(wire)) \in Seq(Byte)
    BY <1>1, <2>1, RestFacts
  <2> QED BY <2>1, <2>2
<1>12. heard' = Append(heard, Understood(op, SubSeq(wire, 5, 4 + size)))
  <2>1. 4 + 1 = 5
    OBVIOUS
  <2> QED BY <1>2, <1>7, <2>1
<1> QED BY <1>1, <1>2, <1>3, <1>8, <1>9, <1>10, <1>11, <1>12

\* The frame of the next message is decoded to that message.
LEMMA DecodesNext ==
    ASSUME OutInv, Len(heard) < Len(sent), ClientDecodes
    PROVE  OutInv' /\ UNCHANGED <<sent, cut>> /\ heard' = Append(heard, sent[Len(heard) + 1])
<1> DEFINE h == Len(heard)
           L == Len(sent)
           forms == OutForms(sent)
           m == sent[h + 1]
<1>1. /\ sent \in Seq(ServerMessage) /\ wire \in Seq(Byte) /\ sends \in Nat /\ cut \in BOOLEAN
  BY DEF OutInv
<1>2. PICK S : heard \in Seq(S)
  BY DEF OutInv
<1>3. h \in Nat /\ L \in Nat /\ Len(wire) \in Nat /\ h < L /\ h <= L /\ h + 1 \in 1 .. L
  BY <1>1, <1>2, LenProperties
<1>4. PICK end \in 0 .. Len(wire) : Laid(wire, end, h, L, forms) /\ (~cut => end = Len(wire))
  BY <1>3 DEF OutInv
<1>5. \A i \in h + 1 .. L : forms[i] \subseteq Seq(Byte)
  <2> SUFFICES ASSUME NEW i \in h + 1 .. L PROVE forms[i] \subseteq Seq(Byte)
    OBVIOUS
  <2>1. i \in 1 .. L
    BY <1>3
  <2> QED BY <1>1, <2>1, OutFormsFacts
<1>6. m \in ServerMessage /\ forms[h + 1] = {Frame(Build(m))}
  BY <1>1, <1>3, OutFormsFacts
<1> HIDE DEF h, L, forms, m
<1>7. end \in Nat /\ end <= Len(wire)
  BY <1>3
<1>8. PICK frame \in forms[h + 1] :
          /\ Len(frame) <= end
          /\ \A j \in 1 .. Len(frame) : wire[j] = frame[j]
          /\ Laid(SubSeq(wire, Len(frame) + 1, Len(wire)), end - Len(frame), h + 1, L, forms)
  BY <1>1, <1>3, <1>4, <1>5, <1>7, LaidFirst
<1>9. frame = Frame(Build(m))
  BY <1>6
<1> DEFINE data == Padded(MessageBytes(m))
<1>10. /\ m.op \in Nat /\ data \in Seq(Byte) /\ Len(data) \in Nat
       /\ frame \in Seq(Byte) /\ Len(frame) = 4 + Len(data)
       /\ \A i \in 1 .. 4 : frame[i] = <<"header", m.op, Len(data), i>>
       /\ \A i \in 1 .. Len(data) : frame[4 + i] = data[i]
  <2>1. data = Padded(MessageBytes(m))
    OBVIOUS
  <2> HIDE DEF data
  <2>2. m \in ServerMessage
    BY <1>6
  <2>3. /\ m.op \in Nat /\ Padded(MessageBytes(m)) \in Seq(Byte) /\ Len(Padded(MessageBytes(m))) \in Nat
        /\ Frame(Build(m)) \in Seq(Byte) /\ Len(Frame(Build(m))) = 4 + Len(Padded(MessageBytes(m)))
        /\ \A i \in 1 .. 4 : Frame(Build(m))[i] = <<"header", m.op, Len(Padded(MessageBytes(m))), i>>
        /\ \A i \in 1 .. Len(Padded(MessageBytes(m))) :
               Frame(Build(m))[4 + i] = Padded(MessageBytes(m))[i]
    BY <2>2, FrameBuiltOf, Zenon
  <2> QED BY <1>9, <2>1, <2>3, Zenon
<1>11. Understood(m.op, data) = m
  BY <1>6, UnderstoodBack
<1> HIDE DEF data
<1>12. PICK op \in Nat, size \in Nat :
               /\ 4 + size <= Len(wire) /\ Len(wire) \in Nat
               /\ wire[1] = <<"header", op, size, 1>>
               /\ heard' = Append(heard, Understood(op, SubSeq(wire, 5, 4 + size)))
               /\ wire' = SubSeq(wire, 4 + size + 1, Len(wire)) /\ wire' \in Seq(Byte)
               /\ UNCHANGED <<sends, sent, cut>>
  BY DecodesFacts
<1>13. op = m.op /\ size = Len(data)
  <2>1. 1 \in 1 .. Len(frame) /\ 1 \in 1 .. 4
    BY <1>10
  <2>2. <<"header", op, size, 1>> = <<"header", m.op, Len(data), 1>>
    BY <1>8, <1>10, <1>12, <2>1
  <2> QED BY <2>2
<1>14. SubSeq(wire, 5, 4 + size) = data
  <2> DEFINE e == 4 + size
             s == SubSeq(wire, 5, e)
  <2>1. e \in Nat /\ e <= Len(wire) /\ e - 5 + 1 = size /\ e = Len(frame)
    BY <1>10, <1>12, <1>13
  <2>2. \A i \in 5 .. e : wire[i] \in Byte
    <3> SUFFICES ASSUME NEW i \in 5 .. e PROVE wire[i] \in Byte
      OBVIOUS
    <3>1. i \in 1 .. Len(wire)
      BY <1>3, <2>1
    <3> QED BY <1>1, <3>1, ElementOfSeq
  <2>3. 5 \in Int /\ e \in Int /\ (5 <= e => e - 5 + 1 = size) /\ (~(5 <= e) => size = 0)
    BY <2>1
  <2> HIDE DEF e
  <2>4. /\ s \in Seq(Byte) /\ Len(s) = IF 5 <= e THEN e - 5 + 1 ELSE 0
        /\ \A i \in 1 .. e - 5 + 1 : s[i] = wire[5 + i - 1]
    BY <2>2, <2>3, SubSeqProperties
  <2> HIDE DEF s
  <2>5. Len(s) = size
    BY <2>3, <2>4
  <2>6. ASSUME NEW i \in 1 .. size PROVE s[i] = data[i]
    <3>1. 5 + i - 1 = 4 + i /\ 4 + i \in 1 .. Len(frame) /\ i \in 1 .. e - 5 + 1 /\ i \in 1 .. Len(data)
      BY <1>10, <1>13, <2>1
    <3>2. s[i] = wire[4 + i]
      BY <2>4, <3>1
    <3>3. wire[4 + i] = frame[4 + i]
      BY <1>8, <3>1
    <3> QED BY <1>10, <3>1, <3>2, <3>3
  <2>7. s = data
    BY <1>10, <1>13, <2>4, <2>5, <2>6, SeqEqual
  <2> QED BY <2>7 DEF s, e
<1>15. heard' = Append(heard, m) /\ UNCHANGED <<sends, sent, cut>>
  <2>1. Understood(op, SubSeq(wire, 5, 4 + size)) = m
    BY <1>11, <1>13, <1>14
  <2> QED BY <1>12, <2>1
<1>16. wire' = SubSeq(wire, Len(frame) + 1, Len(wire)) /\ wire' \in Seq(Byte)
  <2>1. 4 + size = Len(frame)
    BY <1>10, <1>13
  <2> QED BY <1>12, <2>1, Zenon
<1>17. Len(wire') = Len(wire) - Len(frame)
  <2>1. Len(frame) \in Nat /\ Len(frame) <= Len(wire)
    BY <1>3, <1>7, <1>8, <1>10
  <2> QED BY <1>1, <1>16, <2>1, RestFacts
<1>18. heard' \in Seq(S \cup {m}) /\ Len(heard') = h + 1
  <2>1. heard \in Seq(S \cup {m}) /\ m \in S \cup {m}
    BY <1>2
  <2> DEFINE T == S \cup {m}
  <2>2. heard \in Seq(T) /\ m \in T
    BY <2>1
  <2> HIDE DEF T
  <2>3. heard' \in Seq(T) /\ Len(heard') = Len(heard) + 1
    BY <1>15, <2>2, AppendProperties
  <2> QED BY <2>3 DEF T, h
<1>19. /\ Len(sent') = L /\ OutForms(sent)' = forms /\ sent' \in Seq(ServerMessage)
       /\ sends' \in Nat /\ cut' \in BOOLEAN /\ cut' = cut
  BY <1>1, <1>15 DEF L, forms
<1> DEFINE end2 == end - Len(frame)
<1>20. end2 \in 0 .. Len(wire') /\ (~cut' => end2 = Len(wire'))
  <2>1. Len(frame) \in Nat
    BY <1>10
  <2> DEFINE l == Len(frame)
             w == Len(wire)
             w2 == Len(wire')
  <2>2. l \in Nat /\ w \in Nat /\ w2 = w - l /\ end \in Nat /\ end <= w /\ l <= end
    BY <1>3, <1>7, <1>8, <1>17, <2>1
  <2>3. ~cut' => end = w
    BY <1>4, <1>19
  <2> HIDE DEF l, w, w2
  <2>4. end - l \in 0 .. w2 /\ (~cut' => end - l = w2)
    BY <2>2, <2>3
  <2> QED BY <2>4 DEF l, w, w2
<1> HIDE DEF end2
<1>21. Laid(wire', end2, Len(heard'), Len(sent'), OutForms(sent)')
  BY <1>8, <1>16, <1>18, <1>19, Zenon DEF end2
<1>22. Len(heard') <= Len(sent')
  BY <1>3, <1>18, <1>19
<1>23. \E T : heard' \in Seq(T)
  BY <1>18
<1>24. OutInv'
  BY <1>16, <1>19, <1>20, <1>21, <1>22, <1>23, Zenon DEF OutInv
<1> QED BY <1>15, <1>24, Zenon DEF m, h

\* After the messages before a cut, anything may be decoded.
LEMMA DecodesMore ==
    ASSUME OutInv, ~(Len(heard) < Len(sent)), ClientDecodes
    PROVE  /\ OutInv' /\ UNCHANGED <<sent, cut>> /\ cut
           /\ Len(sent) <= Len(heard) /\ Len(heard) \in Nat /\ Len(heard') = Len(heard) + 1
           /\ Len(heard) <= Len(heard') /\ SubSeq(heard, 1, Len(heard)) = SubSeq(heard', 1, Len(heard))
<1> DEFINE h == Len(heard)
           L == Len(sent)
<1>1. /\ sent \in Seq(ServerMessage) /\ wire \in Seq(Byte) /\ sends \in Nat /\ cut \in BOOLEAN
      /\ ~cut => h <= L
  BY DEF OutInv
<1>2. PICK S : heard \in Seq(S)
  BY DEF OutInv
<1>3. h \in Nat /\ L \in Nat /\ Len(wire) \in Nat /\ L <= h
  BY <1>1, <1>2, LenProperties
<1>4. PICK op \in Nat, size \in Nat :
               /\ 4 + size <= Len(wire) /\ Len(wire) \in Nat
               /\ wire[1] = <<"header", op, size, 1>>
               /\ heard' = Append(heard, Understood(op, SubSeq(wire, 5, 4 + size)))
               /\ wire' = SubSeq(wire, 4 + size + 1, Len(wire)) /\ wire' \in Seq(Byte)
               /\ UNCHANGED <<sends, sent, cut>>
  BY DecodesFacts
<1>5. cut
  <2> SUFFICES ASSUME ~cut PROVE FALSE
    OBVIOUS
  <2>1. h = L
    BY <1>1, <1>3
  <2>2. PICK end \in 0 .. Len(wire) : Laid(wire, end, h, L, OutForms(sent)) /\ end = Len(wire)
    BY <1>1 DEF OutInv
  <2> HIDE DEF h, L
  <2>3. end # 0 /\ h <= L
    BY <1>3, <1>4, <2>1, <2>2
  <2>4. h < L
    BY <1>3, <2>2, <2>3, LaidSome
  <2> QED BY <1>3, <2>1, <2>4
<1> DEFINE x == Understood(op, SubSeq(wire, 5, 4 + size))
           T == S \cup {x}
<1>6. heard' = Append(heard, x)
  BY <1>4
<1> HIDE DEF x
<1>7. heard \in Seq(T) /\ x \in T
  BY <1>2
<1> HIDE DEF T
<1>8. heard' \in Seq(T) /\ Len(heard') = h + 1
  BY <1>6, <1>7, AppendProperties
<1>9. Len(heard) <= Len(heard') /\ SubSeq(heard, 1, Len(heard)) = SubSeq(heard', 1, Len(heard))
  BY <1>6, <1>7, PrefixAppend
<1>10. ~(Len(heard') <= Len(sent')) /\ cut'
  BY <1>3, <1>4, <1>5, <1>8
<1>11. /\ sent' \in Seq(ServerMessage)
       /\ wire' \in Seq(Byte)
       /\ sends' \in Nat
       /\ cut' \in BOOLEAN
       /\ UNCHANGED <<sent, cut>>
  BY <1>1, <1>4
<1>12. OutInv'
  BY <1>8, <1>10, <1>11, Zenon DEF OutInv
<1> QED BY <1>3, <1>5, <1>8, <1>9, <1>11, <1>12

-----------------------------------------------------------------------------
(* The channel of the outgoing packets. *)

\* What the channel's queue and state are for the outgoing packets
OutQueue == Pending(sent, Len(heard))
OutState == IF cut THEN "cut" ELSE "open"

\* A packet that send() took whole is sent on the channel.
LEMMA OutSend ==
    ASSUME OutInv, NEW m \in ServerMessage, ~cut, ~cut', sent' = Append(sent, m), heard' = heard
    PROVE  OutChannel!Send
<1>1. sent \in Seq(ServerMessage) /\ Len(heard) <= Len(sent) /\ Len(heard) \in Nat
  BY LenProperties DEF OutInv
<1>2. /\ Len(Pending(sent', Len(heard))) = Len(Pending(sent, Len(heard))) + 1
      /\ IsPrefix(Pending(sent, Len(heard)), Pending(sent', Len(heard)))
  BY <1>1, PendingMore
<1>3. OutQueue = Pending(sent, Len(heard)) /\ OutQueue' = Pending(sent', Len(heard))
  BY DEF OutQueue
<1>4. OutState = "open" /\ UNCHANGED <<heard, OutState>>
  BY DEF OutState
<1>5. Len(OutQueue') = Len(OutQueue) + 1 /\ OutChannel!IsPrefix(OutQueue, OutQueue')
  <2>1. IsPrefix(OutQueue, OutQueue')
    BY <1>2, <1>3
  <2>2. OutChannel!IsPrefix(OutQueue, OutQueue')
    BY <2>1 DEF IsPrefix, OutChannel!IsPrefix
  <2> QED BY <1>2, <1>3, <2>2
<1> QED BY <1>4, <1>5, Zenon DEF OutChannel!Send, OutQueue, OutState, Pending

\* A packet that is lost changes nothing, and one that is cut closes the channel.
LEMMA OutLost ==
    ASSUME cut \in BOOLEAN, cut' \in BOOLEAN, cut => cut', sent' = sent, heard' = heard
    PROVE  [OutChannel!Next]_(OutChannel!vars)
<1>1. UNCHANGED <<OutQueue, heard>>
  BY DEF OutQueue, Pending
<1>2. CASE cut' = cut
  <2>1. UNCHANGED <<OutQueue, heard, OutState>>
    BY <1>1, <1>2 DEF OutState
  <2>2. UNCHANGED OutChannel!vars
    BY <2>1, Zenon DEF OutChannel!vars, OutQueue, OutState, Pending
  <2> QED BY <2>2
<1>3. CASE cut' # cut
  <2>1. OutState = "open" /\ OutState' = "cut"
    BY <1>3 DEF OutState
  <2>2. OutChannel!Cut
    BY <1>1, <2>1, Zenon DEF OutChannel!Cut, OutQueue, OutState, Pending
  <2> QED BY <2>2 DEF OutChannel!Next
<1> QED BY <1>2, <1>3

\* A packet that is decoded is delivered by it.
LEMMA OutDeliver ==
    ASSUME OutInv, Len(heard) < Len(sent), UNCHANGED <<sent, cut>>,
           heard' = Append(heard, sent[Len(heard) + 1])
    PROVE  OutChannel!Deliver
<1>1. sent \in Seq(ServerMessage) /\ Len(heard) \in Nat /\ Len(sent) \in Nat
  BY LenProperties DEF OutInv
<1>2. Len(heard') = Len(heard) + 1
  <2>1. PICK S : heard \in Seq(S)
    BY DEF OutInv
  <2> DEFINE T == S \cup {sent[Len(heard) + 1]}
  <2>2. heard \in Seq(T) /\ sent[Len(heard) + 1] \in T
    BY <2>1
  <2> HIDE DEF T
  <2> QED BY <2>2, AppendProperties
<1>3. /\ Pending(sent, Len(heard)) # <<>>
      /\ Head(Pending(sent, Len(heard))) = sent[Len(heard) + 1]
      /\ Tail(Pending(sent, Len(heard))) = Pending(sent, Len(heard) + 1)
  BY <1>1, PendingLess
<1>4. OutQueue = Pending(sent, Len(heard)) /\ OutQueue' = Pending(sent, Len(heard) + 1)
  BY <1>2 DEF OutQueue
<1>5. OutState # "closed" /\ UNCHANGED OutState
  BY DEF OutState
<1>6. OutQueue # <<>> /\ heard' = Append(heard, Head(OutQueue)) /\ OutQueue' = Tail(OutQueue)
  BY <1>3, <1>4
<1> QED BY <1>5, <1>6, Zenon DEF OutChannel!Deliver, OutQueue, OutState, Pending

\* What is decoded behind a cut is garbled.
LEMMA OutGarble ==
    ASSUME OutInv, ~(Len(heard) < Len(sent)), ClientDecodes
    PROVE  OutInv' /\ OutChannel!Garble
<1>1. /\ OutInv' /\ UNCHANGED <<sent, cut>> /\ cut
      /\ Len(sent) <= Len(heard) /\ Len(heard) \in Nat /\ Len(heard') = Len(heard) + 1
      /\ Len(heard) <= Len(heard') /\ SubSeq(heard, 1, Len(heard)) = SubSeq(heard', 1, Len(heard))
  BY DecodesMore
<1>2. sent \in Seq(ServerMessage) /\ sent' = sent
  BY <1>1 DEF OutInv
<1>3. OutQueue = <<>>
  BY <1>1, <1>2, PendingNone DEF OutQueue
<1>4. OutQueue' = <<>>
  <2>1. Len(heard') \in Nat /\ Len(sent) <= Len(heard') /\ Len(sent) \in Nat
    BY <1>1, <1>2, LenProperties
  <2>2. Pending(sent, Len(heard')) = <<>>
    BY <1>2, <2>1, PendingNone
  <2> QED BY <1>2, <2>2 DEF OutQueue
<1>5. OutState = "cut" /\ UNCHANGED OutState
  BY <1>1 DEF OutState
<1>6. OutChannel!IsPrefix(heard, heard')
  BY <1>1 DEF OutChannel!IsPrefix
<1>7. UNCHANGED <<OutQueue, OutState>>
  BY <1>3, <1>4, <1>5
<1>8. OutChannel!Garble
  BY <1>3, <1>5, <1>6, <1>7, Zenon DEF OutChannel!Garble, OutQueue, OutState, Pending
<1> QED BY <1>1, <1>8

\* Every step of the server and of the client preserves the invariant and is a
\* step of the channel.
THEOREM OutInvStep ==
    ASSUME OutInv, [OutNext]_outVars
    PROVE  OutInv' /\ [OutChannel!Next]_(OutChannel!vars)
<1>0. cut \in BOOLEAN /\ sends \in Nat
  BY DEF OutInv
<1>1. CASE UNCHANGED outVars
  <2>1. UNCHANGED <<sent, heard, cut>>
    BY <1>1 DEF outVars
  <2>2. OutInv'
    BY <1>1 DEF outVars, OutInv
  <2>3. [OutChannel!Next]_(OutChannel!vars)
    BY <1>0, <2>1, OutLost
  <2> QED BY <2>2, <2>3
<1>2. ASSUME NEW op \in DOMAIN ServerLayouts, NEW m \in ServerMessages(op, sends + 1), SendPacket(m)
      PROVE  OutInv' /\ [OutChannel!Next]_(OutChannel!vars)
  <2>1. sends + 1 \in 1 .. MaxSends
    BY <1>0, <1>2, ServerLayoutsAssumption DEF SendPacket
  <2>2. m \in BuiltMessage
    BY <2>1, ServerMessagesFacts
  <2>3. /\ OutInv' /\ heard' = heard
        /\ \/ m \in ServerMessage /\ ~cut /\ ~cut' /\ sent' = Append(sent, m)
           \/ (cut => cut') /\ cut' \in BOOLEAN /\ sent' = sent
    BY <1>2, <2>2, SendStep
  <2>4. CASE m \in ServerMessage /\ ~cut /\ ~cut' /\ sent' = Append(sent, m)
    BY <2>3, <2>4, OutSend DEF OutChannel!Next
  <2>5. CASE (cut => cut') /\ cut' \in BOOLEAN /\ sent' = sent
    BY <1>0, <2>3, <2>5, OutLost
  <2> QED BY <2>3, <2>4, <2>5
<1>3. CASE ClientDecodes
  <2>1. CASE Len(heard) < Len(sent)
    <3>1. OutInv' /\ UNCHANGED <<sent, cut>> /\ heard' = Append(heard, sent[Len(heard) + 1])
      BY <1>3, <2>1, DecodesNext
    <3>2. OutChannel!Deliver
      BY <2>1, <3>1, OutDeliver
    <3> QED BY <3>1, <3>2 DEF OutChannel!Next
  <2>2. CASE ~(Len(heard) < Len(sent))
    BY <1>3, <2>2, OutGarble DEF OutChannel!Next
  <2> QED BY <2>1, <2>2
<1> QED BY <1>1, <1>2, <1>3 DEF OutNext

\* The channel begins open and empty.
LEMMA OutInitChannel == OutInit => OutChannel!Init
<1> SUFFICES ASSUME OutInit PROVE OutChannel!Init
  OBVIOUS
<1>1. heard = <<>> /\ sent = <<>> /\ cut = FALSE
  BY DEF OutInit
<1>2. OutState = "open" /\ OutQueue = <<>>
  BY <1>1 DEF OutState, OutQueue, Pending
<1> QED BY <1>1, <1>2, Zenon DEF OutChannel!Init, OutQueue, OutState, Pending

\* A step of Packets is one of this direction, or leaves it alone.
LEMMA OutStepOfNext ==
    ASSUME [Next]_vars
    PROVE  [OutNext]_outVars
BY DEF Next, vars, outVars, inVars

\* At the beginning of what a client has not decoded lie, one after the other,
\* the frames of the packets that were sent whole, and nothing else is there
\* unless a packet was cut or too large for 16 bits (Network::SendPacket).
THEOREM OutInvariance == Spec => []OutInv
<1>1. Init => OutInv
  BY OutInitInv DEF Init
<1>2. OutInv /\ [Next]_vars => OutInv'
  BY OutInvStep, OutStepOfNext
<1> QED BY <1>1, <1>2, PTL DEF Spec

\* What a client decodes is what was sent: each packet that was not lost once,
\* with the fields and the blocks that were written and in the order of the
\* calls of send(), until a packet is cut or too large for its size of 16 bits
\* (SendPacket, _Write, _WriteAt).
THEOREM SendsImplement == Spec => SendsImplementChannel
<1>1. Init => OutChannel!Init
  BY OutInitChannel DEF Init
<1>2. OutInv /\ [Next]_vars => [OutChannel!Next]_(OutChannel!vars)
  BY OutInvStep, OutStepOfNext
<1> QED BY <1>1, <1>2, OutInvariance, PTL DEF Spec, SendsImplementChannel, OutChannel!Spec

=============================================================================
