----------------------------- MODULE GamePacket -----------------------------
(***************************************************************************)
(* The buffer of a packet (GamePacket.cpp): writing, writing at a position *)
(* remembered before, reading numbers and texts, and frames on a stream.   *)
(*                                                                         *)
(* A byte is a tuple that says where it comes from: Zero, a byte of a      *)
(* frame's header, a byte of a count, or one of a field (FieldBytes).  The *)
(* bytes of a number are in network order, which WriteUInt32 and its like  *)
(* make (htonl) and ReadUInt32 and its like undo.                          *)
(*                                                                         *)
(* Sizes and positions are of 16 bits (uint16_t), and wrap when more is    *)
(* written: then later bytes overwrite those at the beginning.             *)
(***************************************************************************)
EXTENDS Integers, Sequences, SequencesExt

CONSTANTS
    TextLengths,                            \* the lengths of texts
    SizeRange                               \* 2^16, one more than the largest size

ASSUME TextLengthsAssumption == TextLengths \subseteq Nat
ASSUME SizeRangeAssumption == SizeRange \in Nat \ {0}

Zero == <<0>>
HeaderSize == 4                             \* GAMEPACKET_HEADER_SIZE
Width == [u8 |-> 1, u32 |-> 4]              \* bytes of a number
Kinds == DOMAIN Width \cup {"text"}         \* the kinds of fields

\* A number of four bytes that counts something
Count(n) == [i \in 1 .. Width.u32 |-> <<n, i>>]

\* A field's value: the bytes of a number, the characters of a text.
\* (place tells apart the fields of all packets.)
FieldBytes(place, kind, textLength) ==
    [i \in 1 .. IF kind = "text" THEN textLength ELSE Width[kind] |-> <<"field", place, i>>]

\* A packet: the opcode, the memory of the buffer (data), the part of it that
\* is in use (length), the positions, what was read so far, and whether a read
\* has thrown.
NewPacket(opcode, size) ==
    [opcode |-> opcode, size |-> size, writePos |-> 0, readPos |-> 0, data |-> <<>>,
     length |-> 0, read |-> <<>>, thrown |-> FALSE]

\* SetData leaves the size the constructor got from the header.
ReceivedPacket(opcode, size, data) ==
    [NewPacket(opcode, size) EXCEPT !.data = data, !.length = Len(data)]

-----------------------------------------------------------------------------
(* Writing. *)

\* The memory when the buffer has been made to end one byte behind those
\* written: what is added to it is zero, what is taken from it stays in memory.
Memory(p, bytes) ==
    LET end == p.writePos + Len(bytes)
    IN  [i \in DOMAIN p.data \cup 1 .. end + 1 |->
            IF i - p.writePos \in DOMAIN bytes THEN bytes[i - p.writePos]
            ELSE IF i \in p.length + 1 .. end + 1 THEN Zero ELSE p.data[i]]

\* _Write keeps one byte, a zero, behind the last one written and counts it.
Write(p, bytes) ==
    LET end    == p.writePos + Len(bytes)
        newPos == end % SizeRange
    IN  [p EXCEPT !.data = Memory(p, bytes), !.length = end + 1,
                  !.writePos = newPos,
                  !.size = IF @ < newPos + 1 THEN (newPos + 1) % SizeRange ELSE @]

\* _WriteAt replaces bytes that have been written.
WriteAt(p, bytes, position) ==
    [p EXCEPT !.data = [i \in DOMAIN @ |->
                            IF i - position \in DOMAIN bytes THEN bytes[i - position] ELSE @[i]]]

\* The bytes of a field: WriteString adds the terminating zero.
Written(kind, value) == IF kind = "text" THEN Append(value, Zero) ELSE value

WriteField(p, kind, value) == Write(p, Written(kind, value))

\* The bytes of each of some fields
WrittenFields(kinds, values) == [f \in DOMAIN kinds |-> Written(kinds[f], values[f])]

-----------------------------------------------------------------------------
(* Reading. *)

Throw(p) == [p EXCEPT !.thrown = TRUE]

Took(p, value, newPos) == [p EXCEPT !.read = Append(@, value), !.readPos = newPos]

\* _Read throws rather than reading past the size.
Read(p, width) ==
    IF p.readPos + width > p.size THEN Throw(p)
    ELSE Took(p, SubSeq(p.data, p.readPos + 1, p.readPos + width), p.readPos + width)

\* Mutant: the position stays at the terminating zero.
ReadStringToZero(p, strayZero) ==
    LET zeros == {i \in p.readPos .. p.size - 1 : p.data[i + 1] = Zero}
        end == IF zeros = {} THEN p.size ELSE CHOOSE i \in zeros : \A j \in zeros : i <= j
    IN  IF p.readPos >= p.size \/ (zeros = {} /\ ~strayZero) THEN Throw(p)
        ELSE Took(p, SubSeq(p.data, p.readPos + 1, end), end)

\* ReadString looks for a zero up to the size.  If there is none it looks at
\* the byte behind the buffer, which may be a zero as well (strayZero).
ReadString(p, strayZero) ==
    LET zeros == {i \in p.readPos .. p.size - 1 : p.data[i + 1] = Zero}
        end == IF zeros = {} THEN p.size ELSE CHOOSE i \in zeros : \A j \in zeros : i <= j
    IN  IF p.readPos >= p.size \/ (zeros = {} /\ ~strayZero) THEN Throw(p)
        ELSE Took(p, SubSeq(p.data, p.readPos + 1, end), end + 1)

\* The field of one kind, unless a read before it has thrown
ReadField(p, kind, strayZero) ==
    IF p.thrown THEN p
    ELSE IF kind = "text" THEN ReadString(p, strayZero) ELSE Read(p, Width[kind])

\* The packet when the first fields have been read, for each number of them
ReadTo(p, kinds, strayZero) ==
    LET upTo[f \in 0 .. Len(kinds)] ==
            IF f = 0 THEN [p EXCEPT !.read = <<>>]
            ELSE ReadField(upTo[f - 1], kinds[f], strayZero)
    IN  upTo

\* The values of fields of the given kinds, read one after the other
ReadFields(p, kinds, strayZero) == ReadTo(p, kinds, strayZero)[Len(kinds)]

-----------------------------------------------------------------------------
(* Frames. *)

\* Two bytes for the opcode, two for the size
Header(opcode, size) == [i \in 1 .. HeaderSize |-> <<"header", opcode, size, i>>]

\* Bytes from the middle of a frame are no header.
IsHeader(bytes) ==
    /\ Len(bytes) = HeaderSize
    /\ Len(bytes[1]) = 4
    /\ bytes = Header(bytes[1][2], bytes[1][3])

=============================================================================
