------------------------------ MODULE Outgoing ------------------------------
(***************************************************************************)
(* Packets from the server to one client: how handlers and rooms build     *)
(* them, Network::SendPacket on a socket that does not block, and a client *)
(* that reads frames.                                                      *)
(*                                                                         *)
(* Packets of both threads go through SendPacket, and each is one call of  *)
(* send(), so that their order is that of these calls.  The result of      *)
(* send() is ignored: if the buffers are full a packet is lost, or cut.    *)
(* A packet whose size does not fit into 16 bits, as one with many blocks  *)
(* can be, is sent with what the wrapped positions have made of it.        *)
(***************************************************************************)
EXTENDS GamePacket

CONSTANTS
    ServerLayouts,  \* a sequence: for each opcode the size given to the constructor and
                    \* groups of blocks of fields; counted groups begin with their number
    Cuts,           \* bound of the run: where send() may cut a packet
    MaxBlocks,      \* bound of the run: the most blocks in a counted group
    MaxSends        \* bound of the run: the number of packets

ASSUME ServerLayoutsAssumption ==
    /\ ServerLayouts \in Seq([size : Nat, groups : Seq([counted : BOOLEAN, fields : Seq(Kinds)])])
    /\ \A op \in DOMAIN ServerLayouts : ServerLayouts[op].size < SizeRange
    /\ MaxBlocks \in Nat /\ MaxSends \in Nat

VARIABLES
    wire,       \* the bytes send() has accepted and the client has not decoded
    sends,      \* the number of packets built
    sent,       \* history: the messages send() accepted whole, until one was cut
    cut,        \* send() has accepted a part of a packet, or one that did not fit
    heard       \* the messages the client has decoded

outVars == <<wire, sends, sent, cut, heard>>

-----------------------------------------------------------------------------
(* Building a packet. *)

\* Messages with the opcode: each group with a sequence of blocks, each block
\* with its fields' values
ServerMessages(op, n) ==
    LET groups == ServerLayouts[op].groups
        Counts == {counts \in [DOMAIN groups -> 0 .. MaxBlocks] :
                       \A g \in DOMAIN groups : ~groups[g].counted => counts[g] = 1}
        Block(g, b, length) ==
            [f \in DOMAIN groups[g].fields |->
                FieldBytes(<<n, g, b, f>>, groups[g].fields[f], length)]
    IN  {[op |-> op, groups |-> [g \in DOMAIN groups |-> [b \in 1 .. counts[g] |-> Block(g, b, length)]]] :
             counts \in Counts, length \in TextLengths}

\* What a packet of the message should contain
BlocksWritten(group, blocks) ==
    [b \in DOMAIN blocks |-> FlattenSeq(WrittenFields(group.fields, blocks[b]))]

GroupBytes(group, blocks) ==
    (IF group.counted THEN Count(Len(blocks)) ELSE <<>>) \o FlattenSeq(BlocksWritten(group, blocks))

MessageBytes(m) ==
    FlattenSeq([g \in DOMAIN m.groups |-> GroupBytes(ServerLayouts[m.op].groups[g], m.groups[g])])

\* No packet is given a size it does not reach (PacketHandlers.cpp:48, 145, 297,
\* Room.cpp:592), for SendPacket sends as many bytes as the size says.
ASSUME SizesAssumption ==
    \A op \in DOMAIN ServerLayouts : \A n \in 1 .. MaxSends : \A m \in ServerMessages(op, n) :
        ServerLayouts[op].size <= Len(MessageBytes(m))

\* The packet when the first fields of a block have been written, for each
\* number of them (BuildCreatePacketBlock, or the fields of a simple packet)
FieldsTo(p, kinds, block) ==
    LET upTo[f \in 0 .. Len(kinds)] ==
            IF f = 0 THEN p ELSE WriteField(upTo[f - 1], kinds[f], block[f])
    IN  upTo

\* And the first blocks of a group
BlocksTo(p, kinds, blocks) ==
    LET upTo[b \in 0 .. Len(blocks)] ==
            IF b = 0 THEN p ELSE FieldsTo(upTo[b - 1], kinds, blocks[b])[Len(kinds)]
    IN  upTo

WriteBlocks(p, group, blocks) == BlocksTo(p, group.fields, blocks)[Len(blocks)]

\* Mutant: the counter is written at the beginning of the packet.
WriteGroupAtZero(p, group, blocks) ==
    IF group.counted
    THEN WriteAt(WriteBlocks(Write(p, Count(0)), group, blocks), Count(Len(blocks)), 0)
    ELSE WriteBlocks(p, group, blocks)

\* A counted group begins with a zero, which is overwritten with the visitor's
\* counter when the cells have been visited.
WriteGroup(p, group, blocks) ==
    IF group.counted
    THEN WriteAt(WriteBlocks(Write(p, Count(0)), group, blocks), Count(Len(blocks)), p.writePos)
    ELSE WriteBlocks(p, group, blocks)

\* The packet when the first groups have been written
GroupsTo(m) ==
    LET upTo[g \in 0 .. Len(m.groups)] ==
            IF g = 0 THEN NewPacket(m.op, ServerLayouts[m.op].size)
            ELSE WriteGroup(upTo[g - 1], ServerLayouts[m.op].groups[g], m.groups[g])
    IN  upTo

Build(m) == GroupsTo(m)[Len(m.groups)]

-----------------------------------------------------------------------------
(* Sending. *)

\* The header, and GetSize() bytes of the buffer
Frame(p) == Header(p.opcode, p.size) \o SubSeq(p.data, 1, p.size)

\* What send() may take of a frame: all of it, or the part for which the
\* buffers have room, or nothing
TakenBySend(length) == {0, length} \cup (Cuts \cap 1 .. length - 1)

\* The contents, and the zero behind them, have a size of 16 bits
SizeFits(m) == Len(MessageBytes(m)) + 1 < SizeRange

\* Network::SendPacket(socket, pkt)
SendPacket(m) ==
    LET frame == Frame(Build(m))
        Whole(k) == k = Len(frame) /\ SizeFits(m)
    IN  /\ sends < MaxSends
        /\ sends' = sends + 1
        /\ \E k \in TakenBySend(Len(frame)) :
               /\ wire' = wire \o SubSeq(frame, 1, k)
               /\ sent' = IF Whole(k) /\ ~cut THEN Append(sent, m) ELSE sent
               /\ cut'  = (cut \/ (k # 0 /\ ~Whole(k)))
        /\ UNCHANGED heard

-----------------------------------------------------------------------------
(* The client, which is not part of the program: it reads a header and then *)
(* as many bytes as the header says.  It gets stuck at what is no header.   *)

\* The count at the beginning of a group, or none
CountIn(p) ==
    LET q == Read([p EXCEPT !.read = <<>>], Width.u32)
    IN  IF ~q.thrown /\ q.read[1] = Count(q.read[1][1][1])
        THEN [packet |-> q, count |-> q.read[1][1][1]]
        ELSE [packet |-> Throw(q), count |-> 0]

\* The packet and the blocks when the first blocks of a group have been read
BlocksRead(p, kinds, count) ==
    LET upTo[b \in 0 .. count] ==
            IF b = 0 THEN [packet |-> p, blocks |-> <<>>]
            ELSE LET q == ReadFields(upTo[b - 1].packet, kinds, FALSE)
                 IN  [packet |-> q, blocks |-> Append(upTo[b - 1].blocks, q.read)]
    IN  upTo

ReadGroup(p, group) ==
    LET start == IF group.counted /\ ~p.thrown THEN CountIn(p) ELSE [packet |-> p, count |-> 1]
    IN  BlocksRead(start.packet, group.fields, start.count)[start.count]

\* The packet and the groups when the first groups have been read
GroupsRead(p, groups) ==
    LET upTo[g \in 0 .. Len(groups)] ==
            IF g = 0 THEN [packet |-> p, groups |-> <<>>]
            ELSE LET got == ReadGroup(upTo[g - 1].packet, groups[g])
                 IN  [packet |-> got.packet, groups |-> Append(upTo[g - 1].groups, got.blocks)]
    IN  upTo

Nonsense == [op |-> 0, groups |-> <<>>]

Understood(op, contents) ==
    LET groups == ServerLayouts[op].groups
        got    == GroupsRead(ReceivedPacket(op, Len(contents), contents), groups)[Len(groups)]
    IN  IF got.packet.thrown THEN Nonsense ELSE [op |-> op, groups |-> got.groups]

ClientDecodes ==
    LET first == SubSeq(wire, 1, HeaderSize)
        end   == HeaderSize + first[1][3]
    IN  /\ Len(wire) >= HeaderSize /\ IsHeader(first) /\ Len(wire) >= end
        /\ heard' = Append(heard, Understood(first[1][2], SubSeq(wire, HeaderSize + 1, end)))
        /\ wire'  = SubSeq(wire, end + 1, Len(wire))
        /\ UNCHANGED <<sends, sent, cut>>

-----------------------------------------------------------------------------
OutInit ==
    /\ wire = <<>>
    /\ sends = 0
    /\ sent = <<>> /\ heard = <<>>
    /\ cut = FALSE

OutNext ==
    \/ \E op \in DOMAIN ServerLayouts : \E m \in ServerMessages(op, sends + 1) : SendPacket(m)
    \/ ClientDecodes

-----------------------------------------------------------------------------
(* Properties. *)

\* Until a packet is cut, or one is sent that is too large for its 16 bits, a
\* client understands every packet that was not lost as a whole, with the fields
\* and the blocks that were written and in the order of the sends; afterwards it
\* still understands those before it.
\* This takes the size in the header, the surplus zero behind the contents,
\* the patched counters and the one call of send() to fit together.
OutChannel == INSTANCE Channel WITH
    queue <- SubSeq(sent, Len(heard) + 1, Len(sent)),
    got   <- heard,
    state <- IF cut THEN "cut" ELSE "open"

=============================================================================
