------------------------------ MODULE Incoming ------------------------------
(***************************************************************************)
(* Packets from one client to the server: a client that writes frames, a   *)
(* stream that delivers their bytes in pieces of any length, and the turn  *)
(* of the client in Network::UpdateClients, with one recv() for the header *)
(* and one for the contents, and a handler that reads fields.  The ends of *)
(* connections are in Sessions.                                            *)
(***************************************************************************)
EXTENDS GamePacket

CONSTANTS
    ClientLayouts,  \* a sequence: for each opcode the fields its handler reads
    MaxSize,        \* MAX_GAME_PACKET_SIZE
    Lacking,        \* bound of the run: how many bytes a packet may lack at its end
    MaxSaid         \* bound of the run: the number of packets

\* No handler reads a text last (PacketHandlers.cpp).  If one did, the byte
\* behind a packet that lacks a part of that text could end it.
ASSUME ClientLayoutsAssumption ==
    /\ ClientLayouts \in Seq(Seq(Kinds))
    /\ \A op \in DOMAIN ClientLayouts :
           LET kinds == ClientLayouts[op]
           IN  kinds # <<>> => kinds[Len(kinds)] # "text"

ASSUME MaxSizeAssumption == MaxSize \in Nat

VARIABLES
    said,       \* history: the messages the client has written
    stream,     \* bytes written and not yet received
    arrived,    \* how many of them recv() finds
    header,     \* <<>>, or between the two recv(): the header
    handled,    \* the messages read by handlers
    state       \* "served", "removed", or "dead" if the process has died

inVars == <<said, stream, arrived, header, handled, state>>

-----------------------------------------------------------------------------
(* The client, which is not part of the program.                           *)

ClientMessages(op, n) ==
    {[op |-> op, fields |-> [f \in DOMAIN ClientLayouts[op] |-> FieldBytes(<<n, f>>, ClientLayouts[op][f], length)]] :
         length \in TextLengths}

Contents(m) == FlattenSeq(WrittenFields(ClientLayouts[m.op], m.fields))

\* Frames as they should be, longer than what is read of them, too short, or
\* announced to be larger than the server accepts
Frames(m) ==
    LET contents == Contents(m)
        Framed(bytes) == [size |-> Len(bytes), contents |-> bytes]
    IN  {Framed(contents), Framed(Append(contents, Zero)), [size |-> MaxSize, contents |-> contents]}
        \cup {Framed(SubSeq(contents, 1, Len(contents) - k)) : k \in Lacking \cap 1 .. Len(contents)}

ClientSends(m) ==
    /\ state = "served" /\ Len(said) < MaxSaid
    /\ \E frame \in Frames(m) :
           /\ said' = Append(said, m)
           /\ stream' = stream \o Header(m.op, frame.size) \o frame.contents
    /\ UNCHANGED <<arrived, header, handled, state>>

\* TCP delivers any number of the bytes.
Arrive ==
    /\ state = "served"
    /\ arrived' \in arrived + 1 .. Len(stream)
    /\ UNCHANGED <<said, stream, header, handled, state>>

-----------------------------------------------------------------------------
(* The client's turn. *)

\* recv(): as many bytes as there are, up to a number
Received(n) == SubSeq(stream, 1, IF arrived < n THEN arrived ELSE n)

Consume(bytes) ==
    /\ stream'  = SubSeq(stream, Len(bytes) + 1, Len(stream))
    /\ arrived' = arrived - Len(bytes)

\* HandlePacket, for an opcode the state permits (Sessions has the refusals):
\* the handler reads its fields; PacketReadException ends the process, since
\* GamePacket throws a pointer and the catch clause names a reference.
Handle(op, contents) ==
    \E strayZero \in BOOLEAN :
        LET p == ReadFields(ReceivedPacket(op, Len(contents), contents), ClientLayouts[op], strayZero)
        IN  IF p.thrown
            THEN state' = "dead" /\ UNCHANGED handled
            ELSE /\ handled' = Append(handled, [op |-> op, fields |-> p.read])
                 /\ UNCHANGED state

\* A whole header of a size below the maximum
Accepted(bytes) == IsHeader(bytes) /\ bytes[1][3] < MaxSize

\* The header of a packet without contents
ReceiveEmpty ==
    LET bytes == Received(HeaderSize)
    IN  /\ state = "served" /\ header = <<>> /\ arrived > 0
        /\ Accepted(bytes) /\ bytes[1][3] = 0
        /\ Consume(bytes)
        /\ Handle(bytes[1][2], <<>>)
        /\ UNCHANGED <<said, header>>

ReceiveHeader ==
    LET bytes == Received(HeaderSize)
    IN  /\ state = "served" /\ header = <<>> /\ arrived > 0
        /\ Accepted(bytes) /\ bytes[1][3] > 0
        /\ Consume(bytes)
        /\ header' = bytes
        /\ UNCHANGED <<said, handled, state>>

\* "no valid headers sent": less than four bytes are there, or a packet that
\* is too large is announced.
RemoveForHeader ==
    LET bytes == Received(HeaderSize)
    IN  /\ state = "served" /\ header = <<>> /\ arrived > 0
        /\ ~Accepted(bytes)
        /\ Consume(bytes)
        /\ state' = "removed"
        /\ UNCHANGED <<said, header, handled>>

\* The bytes of the contents that have arrived, and all of them
ContentsReceived == Received(header[1][3])
AllArrived == Len(ContentsReceived) = header[1][3]

ReceiveContents ==
    /\ state = "served" /\ header # <<>>
    /\ AllArrived
    /\ Consume(ContentsReceived)
    /\ header' = <<>>
    /\ Handle(header[1][2], ContentsReceived)
    /\ UNCHANGED said

\* "received less bytes than expected", none included
RemoveForContents ==
    /\ state = "served" /\ header # <<>>
    /\ ~AllArrived
    /\ Consume(ContentsReceived)
    /\ header' = <<>>
    /\ state' = "removed"
    /\ UNCHANGED <<said, handled>>

ServerTurn ==
    \/ ReceiveEmpty
    \/ ReceiveHeader
    \/ RemoveForHeader
    \/ ReceiveContents
    \/ RemoveForContents

-----------------------------------------------------------------------------
InInit ==
    /\ said = <<>> /\ stream = <<>> /\ arrived = 0
    /\ header = <<>>
    /\ handled = <<>>
    /\ state = "served"

InNext ==
    \/ \E op \in DOMAIN ClientLayouts : \E m \in ClientMessages(op, Len(said) + 1) : ClientSends(m)
    \/ Arrive
    \/ ServerTurn


-----------------------------------------------------------------------------
(* Properties. *)

\* Whatever pieces the stream delivers, handlers read the client's messages
\* whole and in order, and none after a packet that could not be received:
\* the two recv() never read contents as a header or one packet's bytes into
\* another.
InChannel == INSTANCE Channel WITH
    queue <- IF state = "served" THEN SubSeq(said, Len(handled) + 1, Len(said)) ELSE <<>>,
    got   <- handled,
    state <- IF state = "served" THEN "open" ELSE "closed"

=============================================================================
