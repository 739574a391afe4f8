------------------------------ MODULE Sessions ------------------------------
(***************************************************************************)
(* The client and session layer of the server: the network thread's loop   *)
(* over m_clients (Network.cpp), the session state machine and its packet  *)
(* handlers (Session.cpp, PacketHandlers.cpp) and the part of a room those *)
(* handlers share with the room's own thread, its player list (Room.cpp).  *)
(*                                                                         *)
(* Every accepted connection is a number, in the order of acceptance.      *)
(* The same number names the ClientRecord, the Session and the Player that *)
(* the connection's arrival creates: three objects that point to each      *)
(* other, and whose pointers a session restore exchanges.  m_clients only  *)
(* grows at its end, its iteration order is therefore the order of the     *)
(* numbers, and the list is the set clients.                               *)
(*                                                                         *)
(* A step of the network thread is one client's turn in UpdateClients, a   *)
(* step of a room's thread is one round of Room::Run.  A turn can also     *)
(* fall into the middle of a round, which holds no lock: whether it does   *)
(* matters when what the round works with goes away, and is chosen then    *)
(* (caught).  Movement, the grid and the food are not part of this module. *)
(***************************************************************************)
EXTENDS Integers, Sequences, SequencesExt

CONSTANTS
    MaxConn,        \* bound: connections accepted in a behaviour
    MaxRooms,       \* bound: rooms created in a behaviour, the default one included
    Capacity,       \* m_capacity, the same for every room
    MaxViolations,  \* MAX_SESSION_VIOLATIONS
    Accounts,       \* user ids the database can hold
    InitUsers,      \* user ids it holds when the server starts
    NoId,           \* playerId 0 of a request, or an m_id that is no user's id
    Keys,           \* session keys CreateSessionKey can return
    NoKey,          \* the empty m_sessionKey of a new session
    Failures,       \* ways in which a connection can end
    LookupsFail     \* whether a lookup of a user can fail

ASSUME BoundsAssumption ==
    MaxConn \in Nat /\ MaxRooms \in Nat \ {0} /\ Capacity \in Nat /\ MaxViolations \in Nat \ {0}
ASSUME UsersAssumption == InitUsers \subseteq Accounts /\ NoId \notin Accounts
ASSUME KeysAssumption == NoKey \notin Keys
ASSUME FailuresAssumption ==
    Failures \subseteq {"fin", "reset", "abort", "broken"} /\ LookupsFail \in BOOLEAN

Conn == 1 .. MaxConn
Rooms == 1 .. MaxRooms
NoRoom == 0
DefaultRoom == 1
Ids == Accounts \cup {NoId}
AllKeys == Keys \cup {NoKey}

VARIABLES
    clients,        \* Network::m_clients
    accepted,       \* how many connections have been accepted
    cursor,         \* the client whose turn it is, 0 between two passes
    socket,         \* what recv on a session's socket reports
    errno,          \* errno of the network thread
    recPlayer,      \* ClientRecord::player
    sess,           \* the Session objects
    plr,            \* the Player objects
    roomMap,        \* the ids in Gameplay::m_rooms
    lastRoomId,     \* Gameplay::m_lastRoomId
    room,           \* the Room objects
    caught,         \* rooms whose round is at work with what has been deleted
    users,          \* the ids in the users table that a name leads to
    fault,          \* how the process died, "none" while it runs
    wrongEntry      \* history: a RemovePlayer did not erase its player's entry

vars == <<clients, accepted, cursor, socket, errno, recPlayer, sess, plr, roomMap, lastRoomId,
          room, caught, users, fault, wrongEntry>>

Session == [player     : Conn,                              \* m_player
            state      : {"auth", "lobby", "game"},         \* m_connectionState
            timeout    : {"none", "running", "passed"},     \* m_sessionTimeout: 0, future, past
            expired    : BOOLEAN,                           \* m_isExpired
            violations : 0 .. MaxViolations,                \* m_violationCounter
            key        : AllKeys,                           \* m_sessionKey
            pinged     : BOOLEAN,                           \* m_pingWaitingResponse
            pingDue    : BOOLEAN]                           \* m_lastPingSendTime is long ago

Player == [session : Conn,                                  \* m_session
           id      : Ids,                                   \* m_id
           roomId  : Rooms \cup {NoRoom}]                   \* m_roomId

Room == [thread  : {"unborn", "running", "ended", "deleted"},   \* how far Run is
         members : Seq(Conn),                                   \* m_playerList
         empty   : {"no", "counting", "due"}]  \* m_emptyStateTime: 0, recent, long ago

TypeOK ==
    /\ accepted \in 0 .. MaxConn
    /\ clients \subseteq 1 .. accepted
    /\ cursor \in Conn \cup {0}
    /\ socket \in [Conn -> {"open", "fin", "reset", "abort", "broken"}]
    /\ errno \in {"none", "wouldblock", "reset", "abort", "other"}
    /\ recPlayer \in [Conn -> Conn]
    /\ sess \in [Conn -> Session]
    /\ plr \in [Conn -> Player]
    /\ roomMap \subseteq Rooms
    /\ lastRoomId \in Rooms
    /\ room \in [Rooms -> Room]
    /\ caught \subseteq Rooms
    /\ users \subseteq Accounts
    /\ fault \in {"none", "nullRoom", "useAfterFree", "uncaughtException"}
    /\ wrongEntry \in BOOLEAN

\* What the constructors of Session and Player, and InsertClient, leave.  The
\* constructor does not write m_id: it is whatever the memory held.
NewSession(c) ==
    [player |-> c, state |-> "auth", timeout |-> "none", expired |-> FALSE, violations |-> 0,
     key |-> NoKey, pinged |-> FALSE, pingDue |-> TRUE]
NewPlayer(c, garbage) == [session |-> c, id |-> garbage, roomId |-> NoRoom]

\* The server after Network::Startup and Gameplay::Init: nobody is connected
\* and the default room runs.
Init ==
    /\ clients = {} /\ accepted = 0 /\ cursor = 0
    /\ socket = [c \in Conn |-> "open"] /\ errno = "none"
    /\ recPlayer = [c \in Conn |-> c]
    /\ sess = [c \in Conn |-> NewSession(c)]
    /\ plr = [c \in Conn |-> NewPlayer(c, NoId)]
    /\ roomMap = {DefaultRoom} /\ lastRoomId = DefaultRoom
    /\ room = [r \in Rooms |-> [thread |-> IF r = DefaultRoom THEN "running" ELSE "unborn",
                                members |-> <<>>, empty |-> "no"]]
    /\ caught = {}
    /\ users = InitUsers
    /\ fault = "none" /\ wrongEntry = FALSE

-----------------------------------------------------------------------------
(* Lookups.  A search that may end with nullptr is the set of what it finds. *)

FirstOf(S) == {n \in S : \A m \in S : n <= m}

\* plr->GetSession() of a record
Sess(c) == plr[recPlayer[c]].session

\* sess->GetPlayer() of a record's session
Plr(c) == sess[Sess(c)].player

\* Network::FindSessionByPlayerId: the first record whose player has that id
FindSessionByPlayerId(i) ==
    {Sess(c) : c \in FirstOf({d \in clients : plr[recPlayer[d]].id = i})}

\* Network::FindSessionBySessionKey: the first record whose session has that key
FindSessionBySessionKey(k) ==
    {Sess(c) : c \in FirstOf({d \in clients : sess[Sess(d)].key = k})}

\* Gameplay::GetRoom of the player's room id returns a room
HasRoom(p) == plr[p].roomId \in roomMap

\* Player objects that have not been deleted
LivePlayers == {recPlayer[c] : c \in clients}

\* A walk of the room's player list would meet a deleted player
Dangling(r) == \E n \in DOMAIN room[r].members : room[r].members[n] \notin LivePlayers

-----------------------------------------------------------------------------
(* The pass over the clients. *)

\* The iterator moves from c to the next record of cs, or ends the pass
Advance(c, cs) ==
    cursor' \in {d \in cs : d > c /\ \A e \in cs : e > c => d <= e}
                  \cup {z \in {0} : \A e \in cs : e <= c}

\* errno was e; a send to a connection that is gone leaves its error there
AfterSends(e) ==
    errno' \in IF \A s \in clients : socket[s] = "open" THEN {e} ELSE {e, "reset", "other"}

\* The process dies in the middle of a handler; what the handler did until
\* then is of no consequence any more.
Die(how) ==
    /\ fault = "none" /\ fault' = how
    /\ UNCHANGED <<clients, accepted, cursor, socket, errno, recPlayer, sess, plr, roomMap,
                   lastRoomId, room, caught, users, wrongEntry>>

\* Network::AcceptConnections, a connection is pending
AcceptConnection ==
    LET c == accepted + 1 IN
    /\ fault = "none" /\ cursor = 0 /\ c \in Conn
    /\ accepted' = c
    /\ clients' = clients \cup {c}
    /\ recPlayer' = [recPlayer EXCEPT ![c] = c]
    /\ sess' = [sess EXCEPT ![c] = NewSession(c)]
    /\ \E garbage \in Ids : plr' = [plr EXCEPT ![c] = NewPlayer(c, garbage)]
    /\ Advance(0, clients \cup {c})
    /\ UNCHANGED <<socket, errno, roomMap, lastRoomId, room, caught, users, fault, wrongEntry>>

\* Network::AcceptConnections, no connection is pending: accept fails
AcceptNothing ==
    /\ fault = "none" /\ cursor = 0
    /\ errno' = "wouldblock"
    /\ Advance(0, clients)
    /\ UNCHANGED <<clients, accepted, socket, recPlayer, sess, plr, roomMap, lastRoomId, room,
                   caught, users, fault, wrongEntry>>

-----------------------------------------------------------------------------
(* Leaving a room and leaving the server. *)

\* The entry Room::RemovePlayer stops at: the first with the player's id
EntryToErase(r, p) ==
    FirstOf({n \in DOMAIN room[r].members : plr[room[r].members[n]].id = plr[p].id})

\* Mutant: RemovePlayer stops at the entry but does not erase it
EraseNothing(r, p) == UNCHANGED <<room, wrongEntry>>

\* Room::RemovePlayer's effect on the player list
EraseEntry(r, p) ==
    LET entry == EntryToErase(r, p) IN
    /\ room' = IF entry = {} THEN room
               ELSE [room EXCEPT ![r].members = RemoveAt(@, CHOOSE n \in entry : TRUE)]
    /\ wrongEntry' = (wrongEntry \/ {room[r].members[n] : n \in entry} # {p})

\* An entry of a list, a player or a session goes away.  The thread of one of the
\* rooms may be at work with it, between two players of its round or in one's
\* update, or none is.
Catches(rooms) == caught' \in {caught} \cup {caught \cup {r} : r \in rooms}

\* Rooms whose round may be at work with a client that is deleted.  It need not be
\* the room of its player: a session restore during the update of a session gives
\* it a player of another room, or of none.
AtWork == {r \in roomMap : room[r].members # <<>>}

\* delete of the Session and the Player of record c.  Nothing reads them
\* again, so their fields return to the values of Init.
Delete(c) ==
    LET p == recPlayer[c]
        s == Sess(c)
    IN  /\ clients' = clients \ {c}
        /\ recPlayer' = [recPlayer EXCEPT ![c] = c]
        /\ socket' = [socket EXCEPT ![s] = "open"]
        /\ sess' = [sess EXCEPT ![s] = NewSession(s)]
        /\ plr' = [plr EXCEPT ![p] = NewPlayer(p, NoId)]
        /\ UNCHANGED <<accepted, roomMap, lastRoomId, users, fault>>

\* Network::RemoveClient with errno e: out of the room, if any, then deleted
RemoveClient(c, e) ==
    LET p == recPlayer[c]
        r == plr[p].roomId
    IN  \/ /\ r # NoRoom /\ r \notin roomMap    \* GetRoom returned nullptr
           /\ Die("nullRoom")
        \/ /\ r \in roomMap /\ Dangling(r)
           /\ Die("useAfterFree")
        \/ /\ r \in roomMap /\ ~Dangling(r)
           /\ EraseEntry(r, p)
           /\ Delete(c)
           /\ Catches(AtWork)
           /\ Advance(c, clients \ {c})
           /\ AfterSends(e)
        \/ /\ r = NoRoom
           /\ Delete(c)
           /\ Catches(AtWork)
           /\ Advance(c, clients \ {c})
           /\ errno' = e
           /\ UNCHANGED <<room, wrongEntry>>

-----------------------------------------------------------------------------
(* A client's turn in UpdateClients. *)

Turn(c) == fault = "none" /\ cursor = c /\ c \in clients

\* Mutant: the timeout is looked at before the expiry mark
RemoveExpiredAfterTimeout(c) ==
    /\ Turn(c) /\ sess[Sess(c)].expired /\ sess[Sess(c)].timeout = "none"
    /\ RemoveClient(c, errno)

\* The session is marked as expired: the client is disconnected
RemoveExpired(c) ==
    /\ Turn(c) /\ sess[Sess(c)].expired
    /\ RemoveClient(c, errno)

\* Mutant: an expired session's packets are still read
ReadsExpired(c) == Turn(c) /\ sess[Sess(c)].timeout = "none"

\* The session's socket is read
Reads(c) == Turn(c) /\ ~sess[Sess(c)].expired /\ sess[Sess(c)].timeout = "none"

\* The value UpdateClients finds in errno when recv delivers nothing: an
\* orderly close makes recv return 0, which leaves errno as it was.
RecvError(c) ==
    CASE socket[Sess(c)] = "open"   -> "wouldblock"
      [] socket[Sess(c)] = "fin"    -> errno
      [] socket[Sess(c)] = "reset"  -> "reset"
      [] socket[Sess(c)] = "abort"  -> "abort"
      [] socket[Sess(c)] = "broken" -> "other"

\* What the turns below leave alone that do not end the client's record
Untouched == <<clients, accepted, socket, recPlayer, plr, roomMap, lastRoomId, room, caught, users,
               fault, wrongEntry>>

\* The session waits for its timeout, nothing is read from its socket
SkipTimedOut(c) ==
    /\ Turn(c) /\ ~sess[Sess(c)].expired /\ sess[Sess(c)].timeout = "running"
    /\ Advance(c, clients)
    /\ UNCHANGED <<Untouched, errno, sess>>

\* The timeout has passed: Session::Kick
KickTimedOut(c) ==
    /\ Turn(c) /\ ~sess[Sess(c)].expired /\ sess[Sess(c)].timeout = "passed"
    /\ sess' = [sess EXCEPT ![Sess(c)].expired = TRUE]
    /\ Advance(c, clients)
    /\ AfterSends(errno)
    /\ UNCHANGED Untouched

\* Nothing to read and no error
NothingRead(c) ==
    /\ Reads(c) /\ RecvError(c) \in {"wouldblock", "none"}
    /\ errno' = RecvError(c)
    /\ Advance(c, clients)
    /\ UNCHANGED <<Untouched, sess>>

\* ECONNABORTED, or ECONNRESET of a player in a room: the session is kept
\* for SESSION_INACTIVITY_EXPIRE seconds
StartTimeout(c) ==
    /\ Reads(c)
    /\ \/ RecvError(c) = "abort"
       \/ RecvError(c) = "reset" /\ plr[recPlayer[c]].roomId # NoRoom
    /\ sess' = [sess EXCEPT ![Sess(c)].timeout = "running"]
    /\ errno' = RecvError(c)
    /\ Advance(c, clients)
    /\ UNCHANGED Untouched

\* ECONNRESET outside a room, or any other error
RemoveBroken(c) ==
    /\ Reads(c)
    /\ \/ RecvError(c) = "reset" /\ plr[recPlayer[c]].roomId = NoRoom
       \/ RecvError(c) = "other"
    /\ RemoveClient(c, RecvError(c))

\* A frame with an impossible header, or one that has not arrived completely
RemoveMalformed(c) ==
    /\ Reads(c) /\ socket[Sess(c)] = "open"
    /\ \E e \in {errno, "wouldblock"} : RemoveClient(c, e)

-----------------------------------------------------------------------------
(* Session::HandlePacket. *)

\* Mutant: the handler table's state restriction is not checked
PacketAnyState(c, states) == Reads(c) /\ socket[Sess(c)] = "open"

\* A packet of a session in one of the given states has arrived
Packet(c, states) ==
    Reads(c) /\ socket[Sess(c)] = "open" /\ sess[Sess(c)].state \in states

AnyState == {"auth", "lobby", "game"}

\* Mutant: DecreaseViolationCounter without its test for zero
LessViolationsUnchecked(n) == n - 1

\* Session::DecreaseViolationCounter
LessViolations(n) == IF n > 0 THEN n - 1 ELSE n

\* The handler of record c has returned and has made ss of the sessions
Handled(c, ss) ==
    /\ sess' = [ss EXCEPT ![Sess(c)].violations = LessViolations(@)]
    /\ Advance(c, clients)
    /\ AfterSends(errno)
    /\ UNCHANGED <<clients, accepted, socket, fault>>

\* An opcode that is unknown or not allowed in the session's state
Violation(c) ==
    /\ Packet(c, AnyState)
    /\ LET n == sess[Sess(c)].violations + 1 IN
       sess' = [sess EXCEPT ![Sess(c)].violations = n,
                            ![Sess(c)].expired = @ \/ n >= MaxViolations]
    /\ Advance(c, clients)
    /\ UNCHANGED <<Untouched, errno>>

\* A packet shorter than its handler reads: GamePacket throws a pointer,
\* which HandlePacket's catch of a reference does not catch
ShortPacket(c) ==
    /\ Packet(c, AnyState)
    /\ Die("uncaughtException")

\* A packet whose handler changes nothing that is modelled here: the room
\* list, the world request, movement, statistics, a request that is refused
\* for what it says
HandleWithoutEffect(c) ==
    /\ Packet(c, {"lobby", "game"})
    /\ Handled(c, sess)
    /\ UNCHANGED Untouched

\* HandleMoveStart, HandleMoveStop, HandleMoveDirection and HandleEatRequest
\* hand the room they looked up to a grid searcher without a check
HandleInMissingRoom(c) ==
    /\ Packet(c, {"game"}) /\ ~HasRoom(Plr(c))
    /\ Die("nullRoom")

\* HandlePong
HandlePong(c) ==
    /\ Packet(c, AnyState)
    /\ Handled(c, [sess EXCEPT ![Sess(c)].pinged = FALSE])
    /\ UNCHANGED Untouched

-----------------------------------------------------------------------------
(* Logging in, registering, and taking an old session over. *)

\* HandleLoginRequest and HandleRegisterRequest, refused: unknown user, wrong
\* password, version or name.  A new session key is stored all the same.
HandleAuthRefused(c) ==
    /\ Packet(c, {"auth"})
    /\ \E k \in Keys : Handled(c, [sess EXCEPT ![Sess(c)].key = k])
    /\ UNCHANGED Untouched

\* The player of session s plays while its connection is in timeout: the
\* login is answered with the offer to restore that session
Restorable(s) == sess[s].timeout # "none" /\ HasRoom(sess[s].player)

\* HandleLoginRequest, the credentials of user i are right.  A session that
\* already holds the user's id is kicked, or else the new one is.
HandleLoginRequest(c, i) ==
    LET s == Sess(c)
        existing == FindSessionByPlayerId(i)
        offered == \E e \in existing : Restorable(e)
        kicked == IF offered THEN {s} ELSE existing
    IN  /\ Packet(c, {"auth"}) /\ i \in users
        /\ plr' = [plr EXCEPT ![Plr(c)].id = i]
        /\ \E k \in Keys :
             Handled(c, [t \in Conn |->
                           [sess[t] EXCEPT !.key = IF t = s THEN k ELSE @,
                                           !.state = IF t = s /\ ~offered THEN "lobby" ELSE @,
                                           !.expired = @ \/ t \in kicked]])
        /\ UNCHANGED <<recPlayer, roomMap, lastRoomId, room, caught, users, wrongEntry>>

\* The new user's id is known, and the session moves to the lobby
Registered(c, i) ==
    /\ plr' = [plr EXCEPT ![Plr(c)].id = i]
    /\ \E k \in Keys :
         Handled(c, [sess EXCEPT ![Sess(c)].state = "lobby", ![Sess(c)].key = k])

\* HandleRegisterRequest, the name is free: StoreUser gives the user a new id.
\* If the lookup after it fails the request is refused, but the user is stored.
HandleRegisterRequest(c, i) ==
    /\ Packet(c, {"auth"}) /\ i \in Accounts \ users
    /\ users' = users \cup {i}
    /\ \/ Registered(c, i)
       \/ /\ LookupsFail
          /\ \E k \in Keys : Handled(c, [sess EXCEPT ![Sess(c)].key = k])
          /\ UNCHANGED plr
    /\ UNCHANGED <<recPlayer, roomMap, lastRoomId, room, caught, wrongEntry>>

\* HandleRegisterRequest of a name that is taken, but the first lookup fails and
\* the second does not: it leads to the user there was, whose password nobody has
\* asked for.  (A second row with the name may have been stored; no name leads to it.)
HandleRegisterTaken(c, i) ==
    /\ LookupsFail /\ Packet(c, {"auth"}) /\ i \in users
    /\ Registered(c, i)
    /\ UNCHANGED <<recPlayer, roomMap, lastRoomId, room, caught, users, wrongEntry>>

\* The session HandleRestoreSession decides on: the first with the key, and
\* if that is not the player's, the first with the player's id
RestoreTarget(k, i) ==
    LET byKey == FindSessionBySessionKey(k) IN
    IF i # NoId /\ (\E e \in byKey : plr[sess[e].player].id # i)
    THEN FindSessionByPlayerId(i)
    ELSE byKey

\* HandleRestoreSession, no session is found
HandleRestoreNotFound(c, k, i) ==
    /\ Packet(c, AnyState) /\ RestoreTarget(k, i) = {}
    /\ Handled(c, sess)
    /\ UNCHANGED Untouched

\* Mutant: only one of the two records is changed
OverrideOneClient(p, q) ==
    recPlayer' = [d \in Conn |-> IF d \in clients /\ recPlayer[d] = p THEN q ELSE recPlayer[d]]

\* Network::OverridePlayerClient: the records of two players exchange them
OverridePlayerClient(p, q) ==
    recPlayer' = [d \in Conn |-> IF d \notin clients THEN recPlayer[d]
                                 ELSE IF recPlayer[d] = p THEN q
                                 ELSE IF recPlayer[d] = q THEN p
                                 ELSE recPlayer[d]]

\* Mutant: a restored session always starts in the lobby
RestoredInLobby(p) == "lobby"

\* The state of a session that takes over player p
RestoredState(p) == IF plr[p].roomId # NoRoom THEN "game" ELSE "lobby"

\* HandleRestoreSession: the sessions of the two players are exchanged, and
\* the old session is kicked together with the new connection's own player
HandleRestoreSession(c, k, i) ==
    LET s == Sess(c)
        dummypl == Plr(c)
    IN  /\ Packet(c, AnyState)
        /\ \E existing \in RestoreTarget(k, i) :
             LET oldpl == sess[existing].player
                 oldsess == plr[oldpl].session
             IN  /\ OverridePlayerClient(dummypl, oldpl)
                 /\ plr' = [plr EXCEPT ![oldpl].session = s, ![dummypl].session = oldsess]
                 /\ Handled(c, [sess EXCEPT ![s].state = RestoredState(oldpl),
                                            ![s].player = oldpl,
                                            ![s].key = sess[oldsess].key,
                                            ![oldsess].player = dummypl,
                                            ![oldsess].expired = TRUE])
        /\ UNCHANGED <<roomMap, lastRoomId, room, caught, users, wrongEntry>>

-----------------------------------------------------------------------------
(* Entering and leaving rooms. *)

\* Mutant: AddPlayer forgets SetRoomId
EnterWithoutRoomId(p, r) == UNCHANGED plr

\* Player::SetRoomId
SetRoomId(p, r) == plr' = [plr EXCEPT ![p].roomId = r]

\* HandleJoinRoomRequest, all its checks passed (a refusal has no effect);
\* AddPlayer ends with a walk of the player list
HandleJoinRoomRequest(c, r) ==
    /\ Packet(c, {"lobby"}) /\ r \in roomMap
    /\ Len(room[r].members) < Capacity
    /\ plr[Plr(c)].roomId = NoRoom
    /\ \/ /\ Dangling(r)
          /\ Die("useAfterFree")
       \/ /\ ~Dangling(r)
          /\ room' = [room EXCEPT ![r].members = Append(@, Plr(c))]
          /\ SetRoomId(Plr(c), r)
          /\ Handled(c, [sess EXCEPT ![Sess(c)].state = "game"])
          /\ UNCHANGED <<recPlayer, roomMap, lastRoomId, caught, users, wrongEntry>>

\* HandleCreateRoom with valid parameters: Gameplay::CreateRoom, whose
\* constructor starts the room's thread, then AddPlayer
HandleCreateRoom(c) ==
    LET r == lastRoomId + 1 IN
    /\ Packet(c, {"lobby"}) /\ r \in Rooms
    /\ lastRoomId' = r
    /\ roomMap' = roomMap \cup {r}
    /\ room' = [room EXCEPT ![r] = [thread |-> "running", members |-> <<Plr(c)>>, empty |-> "no"]]
    /\ SetRoomId(Plr(c), r)
    /\ Handled(c, [sess EXCEPT ![Sess(c)].state = "game"])
    /\ UNCHANGED <<recPlayer, caught, users, wrongEntry>>

\* Mutant: RemovePlayer does not clear the m_roomId of the player it removes
LeaveWithRoomId(r, p) == UNCHANGED plr

\* RemovePlayer clears the player's m_roomId if it found an entry
LeaveRoom(r, p) == IF EntryToErase(r, p) = {} THEN UNCHANGED plr ELSE SetRoomId(p, NoRoom)

\* HandlePlayerExit of a player whose room exists: Room::RemovePlayer, which
\* also ends with a walk of the player list
HandlePlayerExit(c) ==
    LET p == Plr(c)
        r == plr[p].roomId
    IN  /\ Packet(c, {"game"}) /\ HasRoom(p)
        /\ \/ /\ Dangling(r)
              /\ Die("useAfterFree")
           \/ /\ ~Dangling(r)
              /\ EraseEntry(r, p)
              /\ LeaveRoom(r, p)
              /\ Catches({r})
              /\ Handled(c, [sess EXCEPT ![plr[p].session].state = "lobby"])
              /\ UNCHANGED <<recPlayer, roomMap, lastRoomId, users>>

-----------------------------------------------------------------------------
(* The thread of room r, one round of Room::Run at a time. *)

Runs(r) == fault = "none" /\ room[r].thread = "running"

\* The room has been empty for ROOM_EMPTY_SHUTDOWN seconds
ToBeEnded(r) == r # DefaultRoom /\ room[r].empty = "due"

\* The empty-room timestamp
EmptyAfterRound(r) ==
    IF r = DefaultRoom THEN room[r].empty
    ELSE IF room[r].members # <<>> THEN "no"
    ELSE IF room[r].empty = "no" THEN "counting"
    ELSE room[r].empty

\* Mutant: a ping that stays unanswered has no consequence
IgnoreUnanswered(ss) == ss

\* Session::Update, the last ping has not been answered in time
PingUnanswered(ss) ==
    [ss EXCEPT !.pinged = FALSE, !.timeout = IF @ = "none" THEN "running" ELSE @]

\* Session::Update: a ping is sent, found unanswered, or not due
Pings(ss) ==
    IF ~ss.pingDue THEN ss
    ELSE IF ss.pinged THEN PingUnanswered(ss)
    ELSE [ss EXCEPT !.pinged = TRUE, !.pingDue = FALSE]

\* A round that ends nothing: Room::Update updates every player's session.  If
\* it is at work with what has been deleted, the process dies, or the memory
\* still holds what it held and the round ends as any other.
RoomRound(r) ==
    LET present == {plr[room[r].members[n]].session : n \in DOMAIN room[r].members} IN
    /\ Runs(r) /\ (ToBeEnded(r) => r \in caught)
    /\ \/ /\ Dangling(r) \/ r \in caught
          /\ Die("useAfterFree")
       \/ /\ ~Dangling(r)
          /\ room' = [room EXCEPT ![r].empty = EmptyAfterRound(r)]
          /\ sess' = [s \in Conn |-> IF s \in present THEN Pings(sess[s]) ELSE sess[s]]
          /\ caught' = caught \ {r}
          /\ UNCHANGED <<clients, accepted, cursor, socket, errno, recPlayer, plr, roomMap,
                         lastRoomId, users, fault, wrongEntry>>

\* Room::Run ends an empty room: Gameplay::DestroyRoom, then out of the loop
EndRoom(r) ==
    /\ Runs(r) /\ ToBeEnded(r) /\ r \notin caught
    /\ roomMap' = roomMap \ {r}
    /\ room' = [room EXCEPT ![r].thread = "ended"]
    /\ UNCHANGED <<clients, accepted, cursor, socket, errno, recPlayer, sess, plr, lastRoomId,
                   caught, users, fault, wrongEntry>>

\* Mutant: ~Room leaves its players' m_roomId alone
ReleaseNobody(r) == UNCHANGED plr

\* ~Room takes its players out of the room
ReleasePlayers(r) ==
    plr' = [p \in Conn |-> IF p \in ToSet(room[r].members)
                           THEN [plr[p] EXCEPT !.roomId = NoRoom] ELSE plr[p]]

\* runRoomUpdater deletes the room
DeleteRoom(r) ==
    /\ fault = "none" /\ room[r].thread = "ended"
    /\ \/ /\ Dangling(r)
          /\ Die("useAfterFree")
       \/ /\ ~Dangling(r)
          /\ ReleasePlayers(r)
          /\ room' = [room EXCEPT ![r].thread = "deleted", ![r].members = <<>>]
          /\ UNCHANGED <<clients, accepted, cursor, socket, errno, recPlayer, sess, roomMap,
                         lastRoomId, caught, users, fault, wrongEntry>>

-----------------------------------------------------------------------------
(* The environment: connections end, time passes. *)

Elsewhere == <<clients, accepted, cursor, errno, recPlayer, plr, roomMap, lastRoomId, caught,
               users, fault, wrongEntry>>

ConnectionEnds(s, how) ==
    /\ fault = "none" /\ s \in clients /\ socket[s] = "open"
    /\ socket' = [socket EXCEPT ![s] = how]
    /\ UNCHANGED <<Elsewhere, sess, room>>

\* A send of either thread reports, and so consumes, the pending ECONNRESET;
\* recv returns 0 from then on
ResetConsumed(s) ==
    /\ fault = "none" /\ s \in clients /\ socket[s] = "reset"
    /\ socket' = [socket EXCEPT ![s] = "fin"]
    /\ UNCHANGED <<Elsewhere, sess, room>>

\* SESSION_INACTIVITY_EXPIRE seconds have passed
TimeoutPasses(s) ==
    /\ fault = "none" /\ sess[s].timeout = "running"
    /\ sess' = [sess EXCEPT ![s].timeout = "passed"]
    /\ UNCHANGED <<Elsewhere, socket, room>>

\* PING_TIMER or PING_RESPONSE_TIME_LIMIT has passed, the two are the same
PingTimePasses(s) ==
    /\ fault = "none" /\ s \in clients /\ ~sess[s].pingDue
    /\ sess' = [sess EXCEPT ![s].pingDue = TRUE]
    /\ UNCHANGED <<Elsewhere, socket, room>>

\* ROOM_EMPTY_SHUTDOWN seconds have passed
EmptyTimePasses(r) ==
    /\ fault = "none" /\ room[r].empty = "counting"
    /\ room' = [room EXCEPT ![r].empty = "due"]
    /\ UNCHANGED <<Elsewhere, socket, sess>>

-----------------------------------------------------------------------------

HandlePacket(c) ==
    \/ Violation(c)
    \/ ShortPacket(c)
    \/ HandleWithoutEffect(c)
    \/ HandleInMissingRoom(c)
    \/ HandlePong(c)
    \/ HandleAuthRefused(c)
    \/ \E i \in Accounts : \/ HandleLoginRequest(c, i)
                           \/ HandleRegisterRequest(c, i) \/ HandleRegisterTaken(c, i)
    \/ \E k \in AllKeys, i \in Ids : HandleRestoreNotFound(c, k, i) \/ HandleRestoreSession(c, k, i)
    \/ \E r \in Rooms : HandleJoinRoomRequest(c, r)
    \/ HandleCreateRoom(c)
    \/ HandlePlayerExit(c)

UpdateClient(c) ==
    \/ RemoveExpired(c)
    \/ SkipTimedOut(c)
    \/ KickTimedOut(c)
    \/ NothingRead(c)
    \/ StartTimeout(c)
    \/ RemoveBroken(c)
    \/ RemoveMalformed(c)
    \/ HandlePacket(c)

NetworkThread == AcceptConnection \/ AcceptNothing \/ \E c \in Conn : UpdateClient(c)

RoomUpdater(r) == RoomRound(r) \/ EndRoom(r) \/ DeleteRoom(r)

Environment ==
    \/ \E s \in Conn, how \in Failures : ConnectionEnds(s, how)
    \/ \E s \in Conn : ResetConsumed(s) \/ TimeoutPasses(s) \/ PingTimePasses(s)
    \/ \E r \in Rooms : EmptyTimePasses(r)

Next == NetworkThread \/ (\E r \in Rooms : RoomUpdater(r)) \/ Environment

Spec == Init /\ [][Next]_vars

-----------------------------------------------------------------------------
(* Safety. *)

\* The three objects of a connection belong together: a record's player has
\* that record's session, and the session that player.  The exchange of a
\* session restore (PacketHandlers.cpp:257-272) moves four of these pointers
\* and two records, also when a session restores itself.
Pairing == \A c \in clients : Sess(c) = c /\ Plr(c) = recPlayer[c]

\* A room's player list and the players' m_roomId say the same, and a list
\* holds no player twice and no deleted one, as long as every RemovePlayer
\* has erased the entry of its own player (Room.cpp:226-234 erases the first
\* entry with an equal id).
MembershipExact ==
    fault = "none" /\ ~wrongEntry =>
        \A r \in Rooms :
            /\ IsInjective(room[r].members)
            /\ ToSet(room[r].members) = {p \in LivePlayers : plr[p].roomId = r}

\* A session that is not in game has a player that is in no room.
\* HandleCreateRoom depends on it: unlike HandleJoinRoomRequest it does not
\* ask whether the player is in a room already.  A kicked session is an
\* exception (its player can be in a room until its next turn), and nothing is
\* said after a RemovePlayer that erased another player's entry.
OutsideGameNoRoom ==
    ~wrongEntry =>
        \A c \in clients :
            sess[c].state # "game" /\ ~sess[c].expired => plr[recPlayer[c]].roomId = NoRoom

\* The process can only die on a deleted player, session or entry of a list if a
\* round was at work with it when it went (RemoveClient and RemovePlayer do not
\* wait for the room's thread, Room.cpp:124-125), or after a RemovePlayer erased
\* the wrong entry; and on a missing room only after that or after a room has
\* been ended.  In particular no list is left with a deleted player for a later
\* round or a later turn to meet.
FaultCauses ==
    /\ fault = "useAfterFree" =>
           wrongEntry \/ \E r \in caught : room[r].thread = "running"
    /\ fault = "nullRoom" =>
           wrongEntry \/ \E r \in Rooms : room[r].thread \in {"ended", "deleted"}

\* A player that changes hands stays what it is, the same account in the same
\* room, and loses its old session to a kick; the new session is in game
\* exactly if the player is in a room (PacketHandlers.cpp:237-278).
TakenOver(p) ==
    LET old == plr[p].session
        new == plr'[p].session
    IN  new # old =>
          /\ plr'[p].id = plr[p].id /\ plr'[p].roomId = plr[p].roomId
          /\ \/ /\ sess'[old].expired
                /\ sess'[new].state = "game" <=> plr[p].roomId # NoRoom
             \/ sess'[new].expired

RestoresAreTakeovers == [][\A p \in LivePlayers \cap LivePlayers' : TakenOver(p)]_vars

\* While a player is in a room its account id does not change, so that
\* RemovePlayer, which searches by id, finds an entry with the id under which
\* AddPlayer made it.
KeepsId(p) == plr[p].roomId # NoRoom => plr'[p].id = plr[p].id

IdFixedInRoom == [][\A p \in LivePlayers \cap LivePlayers' : KeepsId(p)]_vars

\* A kicked session stays kicked, and its client's next turn removes it or
\* kills the process: it handles no further packet (Session.cpp:185 "will be
\* cut by network thread in next turn").
StaysKicked(c) ==
    sess[c].expired =>
        /\ c \in clients' => sess'[c].expired
        /\ cursor = c /\ cursor' # c => c \notin clients'

KickIsFinal == [][\A c \in clients : StaysKicked(c)]_vars

\* A login leaves no other session logged in to the same account: whoever was
\* there is kicked (PacketHandlers.cpp:78 "if there's another user logged in
\* to that account, kick him").
LoginKicksOthers ==
    [][\A c, d \in clients \cap clients' :
          /\ c # d /\ (\E i \in Accounts : HandleLoginRequest(c, i)) /\ ~sess'[c].expired
          /\ sess[d].state # "auth"
          /\ plr'[recPlayer'[d]].id = plr'[recPlayer'[c]].id
          => sess'[d].expired]_vars

\* What Presence says of the clients, in terms of records, sessions, players
\* and the rooms' lists
Account == [c \in clients |-> plr[recPlayer[c]].id]
Present == [r \in Rooms |-> {c \in clients : recPlayer[c] \in ToSet(room[r].members)}]
Kicked == {c \in clients : sess[c].expired}
Status == IF fault # "none" THEN "dead" ELSE IF wrongEntry THEN "astray" ELSE "up"

PresenceService ==
    INSTANCE Presence WITH Conns <- Conn, account <- Account, present <- Present,
                           kicked <- Kicked, open <- roomMap, registered <- users,
                           status <- Status

\* Whatever arrives, is restored, kicked, ended and removed, in any order, a
\* client sees the steps of Presence: in particular a restored session has
\* the old one's account and room at once (PacketHandlers.cpp:237-278), and
\* the service goes wrong only where Presence says so.
ImplementsPresence == PresenceService!Spec

-----------------------------------------------------------------------------
(* Liveness: the network thread and the rooms' threads run, time passes. *)

Fairness ==
    /\ WF_vars(NetworkThread)
    /\ \A r \in Rooms : WF_vars(RoomUpdater(r))
    /\ \A s \in Conn : WF_vars(TimeoutPasses(s)) /\ WF_vars(PingTimePasses(s))

FairSpec == Spec /\ Fairness

\* A session in timeout, and a kicked one, is removed in the end
TimedOutLeaves ==
    \A c \in Conn :
        c \in clients /\ (sess[c].timeout # "none" \/ sess[c].expired)
            ~> c \notin clients \/ fault # "none"

\* The default room's ping notices every player whose connection is gone, also
\* when recv hides it
LostPlayerLeaves ==
    \A c \in Conn :
        c \in clients /\ socket[c] # "open" /\ plr[sess[c].player].roomId = DefaultRoom
            ~> c \notin clients \/ fault # "none" \/ wrongEntry

\* A connection closed by its client is noticed wherever the client is
\* (Network.cpp:346 "connection closed by remote endpoint (either controlled
\* or errorneous scenario, but initiated by client)").
ClosedClientLeaves ==
    \A c \in Conn :
        c \in clients /\ socket[c] = "fin" ~> c \notin clients \/ fault # "none"

=============================================================================
