------------------------- MODULE Membership_proofs -------------------------
(***************************************************************************)
(* Proofs about the rooms of Sessions: as long as every RemovePlayer has   *)
(* erased its own player's entry, the rooms' player lists and the players' *)
(* room ids are one relation, the session states follow it, and the        *)
(* process dies only of what FaultCauses names.  From that, that Sessions  *)
(* implements Presence.                                                    *)
(***************************************************************************)
EXTENDS Sessions_proofs, SequenceTheorems, FiniteSetTheorems, WellFoundedInduction

\* m_rooms holds the rooms whose threads run; room ids are given out in order,
\* and a room nobody created has no players.
RoomsInOrder ==
    \A r \in Rooms :
        /\ r \in roomMap <=> room[r].thread = "running"
        /\ room[r].thread = "unborn" <=> r > lastRoomId
        /\ room[r].thread = "unborn" => room[r].members = <<>>

\* The players of room r, according to their m_roomId
PlayersIn(r) == {p \in LivePlayers : plr[p].roomId = r}

\* MembershipExact also in the state in which the process dies
Exact ==
    ~wrongEntry => \A r \in Rooms : /\ IsInjective(room[r].members)
                                    /\ ToSet(room[r].members) = PlayersIn(r)

\* A room has been ended
SomeRoomEnded == \E r \in Rooms : room[r].thread \in {"ended", "deleted"}

\* A round is at work with what has been deleted
SomeoneCaught == \E r \in caught : room[r].thread = "running"

\* A session in game has a player in a room, unless a room was ended.
InGameInRoom ==
    ~wrongEntry /\ ~SomeRoomEnded =>
        \A c \in clients :
            sess[c].state = "game" /\ ~sess[c].expired => plr[recPlayer[c]].roomId # NoRoom

\* The inductive invariant
RInv == RoomsInOrder /\ Exact /\ OutsideGameNoRoom /\ InGameInRoom /\ FaultCauses

-----------------------------------------------------------------------------
(* Player lists. *)

\* An entry taken out of a list without repetitions takes its player out.
LEMMA RemoveEntry ==
    ASSUME NEW S, NEW s \in Seq(S), IsInjective(s), NEW n \in DOMAIN s
    PROVE  IsInjective(RemoveAt(s, n)) /\ ToSet(RemoveAt(s, n)) = ToSet(s) \ {s[n]}
<1> DEFINE l == SubSeq(s, 1, n - 1)
           r == SubSeq(s, n + 1, Len(s))
           t == l \o r
           Old(j) == IF j < n THEN j ELSE j + 1
<1>1. DOMAIN s = 1 .. Len(s) /\ Len(s) \in Nat /\ n \in 1 .. Len(s)
  OBVIOUS
<1>2. /\ l \in Seq(S) /\ Len(l) = n - 1 /\ \A j \in 1 .. n - 1 : l[j] = s[j]
      /\ r \in Seq(S) /\ Len(r) = Len(s) - n /\ \A j \in 1 .. Len(s) - n : r[j] = s[j + n]
  <2>1. l \in Seq(S) /\ Len(l) = n - 1 /\ \A j \in 1 .. n - 1 : l[j] = s[j]
    BY <1>1
  <2>2. r \in Seq(S) /\ Len(r) = Len(s) - n
    BY <1>1
  <2>3. \A j \in 1 .. Len(s) - n : r[j] = s[j + n]
    BY <1>1
  <2> QED
    BY <2>1, <2>2, <2>3
<1> HIDE DEF l, r
<1>3. /\ t \in Seq(S) /\ Len(t) = Len(s) - 1
      /\ \A j \in 1 .. Len(s) - 1 : t[j] = IF j <= Len(l) THEN l[j] ELSE r[j - Len(l)]
  <2>1. Len(l) + Len(r) = Len(s) - 1
    BY <1>1, <1>2
  <2>2. /\ t \in Seq(S) /\ Len(t) = Len(l) + Len(r)
        /\ \A j \in 1 .. Len(l) + Len(r) : t[j] = IF j <= Len(l) THEN l[j] ELSE r[j - Len(l)]
    BY <1>2, ConcatProperties
  <2> HIDE DEF t
  <2> QED
    BY <2>1, <2>2
<1>4. ASSUME NEW j \in 1 .. Len(s) - 1
      PROVE  Old(j) \in 1 .. Len(s) /\ Old(j) # n /\ t[j] = s[Old(j)]
  <2>1. CASE j < n
    <3>1. j \in 1 .. n - 1 /\ j <= Len(l)
      BY <1>1, <1>2, <2>1
    <3> QED
      BY <1>1, <1>2, <1>3, <2>1, <3>1
  <2>2. CASE ~(j < n)
    <3>1. j - Len(l) \in 1 .. Len(s) - n /\ ~(j <= Len(l)) /\ (j - Len(l)) + n = j + 1
      BY <1>1, <1>2, <2>2
    <3>2. t[j] = s[j + 1]
      BY <1>2, <1>3, <3>1
    <3> QED
      BY <1>1, <2>2, <3>2
  <2> QED
    BY <2>1, <2>2
<1>5. DOMAIN t = 1 .. Len(s) - 1 /\ RemoveAt(s, n) = t
  <2>1. RemoveAt(s, n) = t
    BY DEF RemoveAt, l, r
  <2> HIDE DEF t
  <2> QED
    BY <1>3, <2>1
<1> HIDE DEF t
<1>6. IsInjective(t)
  <2> SUFFICES ASSUME NEW i \in 1 .. Len(s) - 1, NEW j \in 1 .. Len(s) - 1, t[i] = t[j] PROVE i = j
    BY <1>5 DEF IsInjective
  <2>1. Old(i) = Old(j)
    <3> HIDE DEF Old
    <3> QED
      BY <1>1, <1>4 DEF IsInjective
  <2> QED
    BY <1>1, <2>1
<1>7. ASSUME NEW i \in 1 .. Len(s), i # n PROVE \E j \in 1 .. Len(s) - 1 : Old(j) = i
  <2>1. CASE i < n
    BY <1>1, <2>1
  <2>2. CASE i > n
    <3>1. i - 1 \in 1 .. Len(s) - 1 /\ Old(i - 1) = i
      BY <1>1, <2>2
    <3> QED
      BY <3>1
  <2> QED
    BY <1>1, <1>7, <2>1, <2>2
<1> HIDE DEF Old
<1>8. ASSUME NEW q \in ToSet(t) PROVE q \in ToSet(s) \ {s[n]}
  BY <1>1, <1>4, <1>5 DEF ToSet, IsInjective
<1>9. ASSUME NEW q \in ToSet(s), q # s[n] PROVE q \in ToSet(t)
  <2>1. PICK i \in 1 .. Len(s) : s[i] = q
    BY <1>1 DEF ToSet
  <2>2. PICK j \in 1 .. Len(s) - 1 : Old(j) = i
    BY <1>7, <1>9, <2>1
  <2>3. t[j] = q
    BY <1>4, <2>1, <2>2
  <2> QED
    BY <1>5, <2>3 DEF ToSet
<1> QED
  BY <1>5, <1>6, <1>8, <1>9

\* AddPlayer puts a player into a list that does not hold it.
LEMMA AppendEntry ==
    ASSUME NEW S, NEW s \in Seq(S), IsInjective(s), NEW p \in S, p \notin ToSet(s)
    PROVE  IsInjective(Append(s, p)) /\ ToSet(Append(s, p)) = ToSet(s) \cup {p}
<1> DEFINE t == Append(s, p)
<1>1. /\ DOMAIN s = 1 .. Len(s) /\ Len(s) \in Nat /\ DOMAIN t = 1 .. Len(s) + 1
      /\ \A i \in 1 .. Len(s) : t[i] = s[i]
      /\ t[Len(s) + 1] = p
  OBVIOUS
<1> HIDE DEF t
<1>2. \A i \in 1 .. Len(s) + 1 : i = Len(s) + 1 \/ i \in 1 .. Len(s)
  BY <1>1
<1>3. \A i \in 1 .. Len(s) : s[i] # p
  BY <1>1 DEF ToSet
<1>4. IsInjective(t)
  BY <1>1, <1>2, <1>3 DEF IsInjective
<1>5. \A i \in 1 .. Len(s) : i \in 1 .. Len(s) + 1
  BY <1>1
<1>6. Len(s) + 1 \in 1 .. Len(s) + 1
  BY <1>1
<1>7. ToSet(t) = ToSet(s) \cup {p}
  BY <1>1, <1>2, <1>5, <1>6 DEF ToSet
<1> QED
  BY <1>4, <1>7 DEF t

\* A RemovePlayer after which wrongEntry is still FALSE has taken its own
\* player out; no other room's list changes, and no thread.
LEMMA EraseFacts ==
    ASSUME TypeOK, NEW r \in Rooms, NEW p, EraseEntry(r, p)
    PROVE  /\ wrongEntry => wrongEntry'
           /\ \A q \in Rooms : room'[q].thread = room[q].thread
           /\ \A q \in Rooms : room[q].members = <<>> => room'[q].members = <<>>
           /\ \A q \in Rooms \ {r} : room'[q].members = room[q].members
           /\ ~wrongEntry' => EntryToErase(r, p) # {}
           /\ ~wrongEntry' /\ IsInjective(room[r].members) =>
                 /\ IsInjective(room'[r].members)
                 /\ ToSet(room'[r].members) = ToSet(room[r].members) \ {p}
<1> DEFINE entry == EntryToErase(r, p)
<1>1. /\ room \in [Rooms -> Room] /\ wrongEntry \in BOOLEAN
      /\ room[r].members \in Seq(Conn) /\ entry \subseteq DOMAIN room[r].members
  BY DEF TypeOK, Room, EntryToErase, FirstOf
<1>2. wrongEntry' = (wrongEntry \/ {room[r].members[n] : n \in entry} # {p})
  BY DEF EraseEntry
<1>3. CASE entry = {}
  <2>1. room' = room /\ wrongEntry'
    BY <1>2, <1>3 DEF EraseEntry
  <2> QED
    BY <2>1
<1>4. CASE entry # {}
  <2> DEFINE n == CHOOSE m \in entry : TRUE
  <2>1. n \in entry /\ n \in DOMAIN room[r].members
    BY <1>1, <1>4
  <2>2. room' = [room EXCEPT ![r].members = RemoveAt(@, n)]
    BY <1>4 DEF EraseEntry
  <2> HIDE DEF n, entry
  <2>3. /\ \A q \in Rooms : room'[q].thread = room[q].thread
        /\ \A q \in Rooms \ {r} : room'[q].members = room[q].members
        /\ room'[r].members = RemoveAt(room[r].members, n)
    BY <1>1, <2>2 DEF Room
  <2>4. room[r].members # <<>>
    BY <2>1
  <2>5. ~wrongEntry' => room[r].members[n] = p
    BY <1>2, <2>1
  <2>6. IsInjective(room[r].members) =>
           /\ IsInjective(room'[r].members)
           /\ ToSet(room'[r].members) = ToSet(room[r].members) \ {room[r].members[n]}
    BY <1>1, <2>1, <2>3, RemoveEntry
  <2> QED
    BY <1>2, <1>4, <2>3, <2>4, <2>5, <2>6 DEF entry
<1> QED
  BY <1>3, <1>4

-----------------------------------------------------------------------------
(* What the invariant says of a step's state. *)

\* A player list holds a deleted player only after a wrong entry was erased.
LEMMA NoDangling == ASSUME Exact, NEW r \in Rooms, Dangling(r) PROVE wrongEntry
BY DEF Exact, Dangling, PlayersIn, ToSet

\* A player's room is in m_rooms, unless a room has been ended.
LEMMA RoomOfPlayer ==
    ASSUME IInv, RInv, ~wrongEntry, NEW c \in clients,
           plr[recPlayer[c]].roomId # NoRoom, plr[recPlayer[c]].roomId \notin roomMap
    PROVE  SomeRoomEnded
<1> DEFINE p == recPlayer[c]
           r == plr[p].roomId
<1>1. p \in Conn /\ p \in LivePlayers
  BY SessOfRecord DEF LivePlayers
<1>2. r \in Rooms
  BY <1>1 DEF IInv, TypeOK, Player
<1>3. p \in ToSet(room[r].members)
  BY <1>1, <1>2 DEF RInv, Exact, PlayersIn
<1>4. room[r].members # <<>>
  BY <1>3 DEF ToSet
<1>5. room[r].thread \in {"ended", "deleted"}
  BY <1>2, <1>4 DEF RInv, RoomsInOrder, IInv, TypeOK, Room
<1> QED
  BY <1>2, <1>5 DEF SomeRoomEnded

\* The process dies of what FaultCauses names.
LEMMA DieRooms ==
    ASSUME RInv, NEW how, Die(how),
           how = "useAfterFree" => wrongEntry \/ SomeoneCaught,
           how = "nullRoom" => wrongEntry \/ SomeRoomEnded
    PROVE  RInv'
BY DEF RInv, RoomsInOrder, Exact, OutsideGameNoRoom, InGameInRoom, FaultCauses, SomeRoomEnded,
       SomeoneCaught, PlayersIn, LivePlayers, Die

\* Nobody enters or leaves a room, no room changes, and the sessions that can
\* still handle packets stay in game or out of it.
LEMMA RoomsKept ==
    ASSUME IInv, RInv,
           UNCHANGED <<clients, recPlayer, roomMap, lastRoomId, fault, wrongEntry>>,
           fault = "none" \/ UNCHANGED caught,
           \A r \in Rooms : /\ room'[r].thread = room[r].thread
                            /\ room'[r].members = room[r].members,
           \A p \in Conn : plr'[p].roomId = plr[p].roomId,
           \A c \in Conn : ~sess'[c].expired =>
                              /\ ~sess[c].expired
                              /\ sess'[c].state = "game" <=> sess[c].state = "game"
    PROVE  RInv'
<1>1. clients \subseteq Conn /\ LivePlayers \subseteq Conn
  BY SessOfRecord DEF LivePlayers
<1>2. LivePlayers' = LivePlayers /\ SomeRoomEnded' = SomeRoomEnded
  BY DEF LivePlayers, SomeRoomEnded
<1>3. \A r \in Rooms : PlayersIn(r)' = PlayersIn(r)
  BY <1>1, <1>2 DEF PlayersIn
<1>4. RoomsInOrder' /\ Exact'
  BY <1>3 DEF RInv, RoomsInOrder, Exact
<1>5. \A c \in clients : recPlayer[c] \in Conn
  BY SessOfRecord
<1>6. OutsideGameNoRoom' /\ InGameInRoom'
  BY <1>1, <1>2, <1>5 DEF RInv, OutsideGameNoRoom, InGameInRoom
<1>7. FaultCauses'
  BY DEF RInv, FaultCauses, IInv, TypeOK
<1> QED
  BY <1>4, <1>6, <1>7 DEF RInv

-----------------------------------------------------------------------------
(* Each action preserves the invariant. *)

\* The server starts with an empty default room and nobody connected.
LEMMA InitRooms == Init => RInv
<1> SUFFICES ASSUME Init PROVE RInv
    OBVIOUS
<1>1. \A r \in Rooms : r > DefaultRoom <=> r # DefaultRoom
  BY BoundsAssumption DEF Rooms, DefaultRoom
<1>2. RoomsInOrder
  BY <1>1 DEF Init, RoomsInOrder
<1>3. Exact
  BY DEF Init, Exact, IsInjective, ToSet, PlayersIn, LivePlayers
<1> QED
  BY <1>2, <1>3 DEF Init, RInv, OutsideGameNoRoom, InGameInRoom, FaultCauses

\* A handler's return changes no state, expiry mark or room of its own.
LEMMA HandledFields ==
    ASSUME NEW c, Sess(c) \in Conn, NEW ss \in [Conn -> Session], Handled(c, ss)
    PROVE  /\ \A s \in Conn : sess'[s].state = ss[s].state /\ sess'[s].expired = ss[s].expired
           /\ UNCHANGED <<clients, fault>>
BY DEF Handled, Session

\* The turns, handlers and environment steps that concern no room
LEMMA QuietRooms ==
    ASSUME IInv, RInv,
           \/ AcceptNothing
           \/ \E c \in Conn : \/ SkipTimedOut(c) \/ KickTimedOut(c) \/ NothingRead(c)
                              \/ StartTimeout(c) \/ Violation(c) \/ HandleWithoutEffect(c)
           \/ Environment
    PROVE  RInv'
<1>0. sess \in [Conn -> Session] /\ room \in [Rooms -> Room]
  BY DEF IInv, TypeOK
<1>1. CASE AcceptNothing
  BY <1>1, RoomsKept DEF AcceptNothing
<1>2. ASSUME NEW c \in Conn,
             \/ SkipTimedOut(c) \/ KickTimedOut(c) \/ NothingRead(c)
             \/ StartTimeout(c) \/ Violation(c) \/ HandleWithoutEffect(c)
      PROVE  RInv'
  <2>1. c \in clients /\ Sess(c) = c /\ UNCHANGED Untouched
    BY <1>2, SessOfRecord DEF SkipTimedOut, KickTimedOut, NothingRead, StartTimeout, Violation,
       HandleWithoutEffect, Packet, Reads, Turn
  <2>2. \A s \in Conn : ~sess'[s].expired =>
                           ~sess[s].expired /\ (sess'[s].state = "game" <=> sess[s].state = "game")
    <3>1. CASE SkipTimedOut(c) \/ NothingRead(c)
      BY <3>1 DEF SkipTimedOut, NothingRead
    <3>2. CASE KickTimedOut(c)
      BY <1>0, <2>1, <3>2 DEF KickTimedOut, Session
    <3>3. CASE StartTimeout(c)
      BY <1>0, <2>1, <3>3 DEF StartTimeout, Session
    <3>4. CASE Violation(c)
      BY <1>0, <2>1, <3>4, PacketClient DEF Violation, Session
    <3>5. CASE HandleWithoutEffect(c)
      BY <1>0, <2>1, <3>5, HandledFields DEF HandleWithoutEffect
    <3> QED
      BY <1>2, <3>1, <3>2, <3>3, <3>4, <3>5
  <2> QED
    BY <2>1, <2>2, RoomsKept DEF Untouched
<1>3. CASE Environment
  <2>1. ASSUME NEW s \in Conn, NEW how \in Failures, ConnectionEnds(s, how) PROVE RInv'
    BY <2>1, RoomsKept DEF ConnectionEnds, Elsewhere
  <2>2. ASSUME NEW s \in Conn, ResetConsumed(s) PROVE RInv'
    BY <2>2, RoomsKept DEF ResetConsumed, Elsewhere
  <2>3. ASSUME NEW s \in Conn, TimeoutPasses(s) \/ PingTimePasses(s) PROVE RInv'
    <3>1. \A t \in Conn : sess'[t].state = sess[t].state /\ sess'[t].expired = sess[t].expired
      BY <1>0, <2>3 DEF TimeoutPasses, PingTimePasses, Session
    <3>2. UNCHANGED <<Elsewhere, room>>
      BY <2>3 DEF TimeoutPasses, PingTimePasses
    <3> QED
      BY <3>1, <3>2, RoomsKept DEF Elsewhere
  <2>4. ASSUME NEW r \in Rooms, EmptyTimePasses(r) PROVE RInv'
    <3>1. \A q \in Rooms : room'[q].thread = room[q].thread /\ room'[q].members = room[q].members
      BY <1>0, <2>4 DEF EmptyTimePasses, Room
    <3>2. UNCHANGED <<Elsewhere, sess>>
      BY <2>4 DEF EmptyTimePasses
    <3> QED
      BY <3>1, <3>2, RoomsKept DEF Elsewhere
  <2> QED
    BY <1>3, <2>1, <2>2, <2>3, <2>4 DEF Environment
<1> QED
  BY <1>1, <1>2, <1>3

\* The handlers that leave the rooms alone: no session enters or leaves the
\* game, and none that was kicked comes back.
LEMMA PlainHandlersRooms ==
    ASSUME IInv, RInv, NEW c \in Conn,
           \/ HandlePong(c) \/ HandleAuthRefused(c)
           \/ \E k \in AllKeys, i \in Ids : HandleRestoreNotFound(c, k, i)
           \/ \E i \in Accounts : \/ HandleLoginRequest(c, i)
                                  \/ HandleRegisterRequest(c, i) \/ HandleRegisterTaken(c, i)
    PROVE  RInv'
<1>0. /\ c \in clients /\ Sess(c) = c /\ Plr(c) \in Conn
      /\ sess \in [Conn -> Session] /\ plr \in [Conn -> Player]
  BY PacketClient DEF HandlePong, HandleAuthRefused, HandleRestoreNotFound, HandleLoginRequest,
     HandleRegisterRequest, HandleRegisterTaken, IInv, TypeOK
<1>1. ASSUME NEW ss \in [Conn -> Session], Handled(c, ss),
             \A s \in Conn : ~ss[s].expired =>
                                ~sess[s].expired /\ (ss[s].state = "game" <=> sess[s].state = "game"),
             UNCHANGED <<recPlayer, roomMap, lastRoomId, room, caught, wrongEntry>>,
             plr' = plr \/ \E i \in Ids : plr' = [plr EXCEPT ![Plr(c)].id = i]
      PROVE  RInv'
  <2>1. \A p \in Conn : plr'[p].roomId = plr[p].roomId
    BY <1>0, <1>1 DEF Player
  <2> QED
    BY <1>0, <1>1, <2>1, HandledFields, RoomsKept
<1>2. CASE HandlePong(c) \/ HandleAuthRefused(c)
           \/ \E k \in AllKeys, i \in Ids : HandleRestoreNotFound(c, k, i)
  <2>1. PICK ss :
           /\ Handled(c, ss)
           /\ \/ ss = sess
              \/ ss = [sess EXCEPT ![c].pinged = FALSE]
              \/ \E k \in Keys : ss = [sess EXCEPT ![c].key = k]
    BY <1>0, <1>2 DEF HandlePong, HandleAuthRefused, HandleRestoreNotFound
  <2>2. ss \in [Conn -> Session]
    <3>1. [sess EXCEPT ![c].pinged = FALSE] \in [Conn -> Session]
      BY <1>0, FieldType
    <3>2. \A k \in Keys : [sess EXCEPT ![c].key = k] \in [Conn -> Session]
      BY <1>0, FieldType DEF AllKeys
    <3> QED
      BY <1>0, <2>1, <3>1, <3>2
  <2>3. \A s \in Conn : ss[s].expired = sess[s].expired /\ ss[s].state = sess[s].state
    BY <1>0, <2>1 DEF Session
  <2>4. UNCHANGED Untouched
    BY <1>2 DEF HandlePong, HandleAuthRefused, HandleRestoreNotFound
  <2> QED
    BY <1>1, <2>1, <2>2, <2>3, <2>4 DEF Untouched
<1>3. ASSUME NEW i \in Accounts, HandleLoginRequest(c, i) PROVE RInv'
  <2> DEFINE existing == FindSessionByPlayerId(i)
             offered == \E e \in existing : Restorable(e)
             kicked == IF offered THEN {c} ELSE existing
             ss(k) == [t \in Conn |->
                         [sess[t] EXCEPT !.key = IF t = c THEN k ELSE @,
                                         !.state = IF t = c /\ ~offered THEN "lobby" ELSE @,
                                         !.expired = @ \/ t \in kicked]]
  <2>1. PICK k \in Keys : Handled(c, ss(k))
    BY <1>0, <1>3 DEF HandleLoginRequest
  <2>2. sess[c].state \in {"auth"}
    <3>1. Packet(c, {"auth"})
      BY <1>3 DEF HandleLoginRequest
    <3> QED
      BY <3>1, PacketClient
  <2> HIDE DEF kicked, offered
  <2>3. ASSUME NEW t \in Conn
        PROVE  /\ ss(k)[t] \in Session
               /\ ss(k)[t].expired = (sess[t].expired \/ t \in kicked)
               /\ ss(k)[t].state = IF t = c /\ ~offered THEN "lobby" ELSE sess[t].state
    <3>1. sess[t] \in Session
      BY <1>0
    <3>2. (sess[t].expired \/ t \in kicked) \in BOOLEAN
      BY <3>1 DEF Session
    <3>3. (IF t = c THEN k ELSE sess[t].key) \in AllKeys
      BY <3>1 DEF Session, AllKeys
    <3>4. (IF t = c /\ ~offered THEN "lobby" ELSE sess[t].state) \in {"auth", "lobby", "game"}
      BY <3>1 DEF Session
    <3> QED
      BY <3>1, <3>2, <3>3, <3>4 DEF Session
  <2>4. ss(k) \in [Conn -> Session]
    BY <2>3
  <2> HIDE DEF ss
  <2>5. \A s \in Conn : ~ss(k)[s].expired =>
             ~sess[s].expired /\ (ss(k)[s].state = "game" <=> sess[s].state = "game")
    <3> SUFFICES ASSUME NEW s \in Conn, ~ss(k)[s].expired
                 PROVE  ~sess[s].expired /\ (ss(k)[s].state = "game" <=> sess[s].state = "game")
      OBVIOUS
    <3>1. ~sess[s].expired
      BY <2>3
    <3>2. ss(k)[s].state = "game" <=> sess[s].state = "game"
      BY <2>2, <2>3
    <3> QED
      BY <3>1, <3>2
  <2> QED
    BY <1>1, <1>3, <2>1, <2>4, <2>5 DEF HandleLoginRequest, Ids
<1>4. ASSUME NEW i \in Accounts, HandleRegisterRequest(c, i) \/ HandleRegisterTaken(c, i)
      PROVE  RInv'
  <2> DEFINE ss(q, k) == [sess EXCEPT ![c].state = q, ![c].key = k]
  <2>1. sess[c].state \in {"auth"}
    <3>1. Packet(c, {"auth"})
      BY <1>4 DEF HandleRegisterRequest, HandleRegisterTaken
    <3> QED
      BY <3>1, PacketClient
  <2>2. PICK q \in {"auth", "lobby"}, k \in Keys : Handled(c, ss(q, k))
    <3>1. CASE Registered(c, i)
      BY <1>0, <3>1 DEF Registered
    <3>2. ASSUME NEW k \in Keys, Handled(c, [sess EXCEPT ![c].key = k])
          PROVE  \E q \in {"auth", "lobby"}, k2 \in Keys : Handled(c, ss(q, k2))
      <4>1. [sess EXCEPT ![c].key = k] = ss("auth", k)
        BY <1>0, <2>1 DEF Session
      <4> HIDE DEF ss
      <4> QED
        BY <3>2, <4>1
    <3> HIDE DEF ss
    <3> QED
      BY <1>0, <1>4, <3>1, <3>2 DEF HandleRegisterRequest, HandleRegisterTaken
  <2>3. ss(q, k) \in [Conn -> Session]
    <3> DEFINE st == [sess EXCEPT ![c].state = q]
    <3>1. st \in [Conn -> Session]
      BY <1>0, <2>2, FieldType DEF AnyState
    <3> HIDE DEF st
    <3>2. [st EXCEPT ![c].key = k] \in [Conn -> Session]
      BY <3>1, FieldType DEF AllKeys
    <3> QED
      BY <3>2 DEF st
  <2>4. \A s \in Conn : ~ss(q, k)[s].expired =>
             ~sess[s].expired /\ (ss(q, k)[s].state = "game" <=> sess[s].state = "game")
    BY <1>0, <2>1, <2>2 DEF Session
  <2> HIDE DEF ss
  <2>5. UNCHANGED <<recPlayer, roomMap, lastRoomId, room, caught, wrongEntry>>
    BY <1>4 DEF HandleRegisterRequest, HandleRegisterTaken
  <2>6. plr' = plr \/ plr' = [plr EXCEPT ![Plr(c)].id = i]
    BY <1>4 DEF HandleRegisterRequest, HandleRegisterTaken, Registered
  <2> QED
    BY <1>1, <2>2, <2>3, <2>4, <2>5, <2>6 DEF Ids
<1> QED
  BY <1>2, <1>3, <1>4

\* A new connection's player is in no room.
LEMMA AcceptRooms == ASSUME IInv, RInv, AcceptConnection PROVE RInv'
<1> USE BoundsAssumption
<1> DEFINE n == accepted + 1
<1>0. n \in Conn /\ n \notin clients
  BY DEF IInv, TypeOK, AcceptConnection, Conn
<1>1. ASSUME NEW d \in clients
      PROVE  /\ recPlayer[d] # n /\ recPlayer[d] \in Conn /\ d # n
             /\ recPlayer'[d] = recPlayer[d] /\ sess'[d] = sess[d]
             /\ plr'[recPlayer[d]] = plr[recPlayer[d]]
  <2>1. recPlayer[d] # n /\ recPlayer[d] \in Conn /\ d # n /\ d \in Conn
    BY <1>0, SessOfRecord DEF IInv, KnownPlayers, TypeOK
  <2> QED
    BY <1>0, <2>1 DEF IInv, TypeOK, AcceptConnection
<1>2. /\ clients' = clients \cup {n} /\ recPlayer'[n] = n
      /\ sess'[n].state = "auth" /\ plr'[n].roomId = NoRoom
      /\ UNCHANGED <<roomMap, lastRoomId, room, caught, fault, wrongEntry>>
  BY <1>0 DEF IInv, TypeOK, AcceptConnection, NewSession, NewPlayer
<1>3. /\ LivePlayers' = LivePlayers \cup {n} /\ n \notin LivePlayers
      /\ \A p \in LivePlayers : plr'[p] = plr[p]
  BY <1>1, <1>2 DEF LivePlayers
<1>4. \A r \in Rooms : PlayersIn(r)' = PlayersIn(r)
  BY <1>2, <1>3 DEF PlayersIn, Rooms, NoRoom
<1>5. RoomsInOrder' /\ Exact' /\ FaultCauses'
  BY <1>2, <1>4 DEF RInv, RoomsInOrder, Exact, FaultCauses
<1>6. SomeRoomEnded' = SomeRoomEnded
  BY <1>2 DEF SomeRoomEnded
<1>7. OutsideGameNoRoom' /\ InGameInRoom'
  BY <1>1, <1>2, <1>6 DEF RInv, OutsideGameNoRoom, InGameInRoom
<1> QED
  BY <1>5, <1>7 DEF RInv

\* The player of a removed client is gone, the other clients keep theirs.
LEMMA DeleteFacts ==
    ASSUME IInv, NEW c \in clients, Delete(c)
    PROVE  /\ clients' = clients \ {c} /\ LivePlayers' = LivePlayers \ {recPlayer[c]}
           /\ recPlayer[c] \in LivePlayers
           /\ \A p \in LivePlayers' : plr'[p] = plr[p]
           /\ \A d \in clients' : sess'[d] = sess[d] /\ recPlayer'[d] = recPlayer[d]
<1>0. c \in Conn /\ Sess(c) = c /\ recPlayer[c] \in Conn
  BY SessOfRecord
<1>1. ASSUME NEW d \in clients, d # c
      PROVE  /\ recPlayer[d] # recPlayer[c] /\ recPlayer'[d] = recPlayer[d]
             /\ sess'[d] = sess[d] /\ plr'[recPlayer[d]] = plr[recPlayer[d]]
  <2>1. d \in Conn /\ recPlayer[d] \in Conn /\ recPlayer[d] # recPlayer[c]
    BY <1>0, <1>1, SessOfRecord DEF Sess
  <2> QED
    BY <1>0, <1>1, <2>1 DEF IInv, TypeOK, Delete
<1>2. clients' = clients \ {c}
  BY DEF Delete
<1>3. LivePlayers' = LivePlayers \ {recPlayer[c]} /\ recPlayer[c] \in LivePlayers
  BY <1>1, <1>2 DEF LivePlayers
<1>4. \A p \in LivePlayers' : plr'[p] = plr[p]
  BY <1>1, <1>2 DEF LivePlayers
<1> QED
  BY <1>1, <1>2, <1>3, <1>4

\* RemoveClient takes the client's player out of its room before the player
\* is deleted.
LEMMA RemoveClientRooms ==
    ASSUME IInv, RInv, NEW c \in clients, NEW e, fault = "none", RemoveClient(c, e) PROVE RInv'
<1> DEFINE p == recPlayer[c]
           r == plr[p].roomId
<1>0. p \in Conn /\ r \in Rooms \cup {NoRoom} /\ roomMap \subseteq Rooms
  BY SessOfRecord DEF IInv, TypeOK, Player
<1>1. CASE r # NoRoom /\ r \notin roomMap /\ Die("nullRoom")
  <2>1. ~wrongEntry => SomeRoomEnded
    BY <1>1, RoomOfPlayer
  <2> QED
    BY <1>1, <2>1, DieRooms
<1>2. CASE r \in roomMap /\ Dangling(r) /\ Die("useAfterFree")
  BY <1>0, <1>2, NoDangling, DieRooms DEF RInv
<1>3. ASSUME Delete(c), wrongEntry => wrongEntry',
             \A q \in Rooms : /\ room'[q].thread = room[q].thread
                              /\ room[q].members = <<>> => room'[q].members = <<>>,
             ~wrongEntry' => \A q \in Rooms : /\ IsInjective(room'[q].members)
                                              /\ ToSet(room'[q].members) = PlayersIn(q) \ {p}
      PROVE  RInv'
  <2>1. /\ clients' = clients \ {c} /\ LivePlayers' = LivePlayers \ {p}
        /\ \A q \in LivePlayers' : plr'[q] = plr[q]
        /\ \A d \in clients' : sess'[d] = sess[d] /\ recPlayer'[d] = recPlayer[d]
    BY <1>3, DeleteFacts
  <2>2. UNCHANGED <<roomMap, lastRoomId, fault>>
    BY <1>3 DEF Delete
  <2>3. RoomsInOrder'
    BY <1>3, <2>2 DEF RInv, RoomsInOrder
  <2>4. \A q \in Rooms : PlayersIn(q)' = PlayersIn(q) \ {p}
    BY <2>1 DEF PlayersIn
  <2>5. Exact'
    BY <1>3, <2>4 DEF Exact
  <2>6. SomeRoomEnded' = SomeRoomEnded
    BY <1>3 DEF SomeRoomEnded
  <2>7. \A d \in clients' : plr'[recPlayer'[d]] = plr[recPlayer[d]]
    BY <2>1 DEF LivePlayers
  <2>8. OutsideGameNoRoom' /\ InGameInRoom'
    BY <1>3, <2>1, <2>6, <2>7 DEF RInv, OutsideGameNoRoom, InGameInRoom
  <2> QED
    BY <2>2, <2>3, <2>5, <2>8 DEF RInv, FaultCauses
<1>4. CASE r \in roomMap /\ EraseEntry(r, p) /\ Delete(c)
  <2>1. /\ r \in Rooms /\ (wrongEntry => wrongEntry')
        /\ \A q \in Rooms : /\ room'[q].thread = room[q].thread
                            /\ room[q].members = <<>> => room'[q].members = <<>>
    BY <1>0, <1>4, EraseFacts DEF IInv
  <2>2. ASSUME ~wrongEntry', NEW q \in Rooms
        PROVE  IsInjective(room'[q].members) /\ ToSet(room'[q].members) = PlayersIn(q) \ {p}
    <3>1. IsInjective(room[q].members) /\ ToSet(room[q].members) = PlayersIn(q)
      BY <2>1, <2>2 DEF RInv, Exact
    <3>2. CASE q = r
      BY <1>4, <2>1, <2>2, <3>1, <3>2, EraseFacts DEF IInv
    <3>3. CASE q # r
      <4>1. room'[q].members = room[q].members
        BY <1>4, <2>1, <3>3, EraseFacts DEF IInv
      <4> QED
        BY <3>1, <3>3, <4>1 DEF PlayersIn
    <3> QED
      BY <3>2, <3>3
  <2> QED
    BY <1>3, <1>4, <2>1, <2>2
<1>5. CASE r = NoRoom /\ Delete(c) /\ UNCHANGED <<room, wrongEntry>>
  <2>1. \A q \in Rooms : p \notin PlayersIn(q)
    BY <1>5 DEF PlayersIn, Rooms, NoRoom
  <2> QED
    BY <1>3, <1>5, <2>1 DEF RInv, Exact
<1> QED
  BY <1>1, <1>2, <1>4, <1>5 DEF RemoveClient

\* The three ways in which UpdateClients removes a client
LEMMA RemovalsRooms ==
    ASSUME IInv, RInv, NEW c \in Conn, RemoveExpired(c) \/ RemoveBroken(c) \/ RemoveMalformed(c)
    PROVE  RInv'
<1>1. c \in clients /\ fault = "none"
  BY DEF RemoveExpired, RemoveBroken, RemoveMalformed, Reads, Turn
<1>2. \E e : RemoveClient(c, e)
  BY DEF RemoveExpired, RemoveBroken, RemoveMalformed
<1> QED
  BY <1>1, <1>2, RemoveClientRooms

\* The handlers that kill the process
LEMMA DyingRooms ==
    ASSUME IInv, RInv, NEW c \in Conn, ShortPacket(c) \/ HandleInMissingRoom(c) PROVE RInv'
<1>1. CASE ShortPacket(c)
  BY <1>1, DieRooms DEF ShortPacket
<1>2. CASE HandleInMissingRoom(c)
  <2>1. Packet(c, {"game"})
    BY <1>2 DEF HandleInMissingRoom
  <2>2. c \in clients /\ Plr(c) = recPlayer[c] /\ ~sess[c].expired /\ sess[c].state \in {"game"}
    BY <2>1, PacketClient
  <2>3. plr[recPlayer[c]].roomId \notin roomMap
    BY <1>2, <2>2 DEF HandleInMissingRoom, HasRoom
  <2>4. ~wrongEntry => SomeRoomEnded
    BY <2>2, <2>3, RoomOfPlayer DEF RInv, InGameInRoom
  <2> QED
    BY <1>2, <2>4, DieRooms DEF HandleInMissingRoom
<1> QED
  BY <1>1, <1>2

-----------------------------------------------------------------------------
(* Entering and leaving rooms. *)

\* A handler that moves its own player p to room id n and its session to
\* state q accordingly leaves the others where they are.
LEMMA MoveRooms ==
    ASSUME IInv, RInv, fault = "none",
           NEW c \in clients, NEW q \in {"lobby", "game"}, NEW n \in Rooms \cup {NoRoom},
           Handled(c, [sess EXCEPT ![c].state = q]), UNCHANGED recPlayer,
           wrongEntry => wrongEntry',
           ~wrongEntry' => SetRoomId(recPlayer[c], n) /\ (q = "game" <=> n # NoRoom),
           \A p \in Conn \ {recPlayer[c]} : plr'[p] = plr[p],
           SomeRoomEnded => SomeRoomEnded'
    PROVE  /\ OutsideGameNoRoom' /\ InGameInRoom' /\ FaultCauses'
           /\ ~wrongEntry' => \A r \in Rooms : PlayersIn(r)' =
                 (PlayersIn(r) \ {recPlayer[c]}) \cup (IF r = n THEN {recPlayer[c]} ELSE {})
<1> DEFINE p == recPlayer[c]
           ss == [sess EXCEPT ![c].state = q]
<1>0. /\ c \in Conn /\ p \in Conn /\ p \in LivePlayers /\ Sess(c) = c
      /\ sess \in [Conn -> Session] /\ plr \in [Conn -> Player]
  BY SessOfRecord DEF IInv, TypeOK, LivePlayers
<1>1. ss \in [Conn -> Session]
  BY <1>0, FieldType DEF AnyState
<1>2. /\ ss[c].state = q /\ ss[c].expired = sess[c].expired
      /\ \A d \in Conn \ {c} : ss[d] = sess[d]
  BY <1>0 DEF Session
<1> HIDE DEF ss
<1>3. /\ \A d \in Conn : sess'[d].state = ss[d].state /\ sess'[d].expired = ss[d].expired
      /\ UNCHANGED <<clients, fault>>
  <2>1. Handled(c, ss)
    BY DEF ss
  <2> QED
    BY <1>0, <1>1, <2>1, HandledFields
<1>4. LivePlayers' = LivePlayers
  BY <1>3 DEF LivePlayers
<1>5. ASSUME NEW d \in clients, d # c
      PROVE  /\ sess'[d].state = sess[d].state /\ sess'[d].expired = sess[d].expired
             /\ plr'[recPlayer[d]] = plr[recPlayer[d]]
  <2>1. d \in Conn /\ recPlayer[d] \in Conn /\ recPlayer[d] # p
    BY <1>0, <1>5, SessOfRecord DEF Sess
  <2> QED
    BY <1>2, <1>3, <1>5, <2>1
<1>6. sess'[c].state = q
  BY <1>0, <1>2, <1>3
<1>7. ~wrongEntry' => plr'[p].roomId = n
  BY <1>0 DEF SetRoomId, Player
<1>8. OutsideGameNoRoom'
  <2> SUFFICES ASSUME ~wrongEntry', NEW d \in clients, sess'[d].state # "game", ~sess'[d].expired
               PROVE  plr'[recPlayer[d]].roomId = NoRoom
    BY <1>3 DEF OutsideGameNoRoom
  <2>1. CASE d = c
    BY <1>6, <1>7, <2>1
  <2>2. CASE d # c
    BY <1>5, <2>2 DEF RInv, OutsideGameNoRoom
  <2> QED
    BY <2>1, <2>2
<1>9. InGameInRoom'
  <2> SUFFICES ASSUME ~wrongEntry', ~SomeRoomEnded', NEW d \in clients,
                      sess'[d].state = "game", ~sess'[d].expired
               PROVE  plr'[recPlayer[d]].roomId # NoRoom
    BY <1>3 DEF InGameInRoom
  <2>1. CASE d = c
    BY <1>6, <1>7, <2>1
  <2>2. CASE d # c
    BY <1>5, <2>2 DEF RInv, InGameInRoom
  <2> QED
    BY <2>1, <2>2
<1>10. FaultCauses'
  BY <1>3 DEF FaultCauses
<1>11. ASSUME ~wrongEntry', NEW r \in Rooms
       PROVE  PlayersIn(r)' = (PlayersIn(r) \ {p}) \cup (IF r = n THEN {p} ELSE {})
  <2>1. LivePlayers \subseteq Conn
    BY SessOfRecord DEF LivePlayers
  <2>2. \A d \in LivePlayers : plr'[d].roomId = IF d = p THEN n ELSE plr[d].roomId
    BY <1>7, <1>11, <2>1
  <2> QED
    BY <1>0, <1>4, <2>2 DEF PlayersIn
<1> QED
  BY <1>8, <1>9, <1>10, <1>11

\* AddPlayer: the player list and the player's room id change together.
LEMMA EnterRooms ==
    ASSUME IInv, RInv, fault = "none", NEW c \in clients, NEW r \in Rooms,
           plr[recPlayer[c]].roomId = NoRoom \/ wrongEntry,
           Handled(c, [sess EXCEPT ![c].state = "game"]), SetRoomId(recPlayer[c], r),
           UNCHANGED <<recPlayer, wrongEntry>>,
           room[r].thread \in {"unborn", "running"},
           room'[r].members = Append(room[r].members, recPlayer[c]),
           \A q \in Rooms \ {r} : room'[q] = room[q]
    PROVE  Exact' /\ OutsideGameNoRoom' /\ InGameInRoom' /\ FaultCauses'
<1> DEFINE p == recPlayer[c]
<1>1. p \in Conn /\ plr \in [Conn -> Player] /\ r # NoRoom /\ NoRoom \notin Rooms
  BY SessOfRecord DEF IInv, TypeOK, Rooms, NoRoom
<1>2. \A d \in Conn \ {p} : plr'[d] = plr[d]
  BY <1>1 DEF SetRoomId
<1>3. SomeRoomEnded => SomeRoomEnded'
  BY DEF SomeRoomEnded
<1>4. /\ OutsideGameNoRoom' /\ InGameInRoom' /\ FaultCauses'
      /\ ~wrongEntry' => \A q \in Rooms :
             PlayersIn(q)' = (PlayersIn(q) \ {p}) \cup (IF q = r THEN {p} ELSE {})
  <2> HIDE DEF p
  <2>1. "game" \in {"lobby", "game"} /\ r \in Rooms \cup {NoRoom}
    OBVIOUS
  <2> QED
    BY <1>1, <1>2, <1>3, <2>1, MoveRooms DEF p
<1>5. ASSUME ~wrongEntry, NEW q \in Rooms
      PROVE  IsInjective(room'[q].members) /\ ToSet(room'[q].members) = PlayersIn(q)'
  <2>1. /\ IsInjective(room[q].members) /\ ToSet(room[q].members) = PlayersIn(q)
        /\ p \notin PlayersIn(q) /\ room[q].members \in Seq(Conn)
    BY <1>1, <1>5 DEF RInv, Exact, PlayersIn, IInv, TypeOK, Room
  <2>4. PlayersIn(q)' = (PlayersIn(q) \ {p}) \cup (IF q = r THEN {p} ELSE {})
    <3>1. ~wrongEntry'
      BY <1>5
    <3> QED
      BY <1>4, <3>1
  <2> HIDE DEF p
  <2>2. CASE q = r
    <3>1. /\ IsInjective(Append(room[q].members, p))
          /\ ToSet(Append(room[q].members, p)) = ToSet(room[q].members) \cup {p}
      BY <1>1, <2>1, AppendEntry
    <3> QED
      BY <2>1, <2>2, <2>4, <3>1 DEF p
  <2>3. CASE q # r
    <3>1. room'[q].members = room[q].members
      BY <2>3
    <3> QED
      BY <2>1, <2>3, <2>4, <3>1
  <2> QED
    BY <2>2, <2>3
<1> QED
  BY <1>4, <1>5 DEF Exact

\* HandleJoinRoomRequest
LEMMA JoinRooms ==
    ASSUME IInv, RInv, NEW c \in Conn, NEW r \in Rooms, HandleJoinRoomRequest(c, r) PROVE RInv'
<1>0. /\ c \in clients /\ Sess(c) = c /\ Plr(c) = recPlayer[c] /\ Plr(c) \in Conn
      /\ fault = "none" /\ r \in roomMap /\ plr[recPlayer[c]].roomId = NoRoom
  BY PacketClient DEF HandleJoinRoomRequest, Packet, Reads, Turn
<1>1. CASE Dangling(r) /\ Die("useAfterFree")
  BY <1>1, NoDangling, DieRooms DEF RInv
<1>2. CASE /\ room' = [room EXCEPT ![r].members = Append(@, recPlayer[c])]
           /\ SetRoomId(recPlayer[c], r)
           /\ Handled(c, [sess EXCEPT ![c].state = "game"])
           /\ UNCHANGED <<recPlayer, roomMap, lastRoomId, wrongEntry>>
  <2>2. /\ room'[r].members = Append(room[r].members, recPlayer[c])
        /\ room'[r].thread = room[r].thread
        /\ \A q \in Rooms \ {r} : room'[q] = room[q]
    BY <1>2 DEF IInv, TypeOK, Room
  <2>3. room[r].thread = "running"
    BY <1>0 DEF RInv, RoomsInOrder
  <2>4. RoomsInOrder'
    BY <1>2, <2>2, <2>3 DEF RInv, RoomsInOrder
  <2>5. Exact' /\ OutsideGameNoRoom' /\ InGameInRoom' /\ FaultCauses'
    BY <1>0, <1>2, <2>2, <2>3, EnterRooms
  <2> QED
    BY <2>4, <2>5 DEF RInv
<1> QED
  BY <1>0, <1>1, <1>2 DEF HandleJoinRoomRequest

\* HandleCreateRoom: a session in the lobby has a player in no room.
LEMMA CreateRooms == ASSUME IInv, RInv, NEW c \in Conn, HandleCreateRoom(c) PROVE RInv'
<1> DEFINE r == lastRoomId + 1
<1>1. Packet(c, {"lobby"}) /\ r \in Rooms
  BY DEF HandleCreateRoom
<1>2. /\ c \in clients /\ Sess(c) = c /\ Plr(c) = recPlayer[c] /\ Plr(c) \in Conn
      /\ ~sess[c].expired /\ sess[c].state \in {"lobby"} /\ fault = "none"
  BY <1>1, PacketClient DEF Packet, Reads, Turn
<1>3. /\ room' = [room EXCEPT ![r] = [thread |-> "running", members |-> <<recPlayer[c]>>,
                                      empty |-> "no"]]
      /\ lastRoomId' = r /\ roomMap' = roomMap \cup {r}
      /\ SetRoomId(recPlayer[c], r)
      /\ Handled(c, [sess EXCEPT ![c].state = "game"])
      /\ UNCHANGED <<recPlayer, wrongEntry>>
  BY <1>2 DEF HandleCreateRoom
<1>4. /\ lastRoomId \in Rooms /\ \A q \in Rooms : q > r <=> q > lastRoomId /\ q # r
      /\ r > lastRoomId /\ ~(r > r)
  BY <1>1 DEF IInv, TypeOK, Rooms
<1> HIDE DEF r
<1>5. /\ room'[r].members = <<recPlayer[c]>> /\ room'[r].thread = "running"
      /\ \A q \in Rooms \ {r} : room'[q] = room[q]
  BY <1>1, <1>3 DEF IInv, TypeOK, Room
<1>6. room[r].thread = "unborn" /\ room[r].members = <<>>
  BY <1>1, <1>4 DEF RInv, RoomsInOrder
<1>7. RoomsInOrder'
  <2> SUFFICES ASSUME NEW q \in Rooms
               PROVE  /\ q \in roomMap' <=> room'[q].thread = "running"
                      /\ room'[q].thread = "unborn" <=> q > lastRoomId'
                      /\ room'[q].thread = "unborn" => room'[q].members = <<>>
    BY DEF RoomsInOrder
  <2>1. CASE q = r
    BY <1>3, <1>4, <1>5, <2>1
  <2>2. CASE q # r
    BY <1>3, <1>4, <1>5, <2>2 DEF RInv, RoomsInOrder
  <2> QED
    BY <2>1, <2>2
<1>8. Append(room[r].members, recPlayer[c]) = <<recPlayer[c]>>
  BY <1>6
<1>9. plr[recPlayer[c]].roomId = NoRoom \/ wrongEntry
  BY <1>2 DEF RInv, OutsideGameNoRoom
<1>10. Exact' /\ OutsideGameNoRoom' /\ InGameInRoom' /\ FaultCauses'
  BY <1>1, <1>2, <1>3, <1>5, <1>6, <1>8, <1>9, EnterRooms
<1> QED
  BY <1>7, <1>10 DEF RInv

\* HandlePlayerExit
LEMMA ExitRooms == ASSUME IInv, RInv, NEW c \in Conn, HandlePlayerExit(c) PROVE RInv'
<1> DEFINE p == recPlayer[c]
           r == plr[p].roomId
<1>0. /\ c \in clients /\ Sess(c) = c /\ Plr(c) = p /\ p \in Conn /\ plr[p].session = c
      /\ fault = "none" /\ r \in roomMap /\ r \in Rooms /\ roomMap \subseteq Rooms
  BY PacketClient, SessOfRecord DEF HandlePlayerExit, Packet, Reads, Turn, HasRoom, IInv, TypeOK, Sess
<1>1. CASE Dangling(r) /\ Die("useAfterFree")
  BY <1>0, <1>1, NoDangling, DieRooms DEF RInv
<1>2. CASE /\ EraseEntry(r, p) /\ LeaveRoom(r, p)
           /\ Handled(c, [sess EXCEPT ![c].state = "lobby"])
           /\ UNCHANGED <<recPlayer, roomMap, lastRoomId>>
  <2>2. /\ wrongEntry => wrongEntry'
        /\ \A q \in Rooms : room'[q].thread = room[q].thread
        /\ \A q \in Rooms : room[q].members = <<>> => room'[q].members = <<>>
        /\ \A q \in Rooms \ {r} : room'[q].members = room[q].members
        /\ ~wrongEntry' => EntryToErase(r, p) # {}
        /\ ~wrongEntry' /\ IsInjective(room[r].members) =>
              /\ IsInjective(room'[r].members)
              /\ ToSet(room'[r].members) = ToSet(room[r].members) \ {p}
    BY <1>0, <1>2, EraseFacts DEF IInv
  <2>3. RoomsInOrder'
    BY <1>2, <2>2 DEF RInv, RoomsInOrder
  <2>4. ~wrongEntry' => SetRoomId(p, NoRoom)
    BY <1>2, <2>2 DEF LeaveRoom
  <2>5. \A d \in Conn \ {p} : plr'[d] = plr[d]
    BY <1>0, <1>2 DEF LeaveRoom, SetRoomId, IInv, TypeOK
  <2>6. SomeRoomEnded => SomeRoomEnded'
    BY <2>2 DEF SomeRoomEnded
  <2>7. /\ OutsideGameNoRoom' /\ InGameInRoom' /\ FaultCauses'
        /\ ~wrongEntry' => \A q \in Rooms :
               PlayersIn(q)' = (PlayersIn(q) \ {p}) \cup (IF q = NoRoom THEN {p} ELSE {})
    <3>1. "lobby" \in {"lobby", "game"} /\ NoRoom \in Rooms \cup {NoRoom}
      OBVIOUS
    <3>2. "lobby" = "game" <=> NoRoom # NoRoom
      OBVIOUS
    <3> QED
      BY <1>0, <1>2, <2>2, <2>4, <2>5, <2>6, <3>1, <3>2, MoveRooms
  <2>8. ASSUME ~wrongEntry', NEW q \in Rooms
        PROVE  IsInjective(room'[q].members) /\ ToSet(room'[q].members) = PlayersIn(q)'
    <3>1. IsInjective(room[q].members) /\ ToSet(room[q].members) = PlayersIn(q)
      BY <2>2, <2>8 DEF RInv, Exact
    <3>2. q # NoRoom
      BY DEF Rooms, NoRoom
    <3>3. PlayersIn(q)' = PlayersIn(q) \ {p}
      BY <2>7, <2>8, <3>2
    <3>4. CASE q = r
      BY <2>2, <2>8, <3>1, <3>3, <3>4
    <3>5. CASE q # r
      BY <2>2, <3>1, <3>3, <3>5 DEF PlayersIn
    <3> QED
      BY <3>4, <3>5
  <2>9. Exact'
    BY <2>8 DEF Exact
  <2> QED
    BY <2>3, <2>7, <2>9 DEF RInv
<1> QED
  BY <1>0, <1>1, <1>2 DEF HandlePlayerExit

\* HandleRestoreSession: the player stays in its room, and its new session's
\* state says so.
LEMMA RestoreRooms ==
    ASSUME IInv, RInv, NEW c \in Conn, NEW k \in AllKeys, NEW i \in Ids,
           HandleRestoreSession(c, k, i)
    PROVE  RInv'
<1>0. c \in clients /\ Sess(c) = c /\ UNCHANGED <<roomMap, lastRoomId, room, caught, wrongEntry>>
  BY PacketClient DEF HandleRestoreSession
<1>1. PICK e \in clients, ss \in [Conn -> Session] : Exchange(c, e, ss)
  BY RestoreFacts
<1> DEFINE p == recPlayer[c]
           q == recPlayer[e]
<1>2. /\ c \in Conn /\ e \in Conn /\ p \in Conn /\ q \in Conn
      /\ plr[p].session = c /\ plr[q].session = e
      /\ plr \in [Conn -> Player] /\ recPlayer \in [Conn -> Conn]
  <2>1. c \in Conn /\ e \in Conn /\ p \in Conn /\ q \in Conn
    BY <1>0, SessOfRecord
  <2>2. plr[p].session = c /\ plr[q].session = e
    BY <1>1 DEF Exchange
  <2> QED
    BY <2>1, <2>2 DEF IInv, TypeOK
<1>3. /\ \A d \in Conn : sess'[d].state = ss[d].state /\ sess'[d].expired = ss[d].expired
      /\ UNCHANGED <<clients, fault>>
  BY <1>0, <1>1, HandledFields DEF Exchange
<1>4. /\ \A d \in Conn \ {c, e} : ss[d] = sess[d]
      /\ ss[e].expired /\ ss[c].state = RestoredState(q)
  BY <1>1 DEF Exchange
<1>5. \A d \in Conn : plr'[d].roomId = plr[d].roomId
  BY <1>1, <1>2 DEF Exchange, Player
<1>6. \A d \in clients : recPlayer'[d] = IF recPlayer[d] = p THEN q
                                         ELSE IF recPlayer[d] = q THEN p ELSE recPlayer[d]
  BY <1>1, <1>2, SessOfRecord DEF Exchange, OverridePlayerClient
<1>7. LivePlayers' = LivePlayers
  <2>1. recPlayer'[c] = q /\ recPlayer'[e] = p
    BY <1>0, <1>6
  <2>2. LivePlayers' = {recPlayer'[d] : d \in clients}
    BY <1>3 DEF LivePlayers
  <2> HIDE DEF p, q
  <2>3. LivePlayers' \subseteq LivePlayers
    BY <1>0, <1>6, <2>2 DEF LivePlayers, p, q
  <2>4. ASSUME NEW d \in clients PROVE recPlayer[d] \in LivePlayers'
    <3>1. CASE recPlayer[d] = p \/ recPlayer[d] = q
      BY <1>0, <2>1, <2>2, <3>1
    <3>2. CASE recPlayer[d] # p /\ recPlayer[d] # q
      BY <1>6, <2>2, <3>2
    <3> QED
      BY <3>1, <3>2
  <2> QED
    BY <2>3, <2>4 DEF LivePlayers
<1>8. LivePlayers \subseteq Conn
  BY SessOfRecord DEF LivePlayers
<1>9. \A r \in Rooms : PlayersIn(r)' = PlayersIn(r)
  BY <1>5, <1>7, <1>8 DEF PlayersIn
<1>10. RoomsInOrder' /\ Exact' /\ FaultCauses'
  BY <1>0, <1>3, <1>9 DEF RInv, RoomsInOrder, Exact, FaultCauses
<1>11. ASSUME NEW d \in clients, ~sess'[d].expired
       PROVE  \/ /\ d # c /\ d \in Conn /\ recPlayer'[d] = recPlayer[d] /\ recPlayer[d] \in Conn
                 /\ sess'[d].state = sess[d].state /\ ~sess[d].expired
              \/ d = c /\ recPlayer'[d] = q /\ sess'[d].state = RestoredState(q)
  <2>1. d \in Conn /\ recPlayer[d] \in Conn /\ plr[recPlayer[d]].session = d
    BY SessOfRecord DEF Sess
  <2>2. d # e
    BY <1>2, <1>3, <1>4, <1>11
  <2>3. CASE d = c
    BY <1>2, <1>3, <1>4, <1>6, <2>1, <2>3
  <2>4. CASE d # c
    <3>1. recPlayer[d] # p /\ recPlayer[d] # q
      BY <1>2, <2>1, <2>2, <2>4
    <3> QED
      BY <1>3, <1>4, <1>6, <1>11, <2>1, <2>2, <2>4, <3>1
  <2> QED
    BY <2>3, <2>4
<1>12. SomeRoomEnded' = SomeRoomEnded
  BY <1>0 DEF SomeRoomEnded
<1>13. OutsideGameNoRoom'
  BY <1>0, <1>2, <1>3, <1>5, <1>11 DEF RInv, OutsideGameNoRoom, RestoredState
<1>14. InGameInRoom'
  BY <1>0, <1>2, <1>3, <1>5, <1>11, <1>12 DEF RInv, InGameInRoom, RestoredState
<1> QED
  BY <1>10, <1>13, <1>14 DEF RInv

-----------------------------------------------------------------------------
(* The rooms' threads. *)

\* Room::Run changes no list, and Session::Update no session's state.
LEMMA RoundRooms == ASSUME IInv, RInv, NEW r \in Rooms, RoomRound(r) PROVE RInv'
<1> DEFINE present == {plr[room[r].members[n]].session : n \in DOMAIN room[r].members}
<1>0. fault = "none" /\ room[r].thread = "running"
  BY DEF RoomRound, Runs
<1>1. CASE (Dangling(r) \/ r \in caught) /\ Die("useAfterFree")
  <2>1. Dangling(r) => wrongEntry
    BY NoDangling DEF RInv
  <2>2. r \in caught => SomeoneCaught
    BY <1>0 DEF SomeoneCaught
  <2> QED
    BY <1>1, <2>1, <2>2, DieRooms
<1>2. CASE /\ room' = [room EXCEPT ![r].empty = EmptyAfterRound(r)]
           /\ sess' = [s \in Conn |-> IF s \in present THEN Pings(sess[s]) ELSE sess[s]]
           /\ UNCHANGED <<clients, recPlayer, plr, roomMap, lastRoomId, fault, wrongEntry>>
  <2>1. \A q \in Rooms : room'[q].thread = room[q].thread /\ room'[q].members = room[q].members
    BY <1>2 DEF IInv, TypeOK, Room
  <2> HIDE DEF present
  <2>2. \A s \in Conn : sess'[s].state = sess[s].state /\ sess'[s].expired = sess[s].expired
    BY <1>2, SessType, PingsType
  <2> QED
    BY <1>0, <1>2, <2>1, <2>2, RoomsKept
<1> QED
  BY <1>1, <1>2 DEF RoomRound

\* Gameplay::DestroyRoom takes the room out of m_rooms when its thread ends.
LEMMA EndRooms == ASSUME IInv, RInv, NEW r \in Rooms, EndRoom(r) PROVE RInv'
<1>1. /\ room[r].thread = "running" /\ roomMap' = roomMap \ {r}
      /\ room' = [room EXCEPT ![r].thread = "ended"] /\ room \in [Rooms -> Room]
      /\ UNCHANGED <<clients, recPlayer, sess, plr, lastRoomId, fault, wrongEntry>>
      /\ fault = "none"
  BY DEF EndRoom, Runs, IInv, TypeOK
<1>2. /\ room'[r].thread = "ended" /\ room'[r].members = room[r].members
      /\ \A q \in Rooms \ {r} : room'[q] = room[q]
  BY <1>1 DEF Room
<1>3. RoomsInOrder'
  <2> SUFFICES ASSUME NEW q \in Rooms
               PROVE  /\ q \in roomMap' <=> room'[q].thread = "running"
                      /\ room'[q].thread = "unborn" <=> q > lastRoomId'
                      /\ room'[q].thread = "unborn" => room'[q].members = <<>>
    BY DEF RoomsInOrder
  <2>1. CASE q = r
    BY <1>1, <1>2, <2>1 DEF RInv, RoomsInOrder
  <2>2. CASE q # r
    BY <1>1, <1>2, <2>2 DEF RInv, RoomsInOrder
  <2> QED
    BY <2>1, <2>2
<1>4. \A q \in Rooms : PlayersIn(q)' = PlayersIn(q) /\ room'[q].members = room[q].members
  BY <1>1, <1>2 DEF PlayersIn, LivePlayers
<1>5. Exact'
  BY <1>1, <1>4 DEF RInv, Exact
<1>6. SomeRoomEnded'
  BY <1>2 DEF SomeRoomEnded
<1>7. OutsideGameNoRoom' /\ InGameInRoom' /\ FaultCauses'
  BY <1>1, <1>6 DEF RInv, OutsideGameNoRoom, InGameInRoom, FaultCauses
<1> QED
  BY <1>3, <1>5, <1>7 DEF RInv

\* ~Room takes everyone out of the room whose list dies with it.
LEMMA DeleteRooms == ASSUME IInv, RInv, NEW r \in Rooms, DeleteRoom(r) PROVE RInv'
<1>1. CASE Dangling(r) /\ Die("useAfterFree")
  BY <1>1, NoDangling, DieRooms DEF RInv
<1>2. CASE /\ ReleasePlayers(r)
           /\ room' = [room EXCEPT ![r].thread = "deleted", ![r].members = <<>>]
           /\ UNCHANGED <<clients, accepted, cursor, socket, errno, recPlayer, sess, roomMap,
                          lastRoomId, users, fault, wrongEntry>>
  <2>0. room[r].thread = "ended" /\ fault = "none"
    BY DEF DeleteRoom
  <2>1. /\ room'[r].thread = "deleted" /\ room'[r].members = <<>>
        /\ \A q \in Rooms \ {r} : room'[q] = room[q]
    BY <1>2 DEF IInv, TypeOK, Room
  <2>2. \A p \in Conn : plr'[p].roomId = IF p \in ToSet(room[r].members) THEN NoRoom
                                         ELSE plr[p].roomId
    BY <1>2 DEF ReleasePlayers, IInv, TypeOK, Player
  <2>3. LivePlayers' = LivePlayers /\ LivePlayers \subseteq Conn
    BY <1>2, SessOfRecord DEF LivePlayers
  <2>4. RoomsInOrder'
    <3> SUFFICES ASSUME NEW q \in Rooms
                 PROVE  /\ q \in roomMap' <=> room'[q].thread = "running"
                        /\ room'[q].thread = "unborn" <=> q > lastRoomId'
                        /\ room'[q].thread = "unborn" => room'[q].members = <<>>
      BY DEF RoomsInOrder
    <3>1. CASE q = r
      BY <1>2, <2>0, <2>1, <3>1 DEF RInv, RoomsInOrder
    <3>2. CASE q # r
      BY <1>2, <2>1, <3>2 DEF RInv, RoomsInOrder
    <3> QED
      BY <3>1, <3>2
  <2>5. ASSUME ~wrongEntry, NEW q \in Rooms
        PROVE  IsInjective(room'[q].members) /\ ToSet(room'[q].members) = PlayersIn(q)'
    <3>1. /\ IsInjective(room[q].members) /\ ToSet(room[q].members) = PlayersIn(q)
          /\ ToSet(room[r].members) = PlayersIn(r)
      BY <2>5 DEF RInv, Exact
    <3>2. PlayersIn(q)' = IF q = r THEN {} ELSE PlayersIn(q)
      BY <2>2, <2>3, <3>1 DEF PlayersIn, Rooms, NoRoom
    <3>3. CASE q = r
      BY <2>1, <3>2, <3>3 DEF IsInjective, ToSet
    <3>4. CASE q # r
      BY <2>1, <3>1, <3>2, <3>4
    <3> QED
      BY <3>3, <3>4
  <2>6. Exact'
    BY <1>2, <2>5 DEF Exact
  <2>7. SomeRoomEnded'
    BY <2>1 DEF SomeRoomEnded
  <2>8. OutsideGameNoRoom'
    BY <1>2, <2>2, SessOfRecord DEF RInv, OutsideGameNoRoom
  <2>9. InGameInRoom' /\ FaultCauses'
    BY <1>2, <2>0, <2>7 DEF InGameInRoom, FaultCauses
  <2> QED
    BY <2>4, <2>6, <2>8, <2>9 DEF RInv
<1> QED
  BY <1>1, <1>2 DEF DeleteRoom

-----------------------------------------------------------------------------
(* The specification. *)

\* Every packet handler
LEMMA HandlePacketRooms == ASSUME IInv, RInv, NEW c \in Conn, HandlePacket(c) PROVE RInv'
<1>1. CASE Violation(c) \/ HandleWithoutEffect(c)
  BY <1>1, QuietRooms
<1>2. CASE HandlePong(c) \/ HandleAuthRefused(c)
           \/ (\E k \in AllKeys, i \in Ids : HandleRestoreNotFound(c, k, i))
           \/ \E i \in Accounts : \/ HandleLoginRequest(c, i)
                                  \/ HandleRegisterRequest(c, i) \/ HandleRegisterTaken(c, i)
  BY <1>2, PlainHandlersRooms
<1>3. CASE \E k \in AllKeys, i \in Ids : HandleRestoreSession(c, k, i)
  BY <1>3, RestoreRooms
<1>4. CASE (\E r \in Rooms : HandleJoinRoomRequest(c, r)) \/ HandleCreateRoom(c) \/ HandlePlayerExit(c)
  BY <1>4, JoinRooms, CreateRooms, ExitRooms
<1> QED
  BY <1>1, <1>2, <1>3, <1>4, DyingRooms DEF HandlePacket

\* Every step of every thread keeps both invariants.
LEMMA NextRooms == IInv /\ RInv /\ [Next]_vars => RInv'
<1> SUFFICES ASSUME IInv, RInv, Next PROVE RInv'
  <2>1. IInv /\ RInv /\ UNCHANGED vars => RInv'
    BY RoomsKept DEF vars
  <2> QED
    BY <2>1
<1>1. ASSUME NEW c \in Conn, UpdateClient(c) PROVE RInv'
  <2>1. CASE SkipTimedOut(c) \/ KickTimedOut(c) \/ NothingRead(c) \/ StartTimeout(c)
    BY <2>1, QuietRooms
  <2> QED
    BY <1>1, <2>1, RemovalsRooms, HandlePacketRooms DEF UpdateClient
<1>2. CASE NetworkThread
  BY <1>1, <1>2, AcceptRooms, QuietRooms DEF NetworkThread
<1>3. CASE \E r \in Rooms : RoomUpdater(r)
  BY <1>3, RoundRooms, EndRooms, DeleteRooms DEF RoomUpdater
<1>4. CASE Environment
  BY <1>4, QuietRooms
<1> QED
  BY <1>2, <1>3, <1>4 DEF Next

\* The rooms' invariant holds in every reachable state.
THEOREM RoomsInvariant == Spec => []RInv
<1>1. IInv /\ RInv /\ [Next]_vars => RInv'
  BY NextRooms
<1> QED
  BY <1>1, InitRooms, Invariant, PTL DEF Spec

\* The rooms' player lists and the players' room ids are one relation, for
\* every number of connections and rooms, until a RemovePlayer erases an entry
\* that is not its player's (Room.cpp:226-234).
THEOREM MembershipHolds == Spec => []MembershipExact
<1>1. RInv => MembershipExact
  BY DEF RInv, Exact, MembershipExact, PlayersIn
<1> QED
  BY <1>1, RoomsInvariant, PTL

\* Outside the game nobody is in a room, whatever is restored, kicked and
\* ended: HandleCreateRoom needs no check of its own.
THEOREM OutsideGameHolds == Spec => []OutsideGameNoRoom
<1>1. RInv => OutsideGameNoRoom
  BY DEF RInv
<1> QED
  BY <1>1, RoomsInvariant, PTL

\* The process dies of memory that was freed only in a round that was at work
\* with it, or after a wrong entry was erased, and on a missing room only after
\* that or after a room was ended (Room.cpp:124, Network.cpp:402-410).
THEOREM FaultsHaveCauses == Spec => []FaultCauses
<1>1. RInv => FaultCauses
  BY DEF RInv
<1> QED
  BY <1>1, RoomsInvariant, PTL

-----------------------------------------------------------------------------
(* Sessions implements Presence: what a client sees of a state, *)

\* The id record c acts for, and the room it is in, according to its player
IdOf(c) == plr[recPlayer[c]].id
RoomOf(c) == plr[recPlayer[c]].roomId

\* What the mapping makes of a state
View == <<Account, Present, Kicked, roomMap, caught, users, Status>>

\* Neither dead nor astray
Up == fault = "none" /\ ~wrongEntry

\* While nothing went wrong, the rooms' lists may be forgotten.
LEMMA SeenInRooms ==
    IInv /\ RInv /\ Up => Present = [r \in Rooms |-> {c \in clients : RoomOf(c) = r}]
<1> SUFFICES ASSUME IInv, RInv, Up, NEW r \in Rooms
             PROVE  {c \in clients : recPlayer[c] \in ToSet(room[r].members)}
                       = {c \in clients : RoomOf(c) = r}
  BY DEF Present
<1>1. ToSet(room[r].members) = PlayersIn(r)
  BY DEF RInv, Exact, Up
<1>2. \A c \in clients : recPlayer[c] \in LivePlayers
  BY DEF LivePlayers
<1> QED
  BY <1>1, <1>2 DEF PlayersIn, RoomOf

\* The state before a step
LEMMA Before ==
    ASSUME IInv, RInv, Up
    PROVE  /\ PresenceService!Online = clients /\ Status = "up"
           /\ DOMAIN Account = clients /\ \A c \in clients : Account[c] = IdOf(c)
           /\ Present \in [Rooms -> SUBSET clients]
           /\ \A r \in Rooms : Present[r] = {c \in clients : RoomOf(c) = r}
           /\ \A c : PresenceService!Acts(c) <=> c \in clients /\ ~sess[c].expired
           /\ \A c \in clients : /\ c \in Conn /\ recPlayer[c] \in Conn
                                 /\ IdOf(c) \in Ids /\ RoomOf(c) \in Rooms \cup {NoRoom}
                                 /\ PresenceService!Nowhere(c) <=> RoomOf(c) = NoRoom
                                 /\ PresenceService!Playing(c) <=> RoomOf(c) \in roomMap
           /\ NoRoom \notin Rooms /\ roomMap \subseteq Rooms
<1>1. Present = [r \in Rooms |-> {c \in clients : RoomOf(c) = r}]
  BY SeenInRooms
<1>2. DOMAIN Account = clients /\ \A c \in clients : Account[c] = IdOf(c)
  BY DEF Account, IdOf
<1>3. \A c : PresenceService!Acts(c) <=> c \in clients /\ ~sess[c].expired
  BY <1>2 DEF PresenceService!Acts, PresenceService!Online, Kicked
<1>4. NoRoom \notin Rooms /\ roomMap \subseteq Rooms
  BY DEF NoRoom, Rooms, IInv, TypeOK
<1>5. \A r \in Rooms : Present[r] = {c \in clients : RoomOf(c) = r}
  BY <1>1
<1>6. ASSUME NEW c \in clients
      PROVE  /\ c \in Conn /\ recPlayer[c] \in Conn
             /\ IdOf(c) \in Ids /\ RoomOf(c) \in Rooms \cup {NoRoom}
             /\ PresenceService!Nowhere(c) <=> RoomOf(c) = NoRoom
             /\ PresenceService!Playing(c) <=> RoomOf(c) \in roomMap
  <2>1. c \in Conn /\ recPlayer[c] \in Conn /\ plr \in [Conn -> Player]
    BY SessOfRecord DEF IInv, TypeOK
  <2>2. IdOf(c) \in Ids /\ RoomOf(c) \in Rooms \cup {NoRoom}
    BY <2>1 DEF IdOf, RoomOf, Player
  <2>3. \A r \in Rooms : c \in Present[r] <=> RoomOf(c) = r
    BY <1>5
  <2>4. PresenceService!Nowhere(c) <=> RoomOf(c) = NoRoom
    BY <1>4, <2>2, <2>3 DEF PresenceService!Nowhere
  <2>5. PresenceService!Playing(c) <=> RoomOf(c) \in roomMap
    BY <1>4, <2>3 DEF PresenceService!Playing
  <2> QED
    BY <2>1, <2>2, <2>4, <2>5
<1> QED
  BY <1>1, <1>2, <1>3, <1>4, <1>5, <1>6 DEF Up, Status, PresenceService!Online

\* The state after a step
LEMMA After ==
    ASSUME IInv', RInv', Up'
    PROVE  /\ Status' = "up"
           /\ Account' = [c \in clients' |-> plr'[recPlayer'[c]].id]
           /\ Present' = [r \in Rooms |-> {c \in clients' : plr'[recPlayer'[c]].roomId = r}]
           /\ Kicked' = {c \in clients' : sess'[c].expired}
<1>1. Present' = [r \in Rooms |-> {c \in clients' : plr'[recPlayer'[c]].roomId = r}]
  <2>1. \A r \in Rooms : ToSet(room'[r].members) = PlayersIn(r)'
    BY DEF RInv, Exact, Up
  <2>2. \A c \in clients' : recPlayer'[c] \in LivePlayers'
    BY DEF LivePlayers
  <2>3. \A r \in Rooms : {c \in clients' : recPlayer'[c] \in ToSet(room'[r].members)}
                            = {c \in clients' : plr'[recPlayer'[c]].roomId = r}
    BY <2>1, <2>2 DEF PlayersIn, RoomOf
  <2> QED
    BY <2>3 DEF Present
<1> QED
  BY <1>1 DEF Up, Status, Account, Kicked, IdOf

\* Everybody stays where they are.
LEMMA NobodyMoves ==
    ASSUME IInv, RInv, Up, IInv', RInv', Up', clients' = clients,
           \A d \in clients : plr'[recPlayer'[d]].roomId = RoomOf(d)
    PROVE  Present' = Present
<1>1. Present' = [r \in Rooms |-> {d \in clients' : plr'[recPlayer'[d]].roomId = r}]
  BY After
<1>2. Present = [r \in Rooms |-> {d \in clients : RoomOf(d) = r}]
  BY SeenInRooms
<1>3. \A r : {d \in clients' : plr'[recPlayer'[d]].roomId = r} = {d \in clients : RoomOf(d) = r}
  OBVIOUS
<1> QED
  BY <1>1, <1>2, <1>3

\* Nothing a client could see of the others has changed.
LEMMA SameClients ==
    ASSUME IInv, RInv, Up, IInv', RInv',
           UNCHANGED <<clients, recPlayer, fault, wrongEntry>>,
           \A c \in clients : plr'[recPlayer'[c]].id = IdOf(c) /\ plr'[recPlayer'[c]].roomId = RoomOf(c),
           \A c \in clients : sess'[c].expired = sess[c].expired
    PROVE  UNCHANGED <<Account, Present, Kicked, Status>>
<1>1. Up'
  BY DEF Up
<1>2. Account' = Account
  BY <1>1, After DEF Account, IdOf
<1>3. Present' = Present
  BY <1>1, NobodyMoves
<1>4. Kicked' = Kicked /\ Status' = Status
  BY <1>1, After, Before DEF Kicked
<1> QED
  BY <1>2, <1>3, <1>4

\* Nothing a client could see has changed.
LEMMA NotSeen ==
    ASSUME IInv, RInv, Up, IInv', RInv',
           UNCHANGED <<clients, recPlayer, roomMap, caught, users, fault, wrongEntry>>,
           \A c \in clients : plr'[recPlayer'[c]].id = IdOf(c) /\ plr'[recPlayer'[c]].roomId = RoomOf(c),
           \A c \in clients : sess'[c].expired = sess[c].expired
    PROVE  UNCHANGED View
BY SameClients DEF View

\* A set of naturals that is not empty has a first one.
LEMMA FirstExists == ASSUME NEW S \in SUBSET Nat, S # {} PROVE FirstOf(S) # {}
<1> DEFINE T == {0 .. n : n \in S}
           R == StrictSubsetOrdering(Nat)
<1>1. IsWellFoundedOn(R, FiniteSubsetsOf(Nat))
  BY FS_StrictSubsetOrderingWellFounded
<1>2. T \subseteq FiniteSubsetsOf(Nat)
  <2>1. ASSUME NEW n \in S PROVE 0 .. n \in FiniteSubsetsOf(Nat)
    <3>1. n \in Nat /\ 0 .. n \in SUBSET Nat
      OBVIOUS
    <3>2. IsFiniteSet(0 .. n)
      BY <3>1, FS_Interval
    <3> QED
      BY <3>1, <3>2 DEF FiniteSubsetsOf
  <2> QED
    BY <2>1
<1>3. PICK x \in T : \A y \in T : <<y, x>> \notin R
  <2>1. T # {}
    OBVIOUS
  <2> HIDE DEF R, T
  <2> QED
    BY <1>1, <1>2, <2>1, WFMin
<1>4. PICK n \in S : x = 0 .. n
  OBVIOUS
<1>5. ASSUME NEW m \in S, m < n PROVE FALSE
  <2>1. 0 .. m \in SUBSET Nat /\ 0 .. n \in SUBSET Nat /\ 0 .. m \subseteq 0 .. n
    BY <1>5
  <2>2. n \in 0 .. n /\ n \notin 0 .. m
    BY <1>5
  <2>3. <<0 .. m, 0 .. n>> \in R
    BY <2>1, <2>2 DEF StrictSubsetOrdering
  <2> QED
    BY <1>3, <1>4, <2>3
<1>6. \A m \in S : n <= m
  BY <1>5
<1> QED
  BY <1>6 DEF FirstOf

\* The players in a list are not more than its entries.
LEMMA NotMoreThanEntries ==
    ASSUME NEW S, NEW s \in Seq(S), NEW A, NEW f,
           \A a \in A : f[a] \in ToSet(s), \A a, b \in A : f[a] = f[b] => a = b
    PROVE  IsFiniteSet(A) /\ Cardinality(A) <= Len(s)
<1>1. Len(s) \in Nat /\ DOMAIN s = 1 .. Len(s)
  OBVIOUS
<1> DEFINE g == [a \in A |-> CHOOSE n \in 1 .. Len(s) : s[n] = f[a]]
<1>2. \A a \in A : g[a] \in 1 .. Len(s) /\ s[g[a]] = f[a]
  BY <1>1 DEF ToSet
<1>3. g \in Injection(A, 1 .. Len(s))
  <2>1. g \in [A -> 1 .. Len(s)]
    BY <1>2
  <2> HIDE DEF g
  <2>2. \A a, b \in A : g[a] = g[b] => a = b
    BY <1>2
  <2> QED
    BY <2>1, <2>2 DEF Injection, IsInjective
<1>4. IsFiniteSet(1 .. Len(s)) /\ Cardinality(1 .. Len(s)) = Len(s)
  BY <1>1, FS_Interval
<1>5. IsFiniteSet(A) /\ Cardinality(A) <= Cardinality(1 .. Len(s))
  BY <1>3, <1>4, FS_Injection
<1> QED
  BY <1>4, <1>5

-----------------------------------------------------------------------------
(* and of a step.  The steps that show a client nothing: *)

LEMMA QuietUnseen ==
    ASSUME IInv, RInv, Up, IInv', RInv',
           \/ AcceptNothing
           \/ \E c \in Conn : \/ SkipTimedOut(c) \/ NothingRead(c) \/ StartTimeout(c)
                              \/ HandleWithoutEffect(c) \/ HandlePong(c) \/ HandleAuthRefused(c)
                              \/ \E k \in AllKeys, i \in Ids : HandleRestoreNotFound(c, k, i)
           \/ Environment
    PROVE  UNCHANGED View
<1>0. sess \in [Conn -> Session] /\ clients \subseteq Conn
  BY SessType, SessOfRecord
<1>1. ASSUME UNCHANGED <<clients, recPlayer, plr, roomMap, caught, users, fault, wrongEntry>>,
             \A c \in Conn : sess'[c].expired = sess[c].expired
      PROVE  UNCHANGED View
  BY <1>0, <1>1, NotSeen DEF IdOf, RoomOf
<1>2. CASE AcceptNothing
  BY <1>1, <1>2 DEF AcceptNothing
<1>3. ASSUME NEW c \in Conn, SkipTimedOut(c) \/ NothingRead(c) \/ StartTimeout(c)
      PROVE  UNCHANGED View
  <2>1. UNCHANGED Untouched /\ (sess' = sess \/ sess' = [sess EXCEPT ![Sess(c)].timeout = "running"])
    BY <1>3 DEF SkipTimedOut, NothingRead, StartTimeout
  <2>2. \A d \in Conn : sess'[d].expired = sess[d].expired
    BY <1>0, <2>1 DEF Session
  <2> QED
    BY <1>1, <2>1, <2>2 DEF Untouched
<1>4. ASSUME NEW c \in Conn,
             \/ HandleWithoutEffect(c) \/ HandlePong(c) \/ HandleAuthRefused(c)
             \/ \E k \in AllKeys, i \in Ids : HandleRestoreNotFound(c, k, i)
      PROVE  UNCHANGED View
  <2>1. c \in clients /\ Sess(c) = c /\ UNCHANGED Untouched
    BY <1>4, PacketClient DEF HandleWithoutEffect, HandlePong, HandleAuthRefused, HandleRestoreNotFound
  <2>2. PICK ss :
           /\ Handled(c, ss)
           /\ \/ ss = sess
              \/ ss = [sess EXCEPT ![c].pinged = FALSE]
              \/ \E k \in Keys : ss = [sess EXCEPT ![c].key = k]
    BY <1>4, <2>1 DEF HandleWithoutEffect, HandlePong, HandleAuthRefused, HandleRestoreNotFound
  <2>3. ss \in [Conn -> Session]
    <3>1. [sess EXCEPT ![c].pinged = FALSE] \in [Conn -> Session]
      BY <1>0, FieldType
    <3>2. \A k \in Keys : [sess EXCEPT ![c].key = k] \in [Conn -> Session]
      BY <1>0, FieldType DEF AllKeys
    <3> QED
      BY <1>0, <2>2, <3>1, <3>2
  <2>4. \A d \in Conn : ss[d].expired = sess[d].expired
    BY <1>0, <2>2 DEF Session
  <2>5. \A d \in Conn : sess'[d].expired = sess[d].expired
    BY <2>1, <2>2, <2>3, <2>4, HandledFields
  <2> QED
    BY <1>1, <2>1, <2>5 DEF Untouched
<1>5. CASE Environment
  <2>1. ASSUME NEW s \in Conn, NEW how \in Failures, ConnectionEnds(s, how) PROVE UNCHANGED View
    BY <1>1, <2>1 DEF ConnectionEnds, Elsewhere
  <2>2. ASSUME NEW s \in Conn, ResetConsumed(s) PROVE UNCHANGED View
    BY <1>1, <2>2 DEF ResetConsumed, Elsewhere
  <2>3. ASSUME NEW s \in Conn, TimeoutPasses(s) \/ PingTimePasses(s) PROVE UNCHANGED View
    <3>1. \A d \in Conn : sess'[d].expired = sess[d].expired
      BY <1>0, <2>3 DEF TimeoutPasses, PingTimePasses, Session
    <3>2. UNCHANGED Elsewhere
      BY <2>3 DEF TimeoutPasses, PingTimePasses
    <3> QED
      BY <1>1, <3>1, <3>2 DEF Elsewhere
  <2>4. ASSUME NEW r \in Rooms, EmptyTimePasses(r) PROVE UNCHANGED View
    BY <1>1, <2>4 DEF EmptyTimePasses, Elsewhere
  <2> QED
    BY <1>5, <2>1, <2>2, <2>3, <2>4 DEF Environment
<1> QED
  BY <1>2, <1>3, <1>4, <1>5

\* The process dies, at a packet, at a client of a room that was ended, or of a
\* round that was at work with what has been deleted.
LEMMA DyingSeen ==
    ASSUME IInv, RInv, Up, NEW how, how # "none", Die(how),
           \/ caught # {}
           \/ \E c \in clients : ~sess[c].expired \/ (RoomOf(c) # NoRoom /\ RoomOf(c) \notin roomMap)
    PROVE  PresenceService!Die
<1>1. UNCHANGED <<Account, Present, Kicked, roomMap, caught, users>> /\ Status' = "dead"
  BY DEF Die, Account, Present, Kicked, Status
<1>2. caught = {} => \E c \in PresenceService!Online :
         \/ PresenceService!Acts(c)
         \/ ~PresenceService!Nowhere(c) /\ ~PresenceService!Playing(c)
  <2> SUFFICES ASSUME caught = {}
               PROVE  \E c \in PresenceService!Online :
                         \/ PresenceService!Acts(c)
                         \/ ~PresenceService!Nowhere(c) /\ ~PresenceService!Playing(c)
    OBVIOUS
  <2>1. PICK c \in clients : ~sess[c].expired \/ (RoomOf(c) # NoRoom /\ RoomOf(c) \notin roomMap)
    OBVIOUS
  <2> QED
    BY <2>1, Before
<1> QED
  BY <1>1, <1>2 DEF PresenceService!Die

\* A new connection
LEMMA AcceptSeen ==
    ASSUME IInv, RInv, Up, IInv', RInv', AcceptConnection
    PROVE  \E c \in Conn : PresenceService!Arrive(c)
<1> DEFINE n == accepted + 1
<1>0. n \in Conn /\ n \notin clients
  BY BoundsAssumption DEF IInv, TypeOK, AcceptConnection, Conn
<1>1. ASSUME NEW d \in clients
      PROVE  /\ plr'[recPlayer'[d]].id = IdOf(d) /\ plr'[recPlayer'[d]].roomId = RoomOf(d) /\ sess'[d] = sess[d] /\ d # n
  <2>1. recPlayer[d] # n /\ recPlayer[d] \in Conn /\ d # n /\ d \in Conn
    BY <1>0, SessOfRecord DEF IInv, KnownPlayers, TypeOK
  <2> QED
    BY <1>0, <2>1 DEF IInv, TypeOK, AcceptConnection, IdOf, RoomOf
<1>2. /\ clients' = clients \cup {n} /\ UNCHANGED <<roomMap, caught, users, fault, wrongEntry>>
      /\ plr'[recPlayer'[n]].id \in Ids /\ plr'[recPlayer'[n]].roomId = NoRoom /\ ~sess'[n].expired
  <2>1. /\ clients' = clients \cup {n} /\ UNCHANGED <<roomMap, caught, users, fault, wrongEntry>>
        /\ recPlayer'[n] = n /\ sess'[n] = NewSession(n)
        /\ \E garbage \in Ids : plr'[n] = NewPlayer(n, garbage)
    BY <1>0 DEF IInv, TypeOK, AcceptConnection
  <2> QED
    BY <2>1 DEF NewSession, NewPlayer
<1> HIDE DEF n
<1>3. Up'
  BY <1>2 DEF Up
<1>4. Account' = [d \in clients \cup {n} |-> IF d = n THEN plr'[recPlayer'[n]].id ELSE Account[d]]
  <2>1. \A d \in clients' : plr'[recPlayer'[d]].id = IF d = n THEN plr'[recPlayer'[n]].id ELSE Account[d]
    BY <1>1, <1>2, Before
  <2> QED
    BY <1>2, <1>3, <2>1, After
<1>5. Present' = Present
  <2>1. ASSUME NEW r \in Rooms
        PROVE  {d \in clients' : plr'[recPlayer'[d]].roomId = r} = {d \in clients : RoomOf(d) = r}
    <3>1. r # NoRoom
      BY Before
    <3> QED
      BY <1>1, <1>2, <3>1
  <2> QED
    BY <1>3, <2>1, After, SeenInRooms
<1>6. Kicked' = Kicked
  BY <1>1, <1>2, <1>3, After DEF Kicked
<1>7. Status' = Status /\ n \notin PresenceService!Online /\ PresenceService!Online = clients
  BY <1>0, <1>3, After, Before
<1>8. PresenceService!Arrive(n)
  BY <1>2, <1>4, <1>5, <1>6, <1>7 DEF PresenceService!Arrive
<1> QED
  BY <1>0, <1>8

\* Session::Kick of a timed out session, and a violation
LEMMA KickSeen ==
    ASSUME IInv, RInv, Up, IInv', RInv', NEW c \in Conn, KickTimedOut(c) \/ Violation(c)
    PROVE  PresenceService!Kick(c) \/ UNCHANGED View
<1>0. /\ c \in clients /\ Sess(c) = c /\ ~sess[c].expired /\ UNCHANGED Untouched
      /\ sess \in [Conn -> Session] /\ clients \subseteq Conn
  BY SessOfRecord, SessType DEF KickTimedOut, Violation, Packet, Reads, Turn
<1>1. \A d \in Conn \ {c} : sess'[d].expired = sess[d].expired
  BY <1>0 DEF KickTimedOut, Violation, Session
<1>2. sess'[c].expired \in BOOLEAN
  BY SessOfRecord, <1>0 DEF IInv, TypeOK, Session
<1>3. Up' /\ UNCHANGED <<clients, recPlayer, plr, roomMap, caught, users, fault, wrongEntry>>
  BY <1>0 DEF Up, Untouched
<1>4. CASE ~sess'[c].expired
  <2>1. \A d \in clients : sess'[d].expired = sess[d].expired
    BY <1>0, <1>1, <1>2, <1>4 DEF Session
  <2> QED
    BY <1>3, <2>1, NotSeen DEF IdOf, RoomOf
<1>5. CASE sess'[c].expired
  <2>1. Account' = Account /\ Present' = Present /\ Status' = Status
    <3>1. \A d \in clients : plr'[recPlayer'[d]].id = IdOf(d) /\ plr'[recPlayer'[d]].roomId = RoomOf(d)
      BY <1>3 DEF IdOf, RoomOf
    <3>2. Account' = Account
      BY <1>3 DEF Account
    <3>3. Present' = Present
      BY <1>3, <3>1, NobodyMoves
    <3> QED
      BY <1>3, <3>2, <3>3, After, Before
  <2>2. Kicked' = Kicked \cup {c}
    BY <1>0, <1>1, <1>3, <1>5 DEF Kicked
  <2> QED
    BY <1>0, <1>3, <2>1, <2>2, Before DEF PresenceService!Kick
<1> QED
  BY <1>2, <1>4, <1>5

\* RemovePlayer takes the wrong entry out only of a room with two players of
\* one account.
LEMMA AstraySeen ==
    ASSUME IInv, RInv, Up, NEW c \in clients, RoomOf(c) \in roomMap,
           EraseEntry(RoomOf(c), recPlayer[c]), wrongEntry', fault' = "none"
    PROVE  PresenceService!GoAstray
<1> DEFINE p == recPlayer[c]
           r == RoomOf(c)
           S == {n \in DOMAIN room[r].members : plr[room[r].members[n]].id = plr[p].id}
<1>0. r \in Rooms /\ room[r].members \in Seq(Conn) /\ p \in LivePlayers
  BY DEF IInv, TypeOK, Room, LivePlayers
<1>1. ToSet(room[r].members) = PlayersIn(r) /\ DOMAIN room[r].members \subseteq Nat
  BY <1>0 DEF RInv, Exact, Up
<1>2. p \in ToSet(room[r].members)
  BY <1>0, <1>1 DEF PlayersIn, RoomOf
<1>3. S # {} /\ S \in SUBSET Nat
  BY <1>1, <1>2 DEF ToSet
<1>4. EntryToErase(r, p) = FirstOf(S)
  BY DEF EntryToErase
<1> HIDE DEF S
<1>5. PICK n \in FirstOf(S) : TRUE
  BY <1>3, FirstExists
<1>6. n \in S /\ \A m \in FirstOf(S) : m = n
  BY <1>3, <1>5 DEF FirstOf
<1> DEFINE q == room[r].members[n]
<1>7. {room[r].members[m] : m \in EntryToErase(r, p)} = {q}
  BY <1>4, <1>5, <1>6
<1>8. q # p
  BY <1>7 DEF EraseEntry, Up
<1>9. q \in PlayersIn(r) /\ plr[q].id = plr[p].id
  BY <1>1, <1>6 DEF S, ToSet
<1>10. PICK d \in clients : recPlayer[d] = q /\ RoomOf(d) = r
  BY <1>9 DEF PlayersIn, LivePlayers, RoomOf
<1>11. c # d /\ Account[c] = Account[d] /\ c \in Present[r] /\ d \in Present[r]
  <2>1. IdOf(c) = IdOf(d)
    BY <1>9, <1>10 DEF IdOf
  <2> QED
    BY <1>0, <1>8, <1>10, <2>1, Before
<1>12. Status' = "astray"
  BY DEF Status
<1> QED
  BY <1>11, <1>12 DEF PresenceService!GoAstray

\* The rooms with players in their lists are those with clients in them.
LEMMA AtWorkSeen ==
    ASSUME IInv, RInv, Up PROVE AtWork = {r \in roomMap : Present[r] # {}}
<1> SUFFICES ASSUME NEW r \in roomMap PROVE room[r].members # <<>> <=> Present[r] # {}
  BY DEF AtWork
<1>1. r \in Rooms /\ room[r].members \in Seq(Conn)
  BY DEF IInv, TypeOK, Room
<1>2. room[r].members # <<>> <=> ToSet(room[r].members) # {}
  <2>1. room[r].members = <<>> => ToSet(room[r].members) = {}
    BY DEF ToSet
  <2>2. room[r].members # <<>> => 1 \in DOMAIN room[r].members
    BY <1>1
  <2> QED
    BY <2>1, <2>2 DEF ToSet
<1>3. ToSet(room[r].members) = PlayersIn(r)
  BY <1>1 DEF RInv, Exact, Up
<1>4. PlayersIn(r) # {} <=> Present[r] # {}
  BY <1>1, <1>3 DEF Present, PlayersIn, LivePlayers
<1> QED
  BY <1>2, <1>3, <1>4

\* Network::RemoveClient
LEMMA RemoveSeen ==
    ASSUME IInv, RInv, Up, IInv', RInv', NEW c \in clients, NEW e, RemoveClient(c, e)
    PROVE  PresenceService!Leave(c) \/ PresenceService!Die \/ PresenceService!GoAstray
<1> DEFINE p == recPlayer[c]
           r == RoomOf(c)
<1>0. r = plr[p].roomId /\ r \in Rooms \cup {NoRoom} /\ roomMap \subseteq Rooms /\ NoRoom \notin Rooms
  BY Before DEF RoomOf
<1>1. CASE r # NoRoom /\ r \notin roomMap /\ Die("nullRoom")
  <2>1. \E d \in clients : ~sess[d].expired \/ (RoomOf(d) # NoRoom /\ RoomOf(d) \notin roomMap)
    BY <1>1
  <2> QED
    BY <1>1, <2>1, DyingSeen
<1>2. CASE r \in roomMap /\ Dangling(r)
  BY <1>0, <1>2, NoDangling DEF RInv, Up
<1>3. CASE r \in roomMap /\ EraseEntry(r, p) /\ Delete(c) /\ wrongEntry'
  BY <1>3, AstraySeen DEF Delete, Up
<1>4. ASSUME Delete(c), Catches(AtWork), ~wrongEntry', r \in roomMap \/ r = NoRoom
      PROVE  PresenceService!Leave(c)
  <2>1. /\ clients' = clients \ {c}
        /\ \A d \in clients' : /\ sess'[d] = sess[d] /\ plr'[recPlayer'[d]] = plr[recPlayer[d]]
    <3>1. /\ clients' = clients \ {c} /\ LivePlayers' = LivePlayers \ {recPlayer[c]}
          /\ \A q \in LivePlayers' : plr'[q] = plr[q]
          /\ \A d \in clients' : sess'[d] = sess[d] /\ recPlayer'[d] = recPlayer[d]
      BY <1>4, DeleteFacts
    <3>2. \A d \in clients' : recPlayer'[d] \in LivePlayers'
      BY DEF LivePlayers
    <3> QED
      BY <3>1, <3>2
  <2>2. Up' /\ UNCHANGED <<roomMap, users>>
    BY <1>4 DEF Delete, Up
  <2>3. Account' = [d \in clients \ {c} |-> Account[d]]
    <3>1. \A d \in clients' : plr'[recPlayer'[d]].id = Account[d]
      BY <2>1, Before DEF IdOf
    <3> QED
      BY <2>1, <2>2, <3>1, After
  <2>4. Present' = [n \in Rooms |-> Present[n] \ {c}]
    <3>1. \A n \in Rooms : {d \in clients' : plr'[recPlayer'[d]].roomId = n} = Present[n] \ {c}
      BY <2>1, Before DEF RoomOf
    <3> QED
      BY <2>2, <3>1, After
  <2>5. Kicked' = Kicked \ {c}
    BY <2>1 DEF Kicked
  <2>6. Status' = Status
    BY <2>2, After, Before
  <2>7. c \in PresenceService!Online /\ (PresenceService!Nowhere(c) \/ PresenceService!Playing(c))
    BY <1>4, Before
  <2>8. PresenceService!Online = clients
    BY Before
  <2>9. PresenceService!Catches({n \in roomMap : Present[n] # {}})
    <3>1. AtWork = {n \in roomMap : Present[n] # {}}
      BY AtWorkSeen
    <3> QED
      BY <1>4, <3>1 DEF Catches, PresenceService!Catches
  <2> QED
    BY <2>2, <2>3, <2>4, <2>5, <2>6, <2>7, <2>8, <2>9 DEF PresenceService!Leave
<1>5. CASE r = NoRoom /\ Delete(c) /\ Catches(AtWork) /\ UNCHANGED wrongEntry
  BY <1>4, <1>5 DEF Up
<1> HIDE DEF r
<1>6. \/ r # NoRoom /\ r \notin roomMap /\ Die("nullRoom")
      \/ r \in roomMap /\ Dangling(r)
      \/ r \in roomMap /\ EraseEntry(r, p) /\ Delete(c) /\ Catches(AtWork)
      \/ r = NoRoom /\ Delete(c) /\ Catches(AtWork) /\ UNCHANGED wrongEntry
  BY <1>0 DEF RemoveClient
<1>7. CASE r \in roomMap /\ EraseEntry(r, p) /\ Delete(c) /\ Catches(AtWork)
  BY <1>3, <1>4, <1>7
<1> QED
  BY <1>1, <1>2, <1>5, <1>6, <1>7

\* HandleLoginRequest: the holder of the id that is found is kicked, or the
\* new session if the holder's player is in a room
LEMMA LoginSeen ==
    ASSUME IInv, RInv, Up, IInv', RInv', NEW c \in Conn, NEW i \in Accounts,
           HandleLoginRequest(c, i)
    PROVE  PresenceService!LogIn(c, i)
<1>0. /\ c \in clients /\ Sess(c) = c /\ Plr(c) = recPlayer[c] /\ recPlayer[c] \in Conn
      /\ ~sess[c].expired /\ RoomOf(c) = NoRoom /\ i \in users
      /\ plr' = [plr EXCEPT ![recPlayer[c]].id = i] /\ plr \in [Conn -> Player]
  <2>1. Packet(c, {"auth"})
    BY DEF HandleLoginRequest
  <2>2. /\ c \in clients /\ Sess(c) = c /\ Plr(c) = recPlayer[c] /\ Plr(c) \in Conn
        /\ ~sess[c].expired /\ sess[c].state \in {"auth"}
    BY <2>1, PacketClient
  <2> QED
    BY <2>2 DEF HandleLoginRequest, IInv, TypeOK, AuthNoRoom, RoomOf
<1> DEFINE H == {d \in clients : plr[recPlayer[d]].id = i}
           existing == FindSessionByPlayerId(i)
           offered == \E e \in existing : Restorable(e)
           kicked == IF offered THEN {c} ELSE existing
           ss(k) == [t \in Conn |->
                       [sess[t] EXCEPT !.key = IF t = c THEN k ELSE @,
                                       !.state = IF t = c /\ ~offered THEN "lobby" ELSE @,
                                       !.expired = @ \/ t \in kicked]]
<1>1. PICK k \in Keys : Handled(c, ss(k))
  <2>1. Sess(c) = c
    BY <1>0
  <2> HIDE <1>0
  <2> QED
    BY <2>1 DEF HandleLoginRequest
<1>2. existing = FirstOf(H) /\ H \in SUBSET Nat
  <2>1. \A d \in FirstOf(H) : Sess(d) = d
    BY SessOfRecord DEF FirstOf
  <2>2. existing = {Sess(d) : d \in FirstOf(H)}
    BY DEF FindSessionByPlayerId
  <2>3. H \in SUBSET Nat
    BY SessOfRecord DEF Conn
  <2> QED
    BY <2>1, <2>2, <2>3
<1> HIDE DEF kicked, offered, existing
<1>3. ASSUME NEW t \in Conn
      PROVE  /\ ss(k)[t] \in Session
             /\ ss(k)[t].expired = (sess[t].expired \/ t \in kicked)
  <2>1. sess[t] \in Session
    BY SessType
  <2>2. (sess[t].expired \/ t \in kicked) \in BOOLEAN
    BY <2>1 DEF Session
  <2>3. (IF t = c THEN k ELSE sess[t].key) \in AllKeys
    BY <2>1 DEF Session, AllKeys
  <2>4. (IF t = c /\ ~offered THEN "lobby" ELSE sess[t].state) \in {"auth", "lobby", "game"}
    BY <2>1 DEF Session
  <2> QED
    BY <2>1, <2>2, <2>3, <2>4 DEF Session
<1>4. ss(k) \in [Conn -> Session]
  BY <1>3
<1> HIDE DEF ss
<1>5. /\ \A t \in Conn : sess'[t].expired = (sess[t].expired \/ t \in kicked)
      /\ UNCHANGED <<clients, fault>>
  BY <1>0, <1>1, <1>3, <1>4, HandledFields
<1>6. UNCHANGED <<recPlayer, roomMap, room, caught, users, wrongEntry>> /\ Up'
  BY <1>5 DEF HandleLoginRequest, Up
<1>7. ASSUME NEW d \in clients
      PROVE  /\ plr'[recPlayer'[d]].id = IF d = c THEN i ELSE IdOf(d)
             /\ plr'[recPlayer'[d]].roomId = RoomOf(d)
  <2>1. recPlayer[d] \in Conn /\ (recPlayer[d] = recPlayer[c] => d = c)
    BY <1>0, SessOfRecord DEF Sess
  <2> QED
    BY <1>0, <1>6, <2>1 DEF IdOf, RoomOf, Player
<1>8. Present' = Present /\ Status' = Status
  BY <1>5, <1>6, <1>7, NobodyMoves, After, Before
<1>9. Account' = [Account EXCEPT ![c] = i]
  <2>1. Account' = [d \in clients |-> IF d = c THEN i ELSE IdOf(d)]
    BY <1>5, <1>6, <1>7, After
  <2> QED
    BY <2>1 DEF Account, IdOf
<1>10. Kicked' = Kicked \cup (kicked \cap clients)
  <2>1. clients \subseteq Conn
    BY SessOfRecord
  <2> QED
    BY <1>5, <2>1 DEF Kicked
<1>11. PresenceService!Holders(i) = H
  BY Before DEF PresenceService!Holders, IdOf
<1> HIDE DEF H
<1>12. CASE H = {}
  <2>1. existing = {}
    BY <1>2, <1>12 DEF FirstOf
  <2>2. kicked = {}
    BY <2>1 DEF kicked, offered
  <2>3. Kicked' = Kicked /\ PresenceService!Holders(i) = {}
    BY <1>10, <1>11, <1>12, <2>2
  <2> QED
    BY <1>0, <1>6, <1>8, <1>9, <2>3, Before DEF PresenceService!LogIn
<1>13. CASE H # {}
  <2>1. PICK d \in FirstOf(H) : TRUE
    BY <1>2, <1>13, FirstExists
  <2>2. d \in H /\ d \in clients /\ existing = {d}
    BY <1>2, <2>1 DEF FirstOf, H
  <2>3. CASE offered
    <3>1. kicked = {c} /\ Restorable(d)
      BY <2>2, <2>3 DEF kicked, offered
    <3>2. RoomOf(d) \in roomMap
      BY <2>2, <3>1, SessOfRecord DEF Restorable, HasRoom, RoomOf, Plr
    <3>3. PresenceService!Playing(d) /\ Kicked' = Kicked \cup {c}
      BY <1>0, <1>10, <2>2, <3>1, <3>2, Before
    <3> QED
      BY <1>0, <1>6, <1>8, <1>9, <1>11, <2>2, <3>3, Before DEF PresenceService!LogIn
  <2>4. CASE ~offered
    <3>1. Kicked' = Kicked \cup {d}
      BY <1>10, <2>2, <2>4 DEF kicked
    <3> QED
      BY <1>0, <1>6, <1>8, <1>9, <1>11, <2>2, <3>1, Before DEF PresenceService!LogIn
  <2> QED
    BY <2>3, <2>4
<1> QED
  BY <1>12, <1>13

\* A client without a room that gets an id, or not, and nobody is kicked
LEMMA IdGiven ==
    ASSUME IInv, RInv, Up, IInv', RInv', NEW c \in clients, NEW i \in Ids, NEW j \in {i, IdOf(c)},
           NEW ss \in [Conn -> Session], Handled(c, ss),
           \A s \in Conn : ss[s].expired = sess[s].expired,
           \/ plr' = [plr EXCEPT ![recPlayer[c]].id = i] /\ j = i
           \/ plr' = plr /\ j = IdOf(c),
           UNCHANGED <<recPlayer, wrongEntry>>
    PROVE  UNCHANGED <<Present, Kicked, Status>> /\ Account' = [Account EXCEPT ![c] = j]
<1>0. c \in Conn /\ Sess(c) = c /\ recPlayer[c] \in Conn /\ plr \in [Conn -> Player]
  BY SessOfRecord DEF IInv, TypeOK
<1>1. /\ \A s \in Conn : sess'[s].expired = sess[s].expired
      /\ UNCHANGED <<clients, fault>>
  BY <1>0, HandledFields
<1>2. Up'
  BY <1>1 DEF Up
<1>3. ASSUME NEW d \in clients
      PROVE  /\ plr'[recPlayer'[d]].id = IF d = c THEN j ELSE IdOf(d)
             /\ plr'[recPlayer'[d]].roomId = RoomOf(d)
  <2>1. recPlayer[d] \in Conn /\ (recPlayer[d] = recPlayer[c] => d = c)
    BY <1>0, SessOfRecord DEF Sess
  <2> QED
    BY <1>0, <2>1 DEF IdOf, RoomOf, Player
<1>4. Present' = Present /\ Status' = Status
  BY <1>1, <1>2, <1>3, NobodyMoves, After, Before
<1>5. Account' = [Account EXCEPT ![c] = j]
  <2>1. Account' = [d \in clients |-> IF d = c THEN j ELSE IdOf(d)]
    BY <1>1, <1>2, <1>3, After
  <2> QED
    BY <2>1 DEF Account, IdOf
<1>6. Kicked' = Kicked
  <2>1. clients \subseteq Conn
    BY SessOfRecord
  <2> QED
    BY <1>1, <2>1 DEF Kicked
<1> QED
  BY <1>4, <1>5, <1>6

\* HandleRegisterRequest, whatever the two lookups return
LEMMA RegisterSeen ==
    ASSUME IInv, RInv, Up, IInv', RInv', NEW c \in Conn, NEW i \in Accounts,
           HandleRegisterRequest(c, i) \/ HandleRegisterTaken(c, i)
    PROVE  PresenceService!Register(c, i) \/ PresenceService!RegisterTaken(c, i)
<1>0. /\ c \in clients /\ Sess(c) = c /\ Plr(c) = recPlayer[c]
      /\ ~sess[c].expired /\ RoomOf(c) = NoRoom
  <2>1. Packet(c, {"auth"})
    BY DEF HandleRegisterRequest, HandleRegisterTaken
  <2>2. /\ c \in clients /\ Sess(c) = c /\ Plr(c) = recPlayer[c]
        /\ ~sess[c].expired /\ sess[c].state \in {"auth"}
    BY <2>1, PacketClient
  <2> QED
    BY <2>2 DEF IInv, AuthNoRoom, RoomOf
<1>1. sess \in [Conn -> Session] /\ c \in Conn /\ i \in Ids
  BY SessType DEF Ids
<1>2. UNCHANGED <<recPlayer, roomMap, caught, wrongEntry>>
  BY DEF HandleRegisterRequest, HandleRegisterTaken
<1>3. PresenceService!Acts(c) /\ PresenceService!Nowhere(c)
  BY <1>0, Before
<1>4. CASE Registered(c, i)
  <2> DEFINE ss(k) == [sess EXCEPT ![c].state = "lobby", ![c].key = k]
  <2>1. PICK k \in Keys : Handled(c, ss(k))
    BY <1>0, <1>4 DEF Registered
  <2>2. plr' = [plr EXCEPT ![recPlayer[c]].id = i]
    BY <1>0, <1>4 DEF Registered
  <2>3. ss(k) \in [Conn -> Session]
    <3> DEFINE st == [sess EXCEPT ![c].state = "lobby"]
    <3>1. st \in [Conn -> Session]
      BY <1>1, FieldType DEF AnyState
    <3> HIDE DEF st
    <3>2. [st EXCEPT ![c].key = k] \in [Conn -> Session]
      BY <3>1, FieldType DEF AllKeys
    <3> QED
      BY <3>2 DEF st
  <2>4. \A s \in Conn : ss(k)[s].expired = sess[s].expired
    BY <1>1 DEF Session
  <2> HIDE DEF ss
  <2>5. UNCHANGED <<Present, Kicked, Status>> /\ Account' = [Account EXCEPT ![c] = i]
    BY <1>0, <1>1, <1>2, <2>1, <2>2, <2>3, <2>4, IdGiven
  <2>6. CASE HandleRegisterRequest(c, i)
    <3>1. i \in Accounts \ users /\ users' = users \cup {i}
      BY <2>6 DEF HandleRegisterRequest
    <3> QED
      BY <1>2, <1>3, <2>5, <3>1 DEF PresenceService!Register
  <2>7. CASE HandleRegisterTaken(c, i)
    <3>1. i \in users /\ users' = users
      BY <2>7 DEF HandleRegisterTaken
    <3> QED
      BY <1>2, <1>3, <2>5, <3>1 DEF PresenceService!RegisterTaken
  <2> QED
    BY <2>6, <2>7
<1>5. ASSUME NEW k \in Keys, Handled(c, [sess EXCEPT ![c].key = k]), plr' = plr,
             HandleRegisterRequest(c, i)
      PROVE  PresenceService!Register(c, i)
  <2> DEFINE ss == [sess EXCEPT ![c].key = k]
  <2>1. ss \in [Conn -> Session]
    BY <1>1, FieldType DEF AllKeys
  <2>2. \A s \in Conn : ss[s].expired = sess[s].expired
    BY <1>1 DEF Session
  <2>3. Handled(c, ss)
    BY <1>5
  <2> HIDE DEF ss
  <2>4. UNCHANGED <<Present, Kicked, Status>> /\ Account' = [Account EXCEPT ![c] = IdOf(c)]
    BY <1>0, <1>1, <1>2, <1>5, <2>1, <2>2, <2>3, IdGiven
  <2>5. Account' = Account
    BY <1>0, <2>4 DEF Account, IdOf
  <2>6. i \in Accounts \ users /\ users' = users \cup {i}
    BY <1>5 DEF HandleRegisterRequest
  <2> QED
    BY <1>2, <1>3, <2>4, <2>5, <2>6 DEF PresenceService!Register
<1> QED
  BY <1>0, <1>4, <1>5 DEF HandleRegisterRequest, HandleRegisterTaken

\* HandleRestoreSession: what four pointers and two records do is one exchange
LEMMA RestoreSeen ==
    ASSUME IInv, RInv, Up, IInv', RInv', NEW c \in Conn, NEW k \in AllKeys, NEW i \in Ids,
           HandleRestoreSession(c, k, i)
    PROVE  \E e \in Conn : PresenceService!TakeOver(c, e)
<1>0. /\ c \in clients /\ Sess(c) = c /\ ~sess[c].expired
      /\ UNCHANGED <<roomMap, room, caught, users, wrongEntry>>
  BY PacketClient DEF HandleRestoreSession
<1>1. PICK e \in clients, ss \in [Conn -> Session] : Exchange(c, e, ss)
  BY RestoreFacts
<1> DEFINE p == recPlayer[c]
           q == recPlayer[e]
           Other(d) == PresenceService!Exchanged(c, e, d)
<1>2. /\ c \in Conn /\ e \in Conn /\ p \in Conn /\ q \in Conn
      /\ plr[p].session = c /\ plr[q].session = e /\ plr \in [Conn -> Player]
  <2>1. c \in Conn /\ e \in Conn /\ p \in Conn /\ q \in Conn
    BY <1>0, SessOfRecord
  <2>2. plr[p].session = c /\ plr[q].session = e
    BY <1>1 DEF Exchange
  <2> QED
    BY <2>1, <2>2 DEF IInv, TypeOK
<1>3. /\ \A d \in Conn : sess'[d].expired = ss[d].expired
      /\ UNCHANGED <<clients, fault>>
  BY <1>0, <1>1, HandledFields DEF Exchange
<1>4. \A d \in clients : sess'[d].expired = (sess[d].expired \/ d = e)
  <2>1. /\ \A d \in Conn \ {c, e} : ss[d] = sess[d]
        /\ c # e => ss[c].expired = sess[c].expired
        /\ ss[e].expired /\ \A d \in Conn : ss[d].expired \in BOOLEAN /\ sess[d].expired \in BOOLEAN
    BY <1>1, SessType DEF Exchange, Session
  <2>2. clients \subseteq Conn
    BY SessOfRecord
  <2> QED
    BY <1>2, <1>3, <2>1, <2>2
<1>5. \A d \in Conn : plr'[d].id = plr[d].id /\ plr'[d].roomId = plr[d].roomId
  BY <1>1, <1>2 DEF Exchange, Player
<1>6. \A d \in clients : /\ Other(d) \in clients
                         /\ recPlayer'[d] = recPlayer[Other(d)] /\ recPlayer'[d] \in Conn
  <2> SUFFICES ASSUME NEW d \in clients
               PROVE  /\ Other(d) \in clients
                      /\ recPlayer'[d] = recPlayer[Other(d)] /\ recPlayer'[d] \in Conn
    OBVIOUS
  <2>1. /\ d \in Conn /\ recPlayer[d] \in Conn
        /\ recPlayer[d] = p => d = c
        /\ recPlayer[d] = q => d = e
    BY <1>2, SessOfRecord DEF Sess
  <2>2. recPlayer'[d] = IF recPlayer[d] = p THEN q ELSE IF recPlayer[d] = q THEN p ELSE recPlayer[d]
    BY <1>1, <2>1 DEF Exchange, OverridePlayerClient
  <2> QED
    BY <1>0, <1>2, <2>1, <2>2 DEF PresenceService!Exchanged
<1> HIDE DEF Other
<1>7. \A d \in clients : /\ plr'[recPlayer'[d]].id = IdOf(Other(d))
                         /\ plr'[recPlayer'[d]].roomId = RoomOf(Other(d))
  BY <1>5, <1>6 DEF IdOf, RoomOf
<1>8. Up'
  BY <1>0, <1>3 DEF Up
<1>9. Account' = [d \in clients |-> Account[Other(d)]]
  <2>1. \A d \in clients : plr'[recPlayer'[d]].id = Account[Other(d)]
    BY <1>6, <1>7, Before
  <2> QED
    BY <1>3, <1>8, <2>1, After
<1>10. Present' = [r \in Rooms |-> {d \in clients : Other(d) \in Present[r]}]
  <2>1. \A r \in Rooms : {d \in clients' : plr'[recPlayer'[d]].roomId = r}
                            = {d \in clients : Other(d) \in Present[r]}
    BY <1>3, <1>6, <1>7, Before
  <2> QED
    BY <1>8, <2>1, After
<1>11. Kicked' = Kicked \cup {e}
  BY <1>3, <1>4 DEF Kicked
<1>12. Status' = Status /\ PresenceService!Online = clients /\ PresenceService!Acts(c)
  BY <1>0, <1>8, After, Before
<1>13. PresenceService!TakeOver(c, e)
  BY <1>0, <1>9, <1>10, <1>11, <1>12 DEF PresenceService!TakeOver, Other
<1> QED
  BY <1>2, <1>13

\* A handler that writes its own player's room id moves that client only.
LEMMA MoveSeen ==
    ASSUME IInv, RInv, Up, IInv', RInv', Up', NEW c \in clients, NEW n, NEW q \in AnyState,
           SetRoomId(recPlayer[c], n), UNCHANGED recPlayer,
           Handled(c, [sess EXCEPT ![c].state = q])
    PROVE  /\ UNCHANGED <<Account, Kicked, Status>>
           /\ Present' = [r \in Rooms |-> (Present[r] \ {c}) \cup (IF r = n THEN {c} ELSE {})]
<1> DEFINE ss == [sess EXCEPT ![c].state = q]
<1>0. c \in Conn /\ Sess(c) = c /\ recPlayer[c] \in Conn /\ sess \in [Conn -> Session]
      /\ plr \in [Conn -> Player]
  BY SessOfRecord DEF IInv, TypeOK
<1>1. ss \in [Conn -> Session]
  BY <1>0, FieldType
<1>2. \A d \in Conn : ss[d].expired = sess[d].expired
  BY <1>0 DEF Session
<1> HIDE DEF ss
<1>3. Handled(c, ss)
  BY DEF ss
<1>4. /\ \A d \in Conn : sess'[d].expired = sess[d].expired
      /\ UNCHANGED <<clients, fault>>
  BY <1>0, <1>1, <1>2, <1>3, HandledFields
<1>5. ASSUME NEW d \in clients
      PROVE  /\ plr'[recPlayer'[d]].id = IdOf(d)
             /\ plr'[recPlayer'[d]].roomId = IF d = c THEN n ELSE RoomOf(d)
  <2>1. recPlayer[d] \in Conn /\ (recPlayer[d] = recPlayer[c] => d = c)
    BY <1>0, SessOfRecord DEF Sess
  <2> QED
    BY <1>0, <2>1 DEF IdOf, RoomOf, Player, SetRoomId
<1>6. Account' = Account
  BY <1>4, <1>5, After DEF Account, IdOf
<1>7. Kicked' = Kicked
  <2>1. clients \subseteq Conn
    BY SessOfRecord
  <2> QED
    BY <1>4, <2>1 DEF Kicked
<1>8. Status' = Status
  BY After, Before
<1>9. Present' = [r \in Rooms |-> (Present[r] \ {c}) \cup (IF r = n THEN {c} ELSE {})]
  <2>1. \A r \in Rooms : {d \in clients' : plr'[recPlayer'[d]].roomId = r}
                            = (Present[r] \ {c}) \cup (IF r = n THEN {c} ELSE {})
    BY <1>4, <1>5, Before
  <2> QED
    BY <2>1, After
<1> QED
  BY <1>6, <1>7, <1>8, <1>9

\* HandleJoinRoomRequest
LEMMA JoinSeen ==
    ASSUME IInv, RInv, Up, IInv', RInv', NEW c \in Conn, NEW r \in Rooms,
           HandleJoinRoomRequest(c, r)
    PROVE  PresenceService!Enter(c, r)
<1>0. /\ c \in clients /\ Sess(c) = c /\ Plr(c) = recPlayer[c] /\ ~sess[c].expired
      /\ r \in roomMap /\ RoomOf(c) = NoRoom /\ Len(room[r].members) < Capacity
  BY PacketClient DEF HandleJoinRoomRequest, RoomOf
<1>1. ~Dangling(r)
  BY NoDangling DEF RInv, Up
<1>2. /\ SetRoomId(recPlayer[c], r) /\ Handled(c, [sess EXCEPT ![c].state = "game"])
      /\ UNCHANGED <<recPlayer, roomMap, caught, users, wrongEntry>>
  BY <1>0, <1>1 DEF HandleJoinRoomRequest
<1>3. Up'
  BY <1>2 DEF Up, Handled
<1>4. /\ UNCHANGED <<Account, Kicked, Status>>
      /\ Present' = [n \in Rooms |-> (Present[n] \ {c}) \cup (IF n = r THEN {c} ELSE {})]
  <2>1. "game" \in AnyState
    BY DEF AnyState
  <2> QED
    BY <1>0, <1>2, <1>3, <2>1, MoveSeen
<1>5. Present' = [Present EXCEPT ![r] = @ \cup {c}]
  BY <1>0, <1>4, Before
<1>6. Cardinality(Present[r]) < Capacity
  <2>1. room[r].members \in Seq(Conn)
    BY DEF IInv, TypeOK, Room
  <2>2. \A d \in Present[r] : recPlayer[d] \in ToSet(room[r].members)
    BY DEF Present
  <2>3. \A d, b \in Present[r] : recPlayer[d] = recPlayer[b] => d = b
    BY Before, SessOfRecord DEF Sess
  <2>4. IsFiniteSet(Present[r]) /\ Cardinality(Present[r]) <= Len(room[r].members)
    BY <2>1, <2>2, <2>3, NotMoreThanEntries
  <2>5. Cardinality(Present[r]) \in Nat /\ Len(room[r].members) \in Nat /\ Capacity \in Nat
    BY <2>1, <2>4, FS_CardinalityType, BoundsAssumption
  <2> QED
    BY <1>0, <2>4, <2>5
<1>7. PresenceService!Acts(c) /\ PresenceService!Nowhere(c)
  BY <1>0, Before
<1>8. PresenceService!Cardinality(Present[r]) = Cardinality(Present[r])
  BY DEF Cardinality, PresenceService!Cardinality
<1> QED
  BY <1>0, <1>2, <1>4, <1>5, <1>6, <1>7, <1>8 DEF PresenceService!Enter

\* HandleCreateRoom: the new room's creator was in no room
LEMMA CreateSeen ==
    ASSUME IInv, RInv, Up, IInv', RInv', NEW c \in Conn, HandleCreateRoom(c)
    PROVE  \E r \in Rooms : PresenceService!Create(c, r)
<1> DEFINE r == lastRoomId + 1
<1>0. /\ c \in clients /\ Sess(c) = c /\ Plr(c) = recPlayer[c] /\ ~sess[c].expired
      /\ sess[c].state \in {"lobby"} /\ r \in Rooms
  BY PacketClient DEF HandleCreateRoom
<1>1. RoomOf(c) = NoRoom
  BY <1>0 DEF RInv, OutsideGameNoRoom, Up, RoomOf
<1>2. /\ SetRoomId(recPlayer[c], r) /\ Handled(c, [sess EXCEPT ![c].state = "game"])
      /\ roomMap' = roomMap \cup {r} /\ UNCHANGED <<recPlayer, caught, users, wrongEntry>>
  BY <1>0 DEF HandleCreateRoom
<1>3. r > lastRoomId
  BY DEF IInv, TypeOK, Rooms
<1> HIDE DEF r
<1>4. room[r].members = <<>> /\ room[r].thread = "unborn"
  BY <1>0, <1>3 DEF RInv, RoomsInOrder
<1>5. r \notin roomMap /\ Present[r] = {}
  <2>1. r \notin roomMap
    BY <1>0, <1>4 DEF RInv, RoomsInOrder
  <2>2. ToSet(room[r].members) = {}
    BY <1>4 DEF ToSet
  <2>3. Present[r] = {d \in clients : recPlayer[d] \in {}}
    BY <1>0, <2>2 DEF Present
  <2> QED
    BY <2>1, <2>3
<1>6. Up'
  BY <1>2 DEF Up, Handled
<1>7. /\ UNCHANGED <<Account, Kicked, Status>>
      /\ Present' = [n \in Rooms |-> (Present[n] \ {c}) \cup (IF n = r THEN {c} ELSE {})]
  <2>1. "game" \in AnyState
    BY DEF AnyState
  <2> QED
    BY <1>0, <1>2, <1>6, <2>1, MoveSeen
<1>8. Present' = [Present EXCEPT ![r] = {c}]
  BY <1>0, <1>1, <1>5, <1>7, Before
<1>9. PresenceService!Create(c, r)
  BY <1>0, <1>1, <1>2, <1>5, <1>7, <1>8, Before DEF PresenceService!Create
<1> QED
  BY <1>0, <1>9

\* HandlePlayerExit
LEMMA ExitSeen ==
    ASSUME IInv, RInv, Up, IInv', RInv', NEW c \in Conn, HandlePlayerExit(c)
    PROVE  (\E r \in Rooms : PresenceService!Exit(c, r)) \/ PresenceService!GoAstray
<1> DEFINE p == recPlayer[c]
           r == RoomOf(c)
<1>0. /\ c \in clients /\ Sess(c) = c /\ Plr(c) = p /\ ~sess[c].expired /\ plr[p].session = c
      /\ r = plr[p].roomId /\ r \in roomMap /\ r \in Rooms
  <2>1. /\ c \in clients /\ Sess(c) = c /\ Plr(c) = p /\ ~sess[c].expired
    BY PacketClient DEF HandlePlayerExit
  <2> QED
    BY <2>1, Before DEF HandlePlayerExit, HasRoom, RoomOf, Sess
<1>1. ~Dangling(r)
  BY <1>0, NoDangling DEF RInv, Up
<1>2. /\ EraseEntry(r, p) /\ LeaveRoom(r, p) /\ Handled(c, [sess EXCEPT ![c].state = "lobby"])
      /\ Catches({r}) /\ UNCHANGED <<recPlayer, roomMap, users>>
  BY <1>0, <1>1 DEF HandlePlayerExit
<1>3. fault' = "none"
  BY <1>2 DEF Handled, Up
<1>4. CASE wrongEntry'
  BY <1>0, <1>2, <1>3, <1>4, AstraySeen
<1>5. CASE ~wrongEntry'
  <2>1. Up'
    BY <1>3, <1>5 DEF Up
  <2>2. EntryToErase(r, p) # {}
    BY <1>0, <1>2, <1>5, EraseFacts DEF IInv
  <2>3. SetRoomId(p, NoRoom)
    BY <1>2, <2>2 DEF LeaveRoom
  <2>4. /\ UNCHANGED <<Account, Kicked, Status>>
        /\ Present' = [n \in Rooms |-> (Present[n] \ {c}) \cup (IF n = NoRoom THEN {c} ELSE {})]
    <3>1. "lobby" \in AnyState
      BY DEF AnyState
    <3> QED
      BY <1>0, <1>2, <2>1, <2>3, <3>1, MoveSeen
  <2>5. Present' = [Present EXCEPT ![r] = @ \ {c}]
    <3>1. \A n \in Rooms : n # NoRoom /\ (n # r => c \notin Present[n])
      BY <1>0, Before
    <3>2. \A n \in Rooms : (Present[n] \ {c}) \cup (IF n = NoRoom THEN {c} ELSE {})
                              = IF n = r THEN Present[r] \ {c} ELSE Present[n]
      BY <3>1
    <3>3. Present' = [n \in Rooms |-> IF n = r THEN Present[r] \ {c} ELSE Present[n]]
      BY <2>4, <3>2
    <3>4. DOMAIN Present = Rooms
      BY DEF Present
    <3> QED
      BY <3>3, <3>4
  <2>6. PresenceService!Acts(c) /\ c \in Present[r]
    BY <1>0, Before
  <2>7. PresenceService!Exit(c, r)
    BY <1>0, <1>2, <2>4, <2>5, <2>6 DEF PresenceService!Exit, Catches, PresenceService!Catches
  <2> QED
    BY <1>0, <2>7
<1> QED
  BY <1>4, <1>5

\* A round is not seen, unless it was at work with what has been deleted.
LEMMA RoundSeen ==
    ASSUME IInv, RInv, Up, IInv', RInv', NEW r \in Rooms, RoomRound(r)
    PROVE  PresenceService!Escape(r) \/ PresenceService!Die \/ UNCHANGED View
<1> DEFINE present == {plr[room[r].members[n]].session : n \in DOMAIN room[r].members}
<1>1. ~Dangling(r)
  BY NoDangling DEF RInv, Up
<1>2. CASE r \in caught /\ Die("useAfterFree")
  BY <1>2, DyingSeen
<1>3. CASE /\ sess' = [s \in Conn |-> IF s \in present THEN Pings(sess[s]) ELSE sess[s]]
           /\ caught' = caught \ {r}
           /\ UNCHANGED <<clients, recPlayer, plr, roomMap, users, fault, wrongEntry>>
  <2> HIDE DEF present
  <2>1. \A s \in Conn : sess'[s].expired = sess[s].expired
    BY <1>3, SessType, PingsType
  <2>2. clients \subseteq Conn
    BY SessOfRecord
  <2>3. UNCHANGED <<Account, Present, Kicked, Status>>
    BY <1>3, <2>1, <2>2, SameClients DEF IdOf, RoomOf
  <2>4. CASE r \in caught
    BY <1>3, <2>3, <2>4 DEF PresenceService!Escape
  <2>5. CASE r \notin caught
    BY <1>3, <2>3, <2>5 DEF View
  <2> QED
    BY <2>4, <2>5
<1> HIDE DEF present
<1> QED
  BY <1>1, <1>2, <1>3 DEF RoomRound, present

LEMMA EndSeen ==
    ASSUME IInv, RInv, Up, IInv', RInv', NEW r \in Rooms, EndRoom(r)
    PROVE  PresenceService!Close(r)
<1>1. /\ r # DefaultRoom /\ roomMap' = roomMap \ {r} /\ room[r].thread = "running"
      /\ r \notin caught /\ UNCHANGED <<clients, recPlayer, sess, plr, caught, users, fault, wrongEntry>>
  BY DEF EndRoom, ToBeEnded, Runs
<1>2. r \in roomMap
  BY <1>1 DEF RInv, RoomsInOrder
<1>3. Up'
  BY <1>1 DEF Up
<1>4. UNCHANGED <<Account, Kicked, Status>>
  BY <1>1 DEF Account, Kicked, Status
<1>5. Present' = Present
  BY <1>1, <1>3, NobodyMoves DEF RoomOf
<1> QED
  BY <1>1, <1>2, <1>4, <1>5 DEF PresenceService!Close

LEMMA DeleteSeen ==
    ASSUME IInv, RInv, Up, IInv', RInv', NEW r \in Rooms, DeleteRoom(r)
    PROVE  PresenceService!Clear(r)
<1>1. ~Dangling(r)
  BY NoDangling DEF RInv, Up
<1>2. /\ ReleasePlayers(r) /\ room[r].thread = "ended"
      /\ UNCHANGED <<clients, recPlayer, sess, roomMap, caught, users, fault, wrongEntry>>
  BY <1>1 DEF DeleteRoom
<1>3. r \notin roomMap
  BY <1>2 DEF RInv, RoomsInOrder
<1>4. Up'
  BY <1>2 DEF Up
<1>5. \A d \in clients : /\ plr'[recPlayer'[d]].id = IdOf(d)
                         /\ plr'[recPlayer'[d]].roomId = IF d \in Present[r] THEN NoRoom ELSE RoomOf(d)
  <2>1. \A d \in clients : /\ recPlayer[d] \in Conn
                           /\ d \in Present[r] <=> recPlayer[d] \in ToSet(room[r].members)
    BY SessOfRecord DEF Present
  <2>2. plr \in [Conn -> Player]
    BY DEF IInv, TypeOK
  <2> QED
    BY <1>2, <2>1, <2>2 DEF ReleasePlayers, IdOf, RoomOf, Player
<1>6. Account' = Account
  BY <1>2, <1>4, <1>5, After DEF Account, IdOf
<1>7. Kicked' = Kicked /\ Status' = Status
  BY <1>2, <1>4, After, Before DEF Kicked
<1>8. Present' = [Present EXCEPT ![r] = {}]
  <2>1. \A n \in Rooms : {d \in clients' : plr'[recPlayer'[d]].roomId = n}
                            = IF n = r THEN {} ELSE Present[n]
    BY <1>2, <1>5, Before
  <2>2. Present' = [n \in Rooms |-> IF n = r THEN {} ELSE Present[n]]
    BY <1>4, <2>1, After
  <2> QED
    BY <2>2, Before
<1> QED
  BY <1>2, <1>3, <1>6, <1>7, <1>8 DEF PresenceService!Clear

-----------------------------------------------------------------------------
(* Every step, from a state in which nothing went wrong and from any other. *)

\* A packet's handler
LEMMA HandlePacketSeen ==
    ASSUME IInv, RInv, Up, IInv', RInv', NEW c \in Conn, HandlePacket(c)
    PROVE  PresenceService!Serve \/ PresenceService!Die \/ PresenceService!GoAstray \/ UNCHANGED View
<1>1. CASE HandleWithoutEffect(c) \/ HandlePong(c) \/ HandleAuthRefused(c)
           \/ \E k \in AllKeys, i \in Ids : HandleRestoreNotFound(c, k, i)
  BY <1>1, QuietUnseen
<1>2. CASE Violation(c)
  BY <1>2, KickSeen DEF PresenceService!Serve
<1>3. CASE ShortPacket(c) \/ HandleInMissingRoom(c)
  <2>1. c \in clients /\ ~sess[c].expired
    BY <1>3, PacketClient DEF ShortPacket, HandleInMissingRoom
  <2>2. Die("uncaughtException") \/ Die("nullRoom")
    BY <1>3 DEF ShortPacket, HandleInMissingRoom
  <2>3. \E d \in clients : ~sess[d].expired \/ (RoomOf(d) # NoRoom /\ RoomOf(d) \notin roomMap)
    BY <2>1
  <2> QED
    BY <2>2, <2>3, DyingSeen
<1>4. ASSUME NEW i \in Accounts,
             HandleLoginRequest(c, i) \/ HandleRegisterRequest(c, i) \/ HandleRegisterTaken(c, i)
      PROVE  PresenceService!Serve
  BY <1>4, LoginSeen, RegisterSeen DEF PresenceService!Serve
<1>5. ASSUME NEW k \in AllKeys, NEW i \in Ids, HandleRestoreSession(c, k, i)
      PROVE  PresenceService!Serve
  BY <1>5, RestoreSeen DEF PresenceService!Serve
<1>6. ASSUME NEW r \in Rooms, HandleJoinRoomRequest(c, r) PROVE PresenceService!Serve
  BY <1>6, JoinSeen DEF PresenceService!Serve
<1>7. CASE HandleCreateRoom(c)
  BY <1>7, CreateSeen DEF PresenceService!Serve
<1>8. CASE HandlePlayerExit(c)
  BY <1>8, ExitSeen DEF PresenceService!Serve
<1> QED
  BY <1>1, <1>2, <1>3, <1>4, <1>5, <1>6, <1>7, <1>8 DEF HandlePacket

\* While nothing went wrong every step serves, kills the process or erases a
\* wrong entry, as Presence says it may.
LEMMA UpSeen ==
    ASSUME IInv, RInv, Up, IInv', RInv', Next
    PROVE  PresenceService!Serve \/ PresenceService!Die \/ PresenceService!GoAstray \/ UNCHANGED View
<1>1. ASSUME NEW c \in Conn, UpdateClient(c)
      PROVE  PresenceService!Serve \/ PresenceService!Die \/ PresenceService!GoAstray \/ UNCHANGED View
  <2>1. CASE RemoveExpired(c) \/ RemoveBroken(c) \/ RemoveMalformed(c)
    <3>1. c \in clients /\ \E e : RemoveClient(c, e)
      BY <2>1 DEF RemoveExpired, RemoveBroken, RemoveMalformed, Reads, Turn
    <3> QED
      BY <3>1, RemoveSeen DEF PresenceService!Serve
  <2>2. CASE SkipTimedOut(c) \/ NothingRead(c) \/ StartTimeout(c)
    BY <2>2, QuietUnseen
  <2>3. CASE KickTimedOut(c)
    BY <2>3, KickSeen DEF PresenceService!Serve
  <2>4. CASE HandlePacket(c)
    BY <2>4, HandlePacketSeen
  <2> QED
    BY <1>1, <2>1, <2>2, <2>3, <2>4 DEF UpdateClient
<1>2. CASE AcceptConnection
  BY <1>2, AcceptSeen DEF PresenceService!Serve
<1>3. CASE AcceptNothing \/ Environment
  BY <1>3, QuietUnseen
<1>4. ASSUME NEW r \in Rooms, RoomUpdater(r)
      PROVE  PresenceService!Serve \/ PresenceService!Die \/ UNCHANGED View
  BY <1>4, RoundSeen, EndSeen, DeleteSeen DEF RoomUpdater, PresenceService!Serve
<1> QED
  BY <1>1, <1>2, <1>3, <1>4 DEF Next, NetworkThread

\* Nothing runs after the process has died, and no step makes up for an entry
\* that was wrongly erased.
LEMMA DownStays == ASSUME IInv, Next, ~Up PROVE Status # "up" /\ Status' # "up"
<1> DEFINE Stays == fault = "none" /\ (fault' # "none" \/ (wrongEntry => wrongEntry'))
<1>1. ASSUME NEW c \in Conn, UpdateClient(c) PROVE Stays
  <2>1. fault = "none"
    BY <1>1 DEF UpdateClient, RemoveExpired, SkipTimedOut, KickTimedOut, NothingRead, StartTimeout,
       RemoveBroken, RemoveMalformed, Reads, Turn, HandlePacket, Violation, ShortPacket,
       HandleWithoutEffect, HandleInMissingRoom, HandlePong, HandleAuthRefused, HandleLoginRequest,
       HandleRegisterRequest, HandleRegisterTaken, HandleRestoreNotFound, HandleRestoreSession, HandleJoinRoomRequest,
       HandleCreateRoom, HandlePlayerExit, Packet
  <2>2. ASSUME NEW r \in roomMap, NEW p, EraseEntry(r, p) PROVE wrongEntry => wrongEntry'
    BY <2>2 DEF EraseEntry
  <2>3. CASE RemoveExpired(c) \/ RemoveBroken(c) \/ RemoveMalformed(c)
    <3>1. \E e : RemoveClient(c, e)
      BY <2>3 DEF RemoveExpired, RemoveBroken, RemoveMalformed
    <3>2. fault' # "none" \/ (wrongEntry => wrongEntry')
      BY <2>2, <3>1 DEF RemoveClient, Die
    <3> QED
      BY <2>1, <3>2
  <2>4. CASE SkipTimedOut(c) \/ KickTimedOut(c) \/ NothingRead(c) \/ StartTimeout(c)
    BY <2>1, <2>4 DEF SkipTimedOut, KickTimedOut, NothingRead, StartTimeout, Untouched
  <2>5. CASE HandlePlayerExit(c)
    <3>1. Die("useAfterFree") \/ EraseEntry(plr[Plr(c)].roomId, Plr(c))
      BY <2>5 DEF HandlePlayerExit
    <3>2. plr[Plr(c)].roomId \in roomMap
      BY <2>5 DEF HandlePlayerExit, HasRoom
    <3> QED
      BY <2>1, <2>2, <3>1, <3>2 DEF Die
  <2>6. CASE HandlePacket(c) /\ ~HandlePlayerExit(c)
    <3>1. Die("uncaughtException") \/ Die("nullRoom") \/ Die("useAfterFree") \/ UNCHANGED wrongEntry
      BY <2>6 DEF HandlePacket, Violation, ShortPacket, HandleWithoutEffect, HandleInMissingRoom,
         HandlePong, HandleAuthRefused, HandleLoginRequest, HandleRegisterRequest,
         HandleRegisterTaken, HandleRestoreNotFound, HandleRestoreSession, HandleJoinRoomRequest, HandleCreateRoom,
         Untouched
    <3> QED
      BY <2>1, <3>1 DEF Die
  <2> QED
    BY <1>1, <2>3, <2>4, <2>5, <2>6 DEF UpdateClient
<1>2. ASSUME AcceptConnection \/ AcceptNothing PROVE Stays
  BY <1>2 DEF AcceptConnection, AcceptNothing
<1>3. ASSUME NEW r \in Rooms, RoomUpdater(r) PROVE Stays
  <2>1. fault = "none"
    BY <1>3 DEF RoomUpdater, RoomRound, EndRoom, DeleteRoom, Runs
  <2>2. UNCHANGED wrongEntry
    BY <1>3 DEF RoomUpdater, RoomRound, EndRoom, DeleteRoom, Die
  <2> QED
    BY <2>1, <2>2
<1>4. ASSUME Environment PROVE Stays
  BY <1>4 DEF Environment, ConnectionEnds, ResetConsumed, TimeoutPasses, PingTimePasses,
     EmptyTimePasses, Elsewhere
<1>5. Stays
  BY <1>1, <1>2, <1>3, <1>4 DEF Next, NetworkThread
<1>6. fault = "none" /\ wrongEntry /\ (fault' # "none" \/ wrongEntry')
  BY <1>5 DEF Up
<1>7. Status = "astray"
  BY <1>6 DEF Status
<1>8. Status' \in {"dead", "astray"}
  BY <1>6 DEF Status
<1> QED
  BY <1>7, <1>8

\* Sessions implements Presence, for every number of connections, rooms,
\* accounts and keys.
THEOREM SessionsImplementPresence == Spec => ImplementsPresence
<1>1. Init => PresenceService!Init
  <2> SUFFICES ASSUME Init PROVE PresenceService!Init
    OBVIOUS
  <2>1. /\ clients = {} /\ roomMap = {DefaultRoom} /\ caught = {} /\ users = InitUsers
        /\ Status = "up"
    BY DEF Init, Status
  <2>2. Account = [c \in {} |-> c] /\ Present = [r \in Rooms |-> {}] /\ Kicked = {}
    BY <2>1 DEF Account, Present, Kicked
  <2> QED
    BY <2>1, <2>2 DEF PresenceService!Init
<1>2. IInv /\ RInv /\ IInv' /\ RInv' /\ [Next]_vars => [PresenceService!Next]_View
  <2> SUFFICES ASSUME IInv, RInv, IInv', RInv', [Next]_vars
               PROVE  PresenceService!Next \/ UNCHANGED View
    OBVIOUS
  <2>1. CASE UNCHANGED vars
    BY <2>1 DEF vars, View, Account, Present, Kicked, Status
  <2>2. CASE Next /\ Up
    BY <2>2, UpSeen, Before DEF PresenceService!Next
  <2>3. CASE Next /\ ~Up
    BY <2>3, DownStays DEF PresenceService!Next
  <2> QED
    BY <2>1, <2>2, <2>3
<1> QED
  BY <1>1, <1>2, Invariant, RoomsInvariant, PTL
     DEF Spec, ImplementsPresence, PresenceService!Spec, PresenceService!vars, View
=============================================================================
