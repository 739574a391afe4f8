-------------------------- MODULE Sessions_proofs --------------------------
(***************************************************************************)
(* Proofs about Sessions, for every number of connections, rooms, accounts *)
(* and keys.  One inductive invariant, IInv, carries all the theorems; the *)
(* three action properties of Sessions are proved for every step from it.  *)
(***************************************************************************)
EXTENDS Sessions, TLAPS

\* A session with MaxViolations violations is marked as expired, so that its
\* counter is never raised again.
Counted == \A s \in Conn : sess[s].violations = MaxViolations => sess[s].expired

\* The players of the records are players of accepted connections.
KnownPlayers == \A c \in clients : recPlayer[c] \in 1 .. accepted

\* A session that may still log in has a player in no room.
AuthNoRoom ==
    \A c \in clients :
        sess[c].state = "auth" /\ ~sess[c].expired => plr[recPlayer[c]].roomId = NoRoom

\* The inductive invariant
IInv == TypeOK /\ Counted /\ KnownPlayers /\ Pairing /\ AuthNoRoom

\* What every step does: the three action properties
Steps ==
    /\ \A c \in clients : StaysKicked(c)
    /\ \A p \in LivePlayers \cap LivePlayers' : TakenOver(p)
    /\ \A p \in LivePlayers \cap LivePlayers' : KeepsId(p)

\* The server starts in the invariant.
LEMMA InitInv == Init => IInv
<1> SUFFICES ASSUME Init PROVE IInv
    OBVIOUS
<1> USE BoundsAssumption, UsersAssumption, KeysAssumption DEF Conn, Rooms, NoRoom, DefaultRoom, Ids, AllKeys
<1>1. TypeOK
  <2>1. sess \in [Conn -> Session]
    BY DEF Init, Session, NewSession
  <2>2. plr \in [Conn -> Player]
    BY DEF Init, Player, NewPlayer
  <2>3. room \in [Rooms -> Room]
    BY DEF Init, Room
  <2>4. accepted \in 0 .. MaxConn /\ clients \subseteq 1 .. accepted /\ lastRoomId \in Rooms
    BY DEF Init
  <2>5. recPlayer \in [Conn -> Conn] /\ roomMap \subseteq Rooms /\ users \subseteq Accounts
    BY DEF Init
  <2>6. socket \in [Conn -> {"open", "fin", "reset", "abort", "broken"}]
    BY DEF Init
  <2> QED
    BY <2>1, <2>2, <2>3, <2>4, <2>5, <2>6 DEF Init, TypeOK
<1>2. Counted
  BY DEF Init, Counted, NewSession
<1>3. Pairing
  BY DEF Init, Pairing
<1>4. KnownPlayers
  BY DEF Init, KnownPlayers
<1>5. AuthNoRoom
  BY DEF Init, AuthNoRoom
<1> QED
  BY <1>1, <1>2, <1>3, <1>4, <1>5 DEF IInv

\* A new connection gets objects that nobody refers to yet.
LEMMA AcceptInv == IInv /\ AcceptConnection => IInv' /\ Steps
<1> SUFFICES ASSUME IInv, AcceptConnection PROVE IInv' /\ Steps
    OBVIOUS
<1> USE BoundsAssumption, UsersAssumption, KeysAssumption 
<1> DEFINE n == accepted + 1
<1>0. n \in Conn /\ n \notin clients
  BY DEF IInv, TypeOK, AcceptConnection, Conn
<1>1. sess' \in [Conn -> Session]
  BY <1>0 DEF IInv, TypeOK, AcceptConnection, Session, NewSession, AllKeys
<1>2. plr' \in [Conn -> Player]
  BY <1>0 DEF IInv, TypeOK, AcceptConnection, Player, NewPlayer
<1>3. cursor' \in Conn \cup {0}
  BY <1>0 DEF IInv, TypeOK, AcceptConnection, Advance, Conn
<1>4. TypeOK'
  BY <1>0, <1>1, <1>2, <1>3 DEF IInv, TypeOK, AcceptConnection, Conn
<1>5. Counted'
  BY <1>0 DEF IInv, Counted, TypeOK, AcceptConnection, NewSession
<1>6. KnownPlayers'
  BY <1>0 DEF IInv, KnownPlayers, TypeOK, AcceptConnection, Conn
<1>7. ASSUME NEW d \in clients
      PROVE  /\ recPlayer[d] # n /\ d # n /\ d \in Conn
             /\ recPlayer'[d] = recPlayer[d] /\ sess'[d] = sess[d]
             /\ plr'[recPlayer[d]] = plr[recPlayer[d]]
  <2>1. recPlayer[d] # n /\ d # n /\ d \in Conn
    BY <1>0 DEF IInv, KnownPlayers, TypeOK, Conn
  <2> QED
    BY <1>0, <2>1 DEF IInv, TypeOK, AcceptConnection
<1>8. recPlayer'[n] = n /\ sess'[n] = NewSession(n) /\ clients' = clients \cup {n}
      /\ \E garbage \in Ids : plr'[n] = NewPlayer(n, garbage)
  BY <1>0 DEF IInv, TypeOK, AcceptConnection
<1>9. Pairing'
  <2> SUFFICES ASSUME NEW d \in clients' PROVE (Sess(d) = d /\ Plr(d) = recPlayer[d])'
    BY DEF Pairing
  <2>1. CASE d = n
    BY <1>8, <2>1 DEF NewSession, NewPlayer, Sess, Plr
  <2>2. CASE d \in clients
    BY <1>7, <2>2 DEF IInv, Pairing, Sess, Plr
  <2> QED
    BY <1>8, <2>1, <2>2
<1>10. AuthNoRoom'
  BY <1>7, <1>8 DEF IInv, AuthNoRoom, NewPlayer
<1>11. Steps
  <2>1. \A p \in LivePlayers : plr'[p] = plr[p]
    BY <1>7 DEF LivePlayers
  <2>2. \A d \in clients : cursor # d
    BY DEF AcceptConnection, IInv, TypeOK
  <2> QED
    BY <1>7, <2>1, <2>2 DEF Steps, StaysKicked, TakenOver, KeepsId
<1> QED
  BY <1>4, <1>5, <1>6, <1>9, <1>10, <1>11 DEF IInv

\* Removing an entry of a sequence leaves a sequence over the same set.
LEMMA RemoveAtType ==
    ASSUME NEW S, NEW seq \in Seq(S), NEW n \in DOMAIN seq
    PROVE  RemoveAt(seq, n) \in Seq(S)
BY DEF RemoveAt

\* Room::RemovePlayer leaves a list of players.
LEMMA EraseType ==
    ASSUME TypeOK, NEW r \in Rooms, NEW p, EraseEntry(r, p)
    PROVE  room' \in [Rooms -> Room] /\ wrongEntry' \in BOOLEAN
<1> DEFINE entry == EntryToErase(r, p)
<1>1. wrongEntry' \in BOOLEAN
  BY DEF EraseEntry, TypeOK
<1>2. CASE entry = {}
  BY <1>1, <1>2 DEF EraseEntry, TypeOK
<1>3. CASE entry # {}
  <2> DEFINE n == CHOOSE m \in entry : TRUE
  <2>1. n \in DOMAIN room[r].members
    BY <1>3 DEF EntryToErase, FirstOf
  <2>2. room[r].members \in Seq(Conn)
    BY DEF TypeOK, Room
  <2>3. RemoveAt(room[r].members, n) \in Seq(Conn)
    BY <2>1, <2>2, RemoveAtType
  <2>4. room' = [room EXCEPT ![r].members = RemoveAt(@, n)]
    BY <1>3 DEF EraseEntry
  <2>5. room' \in [Rooms -> Room]
    BY <2>3, <2>4 DEF TypeOK, Room
  <2> QED
    BY <1>1, <2>5
<1> QED
  BY <1>2, <1>3

\* The process dies: nothing else changes.
LEMMA DieInv ==
    ASSUME IInv, NEW how \in {"nullRoom", "useAfterFree", "uncaughtException"}, Die(how)
    PROVE  IInv' /\ Steps
<1>1. IInv'
  BY DEF IInv, TypeOK, Counted, KnownPlayers, Pairing, AuthNoRoom, Die, Sess, Plr
<1>2. Steps
  BY DEF Steps, StaysKicked, TakenOver, KeepsId, Die
<1> QED
  BY <1>1, <1>2

\* The record of a client, its session and its player go together; no other
\* record refers to them.
LEMMA RemoveClientInv ==
    ASSUME IInv, NEW c \in clients, cursor = c,
           NEW e \in {"none", "wouldblock", "reset", "abort", "other"}, RemoveClient(c, e)
    PROVE  IInv' /\ Steps
<1> USE BoundsAssumption, UsersAssumption, KeysAssumption
<1>0. c \in Conn /\ Sess(c) = c /\ recPlayer[c] \in Conn
  BY DEF IInv, TypeOK, Pairing, Conn
<1>1. CASE \E how \in {"nullRoom", "useAfterFree"} : Die(how)
  BY <1>1, DieInv
<1>2. CASE /\ Delete(c) /\ Advance(c, clients \ {c}) /\ errno' \in {e, "reset", "other"}
           /\ room' \in [Rooms -> Room] /\ wrongEntry' \in BOOLEAN /\ caught' \subseteq Rooms
  <2>1. sess' \in [Conn -> Session]
    BY <1>0, <1>2 DEF Delete, IInv, TypeOK, Session, NewSession, AllKeys
  <2>2. plr' \in [Conn -> Player]
    BY <1>0, <1>2 DEF Delete, IInv, TypeOK, Player, NewPlayer, Ids
  <2>3. cursor' \in Conn \cup {0}
    BY <1>0, <1>2 DEF IInv, TypeOK, Advance, Conn
  <2>4. TypeOK'
    BY <1>0, <1>2, <2>1, <2>2, <2>3 DEF IInv, TypeOK, Delete
  <2>5. Counted'
    BY <1>0, <1>2 DEF IInv, Counted, TypeOK, Delete, NewSession
  <2>6. ASSUME NEW d \in clients \ {c}
        PROVE  /\ recPlayer'[d] = recPlayer[d] /\ recPlayer[d] \in 1 .. accepted
               /\ sess'[d] = sess[d] /\ plr'[recPlayer[d]] = plr[recPlayer[d]]
               /\ Sess(d)' = Sess(d) /\ Plr(d)' = Plr(d)
    <3>1. d \in Conn /\ Sess(d) = d /\ recPlayer[d] \in Conn /\ recPlayer[d] # recPlayer[c]
      BY <1>0, <2>6 DEF IInv, TypeOK, Pairing, Conn, Sess
    <3>2. recPlayer'[d] = recPlayer[d] /\ sess'[d] = sess[d] /\ plr'[recPlayer[d]] = plr[recPlayer[d]]
      BY <1>0, <1>2, <3>1 DEF IInv, TypeOK, Delete
    <3> QED
      BY <3>1, <3>2 DEF IInv, KnownPlayers, Sess, Plr
  <2>7. clients' = clients \ {c}
    BY <1>2 DEF Delete
  <2>8. Pairing' /\ KnownPlayers'
    BY <1>2, <2>6, <2>7 DEF IInv, Pairing, KnownPlayers, Delete
  <2>9. AuthNoRoom'
    BY <2>6, <2>7 DEF IInv, AuthNoRoom
  <2>10. Steps
    <3>1. \A p \in LivePlayers' : plr'[p] = plr[p]
      BY <2>6, <2>7 DEF LivePlayers
    <3> QED
      BY <2>6, <2>7, <3>1 DEF Steps, StaysKicked, TakenOver, KeepsId
  <2> QED
    BY <2>4, <2>5, <2>8, <2>9, <2>10 DEF IInv
<1>3. ASSUME NEW r \in roomMap, EraseEntry(r, recPlayer[c])
      PROVE  room' \in [Rooms -> Room] /\ wrongEntry' \in BOOLEAN
  BY <1>3, EraseType DEF IInv, TypeOK
<1>4. Catches(AtWork) => caught' \subseteq Rooms
  BY DEF Catches, AtWork, IInv, TypeOK
<1> QED
  BY <1>1, <1>2, <1>3, <1>4 DEF RemoveClient, AfterSends, IInv, TypeOK

-----------------------------------------------------------------------------

\* The values of errno that the loop distinguishes
ErrorCodes == {"none", "wouldblock", "reset", "abort", "other"}

\* The clients are connections.
LEMMA ClientsAccepted == TypeOK => clients \subseteq Conn
<1> SUFFICES ASSUME TypeOK PROVE clients \subseteq Conn
    OBVIOUS
<1>1. accepted \in 0 .. MaxConn /\ clients \subseteq 1 .. accepted
  BY DEF TypeOK
<1> QED
  BY <1>1, BoundsAssumption DEF Conn

\* Writing one field of one session
LEMMA FieldType ==
    ASSUME NEW ss \in [Conn -> Session], NEW c \in Conn
    PROVE  /\ \A e \in BOOLEAN : [ss EXCEPT ![c].expired = e] \in [Conn -> Session]
           /\ \A e \in {"none", "running", "passed"} :
                 [ss EXCEPT ![c].timeout = e] \in [Conn -> Session]
           /\ \A e \in 0 .. MaxViolations : [ss EXCEPT ![c].violations = e] \in [Conn -> Session]
           /\ \A e \in AllKeys : [ss EXCEPT ![c].key = e] \in [Conn -> Session]
           /\ \A e \in Conn : [ss EXCEPT ![c].player = e] \in [Conn -> Session]
           /\ \A e \in AnyState : [ss EXCEPT ![c].state = e] \in [Conn -> Session]
           /\ \A e \in BOOLEAN : [ss EXCEPT ![c].pinged = e] \in [Conn -> Session]
           /\ \A e \in BOOLEAN : [ss EXCEPT ![c].pingDue = e] \in [Conn -> Session]
BY DEF Session, AnyState

\* The sessions, from the invariant
LEMMA SessType == IInv => sess \in [Conn -> Session]
BY DEF IInv, TypeOK

\* A record leads to its own session and player.
LEMMA SessOfRecord ==
    ASSUME IInv, NEW c \in clients
    PROVE  c \in Conn /\ Sess(c) = c /\ recPlayer[c] \in Conn /\ Plr(c) = recPlayer[c]
<1>1. c \in Conn
  BY ClientsAccepted DEF IInv
<1> QED
  BY <1>1 DEF IInv, TypeOK, Pairing

\* The error UpdateClients reads is one it distinguishes.
LEMMA ErrorCode == ASSUME IInv, NEW c \in clients PROVE RecvError(c) \in ErrorCodes
<1>1. socket[c] \in {"open", "fin", "reset", "abort", "broken"} /\ errno \in ErrorCodes
  BY SessOfRecord DEF IInv, TypeOK, ErrorCodes
<1> QED
  BY <1>1, SessOfRecord DEF RecvError, ErrorCodes

\* The next turn is a client's, or the pass ends.
LEMMA AdvanceType ==
    ASSUME TypeOK, NEW c, Advance(c, clients)
    PROVE  cursor' \in Conn \cup {0}
BY ClientsAccepted DEF Advance

\* As long as nobody's m_player and m_session change, the pairing holds and
\* nothing is taken over.
LEMMA SameOwners ==
    ASSUME IInv, UNCHANGED <<clients, accepted, recPlayer>>,
           \A s \in Conn : sess'[s].player = sess[s].player,
           \A p \in Conn : plr'[p].session = plr[p].session
    PROVE  /\ KnownPlayers' /\ Pairing'
           /\ \A p \in LivePlayers \cap LivePlayers' : TakenOver(p)
<1>1. KnownPlayers'
  BY DEF IInv, KnownPlayers
<1>2. ASSUME NEW c \in clients
      PROVE  Sess(c)' = Sess(c) /\ Plr(c)' = Plr(c)
  BY SessOfRecord DEF Sess, Plr
<1>3. Pairing'
  BY <1>2 DEF IInv, Pairing
<1>4. LivePlayers \subseteq Conn
  BY SessOfRecord DEF LivePlayers
<1>5. \A p \in LivePlayers \cap LivePlayers' : TakenOver(p)
  BY <1>4 DEF TakenOver
<1> QED
  BY <1>1, <1>3, <1>5

\* The invariant and the steps of an action that leaves the owners alone,
\* from what it does to sessions and players
LEMMA OwnersKept ==
    ASSUME IInv, UNCHANGED <<clients, accepted, recPlayer>>, TypeOK', Counted',
           \A s \in Conn : /\ sess'[s].player = sess[s].player
                           /\ sess[s].expired => sess'[s].expired
                           /\ sess'[s].state = "auth" => sess[s].state = "auth",
           \A p \in Conn : /\ plr'[p].session = plr[p].session
                           /\ plr[p].roomId # NoRoom => plr'[p].id = plr[p].id,
           \A c \in clients : /\ sess'[c].state = "auth" /\ plr[recPlayer[c]].roomId = NoRoom
                                 => plr'[recPlayer[c]].roomId = NoRoom
                              /\ cursor = c /\ cursor' # c => ~sess[c].expired
    PROVE  IInv' /\ Steps
<1>1. /\ KnownPlayers' /\ Pairing'
      /\ \A p \in LivePlayers \cap LivePlayers' : TakenOver(p)
  BY SameOwners
<1>2. clients \subseteq Conn /\ LivePlayers \subseteq Conn
  BY SessOfRecord DEF LivePlayers
<1>3. AuthNoRoom'
  BY <1>2 DEF IInv, AuthNoRoom
<1>4. Steps
  BY <1>1, <1>2 DEF Steps, StaysKicked, KeepsId
<1> QED
  BY <1>1, <1>3, <1>4 DEF IInv

\* A handler's return lowers a session's violations and changes nothing else
\* of what the handler made of the sessions.
LEMMA HandledType ==
    ASSUME IInv, NEW c \in clients, NEW ss \in [Conn -> Session], Handled(c, ss),
           \A s \in Conn : ss[s].violations = MaxViolations => ss[s].expired
    PROVE  /\ sess' \in [Conn -> Session] /\ Counted'
           /\ \A s \in Conn : /\ sess'[s].player = ss[s].player
                              /\ sess'[s].state = ss[s].state
                              /\ sess'[s].expired = ss[s].expired
           /\ cursor' \in Conn \cup {0} /\ errno' \in ErrorCodes
<1> USE BoundsAssumption
<1>0. c \in Conn /\ Sess(c) = c
  BY SessOfRecord
<1> DEFINE n == LessViolations(ss[c].violations)
<1>1. n \in 0 .. MaxViolations /\ n < MaxViolations
  BY <1>0 DEF LessViolations, Session
<1>2. sess' = [ss EXCEPT ![c].violations = n]
  BY <1>0 DEF Handled
<1>3. sess' \in [Conn -> Session]
  BY <1>0, <1>1, <1>2 DEF Session
<1>4. Counted'
  BY <1>0, <1>1, <1>2 DEF Counted, Session
<1>5. \A s \in Conn : /\ sess'[s].player = ss[s].player
                      /\ sess'[s].state = ss[s].state
                      /\ sess'[s].expired = ss[s].expired
  BY <1>0, <1>2 DEF Session
<1>6. cursor' \in Conn \cup {0}
  BY AdvanceType DEF Handled, IInv
<1>7. errno' \in ErrorCodes
  BY DEF Handled, AfterSends, IInv, TypeOK, ErrorCodes
<1> QED
  BY <1>3, <1>4, <1>5, <1>6, <1>7

-----------------------------------------------------------------------------
(* Each action preserves the invariant and satisfies Steps. *)

\* A pass without a new connection
LEMMA AcceptNothingInv == IInv /\ AcceptNothing => IInv' /\ Steps
<1> SUFFICES ASSUME IInv, AcceptNothing PROVE IInv' /\ Steps
    OBVIOUS
<1>1. cursor' \in Conn \cup {0}
  BY AdvanceType DEF AcceptNothing, IInv
<1>2. TypeOK' /\ Counted'
  BY <1>1 DEF IInv, TypeOK, Counted, AcceptNothing
<1>3. \A c \in clients : cursor # c
  BY DEF IInv, TypeOK, AcceptNothing
<1> QED
  BY <1>2, <1>3, OwnersKept DEF AcceptNothing

\* A turn that changes only its session's timeout or expiry mark
LEMMA TurnInv ==
    ASSUME IInv, NEW c \in clients, cursor = c, ~sess[c].expired,
           Advance(c, clients), errno' \in ErrorCodes,
           UNCHANGED Untouched,
           \/ sess' = sess
           \/ sess' = [sess EXCEPT ![Sess(c)].expired = TRUE]
           \/ sess' = [sess EXCEPT ![Sess(c)].timeout = "running"]
    PROVE  IInv' /\ Steps
<1>0. c \in Conn /\ Sess(c) = c
  BY SessOfRecord
<1>1. sess \in [Conn -> Session]
  BY SessType
<1>2. sess' \in [Conn -> Session]
  <2>1. [sess EXCEPT ![c].expired = TRUE] \in [Conn -> Session]
    BY <1>0, <1>1, FieldType
  <2>2. [sess EXCEPT ![c].timeout = "running"] \in [Conn -> Session]
    BY <1>0, <1>1, FieldType
  <2>3. \/ sess' = sess
        \/ sess' = [sess EXCEPT ![c].expired = TRUE]
        \/ sess' = [sess EXCEPT ![c].timeout = "running"]
    BY <1>0
  <2> QED
    BY <1>1, <2>1, <2>2, <2>3
<1>3. \A s \in Conn : /\ sess'[s].player = sess[s].player
                      /\ sess'[s].violations = sess[s].violations
                      /\ sess'[s].state = sess[s].state
                      /\ sess[s].expired => sess'[s].expired
  BY <1>0, <1>1 DEF Session
<1>4. Counted'
  BY <1>3 DEF IInv, Counted
<1>5. cursor' \in Conn \cup {0}
  BY AdvanceType DEF IInv
<1>6. TypeOK'
  BY <1>2, <1>5 DEF IInv, TypeOK, Untouched, ErrorCodes
<1> QED
  BY <1>3, <1>4, <1>6, OwnersKept DEF Untouched

\* SkipTimedOut, KickTimedOut, NothingRead and StartTimeout
LEMMA IdleTurnsInv ==
    ASSUME IInv, NEW c \in Conn,
           SkipTimedOut(c) \/ KickTimedOut(c) \/ NothingRead(c) \/ StartTimeout(c)
    PROVE  IInv' /\ Steps
<1>1. c \in clients /\ cursor = c /\ ~sess[Sess(c)].expired
  BY DEF SkipTimedOut, KickTimedOut, NothingRead, StartTimeout, Reads, Turn
<1>2. Sess(c) = c
  BY <1>1, SessOfRecord
<1>3. errno' \in ErrorCodes
  BY <1>1, ErrorCode DEF SkipTimedOut, KickTimedOut, NothingRead, StartTimeout, AfterSends,
     IInv, TypeOK, ErrorCodes
<1> QED
  BY <1>1, <1>2, <1>3, TurnInv DEF SkipTimedOut, KickTimedOut, NothingRead, StartTimeout

\* The three ways in which UpdateClients removes a client
LEMMA RemovalsInv ==
    ASSUME IInv, NEW c \in Conn, RemoveExpired(c) \/ RemoveBroken(c) \/ RemoveMalformed(c)
    PROVE  IInv' /\ Steps
<1>1. c \in clients /\ cursor = c
  BY DEF RemoveExpired, RemoveBroken, RemoveMalformed, Reads, Turn
<1>2. PICK e \in ErrorCodes : RemoveClient(c, e)
  BY <1>1, ErrorCode DEF RemoveExpired, RemoveBroken, RemoveMalformed, IInv, TypeOK, ErrorCodes
<1> QED
  BY <1>1, <1>2, RemoveClientInv DEF ErrorCodes

\* The session whose packet is handled
LEMMA PacketClient ==
    ASSUME IInv, NEW c, NEW states, Packet(c, states)
    PROVE  /\ c \in clients /\ c \in Conn /\ Sess(c) = c
           /\ Plr(c) = recPlayer[c] /\ Plr(c) \in Conn
           /\ cursor = c /\ ~sess[c].expired /\ sess[c].state \in states
BY SessOfRecord DEF Packet, Reads, Turn

\* Session::IncreaseViolationCounter: the last violation is the one that kicks.
LEMMA ViolationInv == ASSUME IInv, NEW c \in Conn, Violation(c) PROVE IInv' /\ Steps
<1> USE BoundsAssumption
<1>0. c \in clients /\ Sess(c) = c /\ cursor = c /\ ~sess[c].expired
  BY PacketClient DEF Violation
<1> DEFINE n == sess[c].violations + 1
           e == sess[c].expired \/ n >= MaxViolations
<1>1. n \in 0 .. MaxViolations
  BY <1>0 DEF IInv, TypeOK, Counted, Session
<1>2. sess' = [sess EXCEPT ![c].violations = n, ![c].expired = e]
  BY <1>0 DEF Violation
<1>3. sess' \in [Conn -> Session]
  <2>1. e \in BOOLEAN
    BY <1>0, SessType DEF Session
  <2> DEFINE ss == [sess EXCEPT ![c].violations = n]
  <2> HIDE DEF e, n
  <2>2. ss \in [Conn -> Session]
    BY <1>0, <1>1, SessType, FieldType
  <2>3. [ss EXCEPT ![c].expired = e] \in [Conn -> Session]
    BY <1>0, <2>1, <2>2, FieldType
  <2> QED
    BY <1>2, <2>3
<1>4. Counted'
  BY <1>1, <1>2 DEF IInv, TypeOK, Counted, Session
<1>5. \A s \in Conn : /\ sess'[s].player = sess[s].player
                      /\ sess[s].expired => sess'[s].expired
                      /\ sess'[s].state = sess[s].state
  BY <1>0, <1>2 DEF IInv, TypeOK, Session
<1>6. cursor' \in Conn \cup {0}
  BY AdvanceType DEF Violation, IInv
<1>7. TypeOK'
  BY <1>3, <1>6 DEF IInv, TypeOK, Violation, Untouched
<1> QED
  BY <1>0, <1>4, <1>5, <1>7, OwnersKept DEF Violation, Untouched

\* A handler that leaves the owners alone, from what it does
LEMMA HandlerInv ==
    ASSUME IInv, NEW c \in clients, cursor = c, ~sess[c].expired,
           NEW ss \in [Conn -> Session], Handled(c, ss),
           \A s \in Conn : /\ ss[s].player = sess[s].player
                           /\ ss[s].violations = sess[s].violations
                           /\ ss[s].state = "auth" => sess[s].state = "auth"
                           /\ sess[s].expired => ss[s].expired,
           UNCHANGED recPlayer, plr' \in [Conn -> Player],
           \A p \in Conn : /\ plr'[p].session = plr[p].session
                           /\ plr[p].roomId # NoRoom => plr'[p].id = plr[p].id,
           \A d \in clients : ss[d].state = "auth" /\ plr[recPlayer[d]].roomId = NoRoom
                              => plr'[recPlayer[d]].roomId = NoRoom,
           roomMap' \subseteq Rooms, lastRoomId' \in Rooms, room' \in [Rooms -> Room],
           users' \subseteq Accounts, wrongEntry' \in BOOLEAN, caught' \subseteq Rooms
    PROVE  IInv' /\ Steps
<1>1. \A s \in Conn : ss[s].violations = MaxViolations => ss[s].expired
  BY DEF IInv, Counted
<1>2. /\ sess' \in [Conn -> Session] /\ Counted'
      /\ \A s \in Conn : /\ sess'[s].player = ss[s].player
                         /\ sess'[s].state = ss[s].state
                         /\ sess'[s].expired = ss[s].expired
      /\ cursor' \in Conn \cup {0} /\ errno' \in ErrorCodes
  BY <1>1, HandledType
<1>3. UNCHANGED <<clients, accepted, socket, fault>>
  BY DEF Handled
<1>4. TypeOK'
  BY <1>2, <1>3 DEF IInv, TypeOK, ErrorCodes
<1>5. clients \subseteq Conn
  BY SessOfRecord
<1> QED
  BY <1>2, <1>3, <1>4, <1>5, OwnersKept

\* Handlers with no effect, HandlePong, a refused login and a restore that
\* finds nothing
LEMMA SimpleHandlersInv ==
    ASSUME IInv, NEW c \in Conn,
           \/ HandleWithoutEffect(c) \/ HandlePong(c) \/ HandleAuthRefused(c)
           \/ \E k \in AllKeys, i \in Ids : HandleRestoreNotFound(c, k, i)
    PROVE  IInv' /\ Steps
<1>0. c \in clients /\ Sess(c) = c /\ UNCHANGED Untouched /\ cursor = c /\ ~sess[c].expired
  BY PacketClient DEF HandleWithoutEffect, HandlePong, HandleAuthRefused, HandleRestoreNotFound
<1>1. PICK ss :
         /\ Handled(c, ss)
         /\ \/ ss = sess
            \/ ss = [sess EXCEPT ![c].pinged = FALSE]
            \/ \E k \in Keys : ss = [sess EXCEPT ![c].key = k]
  BY <1>0 DEF HandleWithoutEffect, HandlePong, HandleAuthRefused, HandleRestoreNotFound
<1>2. ss \in [Conn -> Session]
  <2>1. sess \in [Conn -> Session]
    BY SessType
  <2>2. [sess EXCEPT ![c].pinged = FALSE] \in [Conn -> Session]
    BY <2>1, FieldType
  <2>3. \A k \in Keys : [sess EXCEPT ![c].key = k] \in [Conn -> Session]
    BY <2>1, FieldType DEF AllKeys
  <2> QED
    BY <1>1, <2>1, <2>2, <2>3
<1>3. \A s \in Conn : /\ ss[s].player = sess[s].player
                      /\ ss[s].violations = sess[s].violations
                      /\ ss[s].state = sess[s].state
                      /\ sess[s].expired => ss[s].expired
  BY <1>1, SessType DEF Session
<1>4. /\ UNCHANGED <<recPlayer, plr>> /\ plr' \in [Conn -> Player]
      /\ roomMap' \subseteq Rooms /\ lastRoomId' \in Rooms /\ room' \in [Rooms -> Room]
      /\ users' \subseteq Accounts /\ wrongEntry' \in BOOLEAN /\ caught' \subseteq Rooms
  BY <1>0 DEF Untouched, IInv, TypeOK
<1> QED
  BY <1>0, <1>1, <1>2, <1>3, <1>4, HandlerInv

\* HandleLoginRequest and HandleRegisterRequest: an id is written, or none if
\* the last lookup fails, and sessions change state, key and expiry
LEMMA AuthInv ==
    ASSUME IInv, NEW c \in Conn, NEW i \in Accounts,
           HandleLoginRequest(c, i) \/ HandleRegisterRequest(c, i) \/ HandleRegisterTaken(c, i)
    PROVE  IInv' /\ Steps
<1>0. /\ c \in clients /\ Sess(c) = c /\ Plr(c) \in Conn /\ Plr(c) = recPlayer[c]
      /\ cursor = c /\ ~sess[c].expired /\ sess[c].state = "auth"
  <2>1. Packet(c, {"auth"})
    BY DEF HandleLoginRequest, HandleRegisterRequest, HandleRegisterTaken
  <2>2. sess[c].state \in {"auth"}
    BY <2>1, PacketClient
  <2> QED
    BY <2>1, <2>2, PacketClient
<1>1. /\ plr' = [plr EXCEPT ![Plr(c)].id = i] \/ plr' = plr
      /\ plr \in [Conn -> Player] /\ i \in Ids
  BY DEF HandleLoginRequest, HandleRegisterRequest, HandleRegisterTaken, Registered, IInv, TypeOK, Ids
<1>2. /\ plr' \in [Conn -> Player]
      /\ \A p \in Conn : plr'[p].session = plr[p].session /\ plr'[p].roomId = plr[p].roomId
      /\ \A p \in Conn \ {Plr(c)} : plr'[p].id = plr[p].id
  <2>1. CASE plr' = plr
    BY <1>1, <2>1
  <2>2. CASE plr' = [plr EXCEPT ![Plr(c)].id = i]
    BY <1>0, <1>1, <2>2 DEF Player
  <2> QED
    BY <1>1, <2>1, <2>2
<1>5. plr[Plr(c)].roomId = NoRoom
  BY <1>0 DEF IInv, AuthNoRoom
<1>6. /\ \A p \in Conn : /\ plr'[p].session = plr[p].session
                         /\ plr[p].roomId # NoRoom => plr'[p].id = plr[p].id
      /\ \A d \in clients : recPlayer[d] \in Conn /\ plr'[recPlayer[d]].roomId = plr[recPlayer[d]].roomId
  BY <1>2, <1>5, SessOfRecord
<1>3. CASE HandleLoginRequest(c, i)
  <2> DEFINE existing == FindSessionByPlayerId(i)
             offered == \E e \in existing : Restorable(e)
             kicked == IF offered THEN {c} ELSE existing
             ss(k) == [t \in Conn |->
                         [sess[t] EXCEPT !.key = IF t = c THEN k ELSE @,
                                         !.state = IF t = c /\ ~offered THEN "lobby" ELSE @,
                                         !.expired = @ \/ t \in kicked]]
  <2>1. PICK k \in Keys : Handled(c, ss(k))
    BY <1>0, <1>3 DEF HandleLoginRequest
  <2> HIDE DEF kicked, offered
  <2>2. ss(k) \in [Conn -> Session]
    <3> SUFFICES ASSUME NEW t \in Conn PROVE ss(k)[t] \in Session
      OBVIOUS
    <3>1. sess[t] \in Session
      BY SessType
    <3>2. (sess[t].expired \/ t \in kicked) \in BOOLEAN
      BY <3>1 DEF Session
    <3>3. (IF t = c THEN k ELSE sess[t].key) \in AllKeys
      BY <3>1 DEF Session, AllKeys
    <3>4. (IF t = c /\ ~offered THEN "lobby" ELSE sess[t].state) \in {"auth", "lobby", "game"}
      BY <3>1 DEF Session
    <3> QED
      BY <3>1, <3>2, <3>3, <3>4 DEF Session
  <2>3. \A s \in Conn : /\ ss(k)[s].player = sess[s].player
                        /\ ss(k)[s].violations = sess[s].violations
                        /\ ss(k)[s].state = "auth" => sess[s].state = "auth"
                        /\ sess[s].expired => ss(k)[s].expired
    <3> SUFFICES ASSUME NEW s \in Conn
                 PROVE  /\ ss(k)[s].player = sess[s].player
                        /\ ss(k)[s].violations = sess[s].violations
                        /\ ss(k)[s].state = "auth" => sess[s].state = "auth"
                        /\ sess[s].expired => ss(k)[s].expired
      OBVIOUS
    <3>1. sess[s] \in Session
      BY SessType
    <3>2. ss(k)[s].player = sess[s].player /\ ss(k)[s].violations = sess[s].violations
      BY <3>1 DEF Session
    <3>3. ss(k)[s].expired = (sess[s].expired \/ s \in kicked)
      BY <3>1 DEF Session
    <3>4. ss(k)[s].state = IF s = c /\ ~offered THEN "lobby" ELSE sess[s].state
      BY <3>1 DEF Session
    <3>5. ss(k)[s].state = "auth" => sess[s].state = "auth"
      BY <3>4
    <3>6. sess[s].expired => ss(k)[s].expired
      BY <3>3
    <3> QED
      BY <3>2, <3>5, <3>6
  <2> HIDE DEF ss
  <2>4. UNCHANGED <<recPlayer, roomMap, lastRoomId, room, caught, users, wrongEntry>>
    BY <1>3 DEF HandleLoginRequest
  <2>5. /\ roomMap' \subseteq Rooms /\ lastRoomId' \in Rooms /\ room' \in [Rooms -> Room]
        /\ users' \subseteq Accounts /\ wrongEntry' \in BOOLEAN /\ caught' \subseteq Rooms
    BY <2>4 DEF IInv, TypeOK
  <2> QED
    BY <1>0, <1>2, <1>6, <2>1, <2>2, <2>3, <2>4, <2>5, HandlerInv
<1>4. CASE HandleRegisterRequest(c, i) \/ HandleRegisterTaken(c, i)
  <2> DEFINE ss(q, k) == [sess EXCEPT ![c].state = q, ![c].key = k]
  <2>0. sess \in [Conn -> Session] /\ sess[c].state = "auth"
    BY <1>0, SessType
  <2>1. PICK q \in {"auth", "lobby"}, k \in Keys : Handled(c, ss(q, k))
    <3>1. CASE Registered(c, i)
      BY <1>0, <3>1 DEF Registered
    <3>2. ASSUME NEW k \in Keys, Handled(c, [sess EXCEPT ![c].key = k])
          PROVE  \E q \in {"auth", "lobby"}, k2 \in Keys : Handled(c, ss(q, k2))
      <4>1. [sess EXCEPT ![c].key = k] = ss("auth", k)
        BY <1>0, <2>0 DEF Session
      <4> HIDE DEF ss
      <4> QED
        BY <3>2, <4>1
    <3> HIDE DEF ss
    <3> QED
      BY <1>0, <1>4, <3>1, <3>2 DEF HandleRegisterRequest, HandleRegisterTaken
  <2>2. ss(q, k) \in [Conn -> Session]
    <3> DEFINE st == [sess EXCEPT ![c].state = q]
    <3>1. st \in [Conn -> Session]
      BY <1>0, <2>0, <2>1, FieldType DEF AnyState
    <3> HIDE DEF st
    <3>2. [st EXCEPT ![c].key = k] \in [Conn -> Session]
      BY <3>1, FieldType DEF AllKeys
    <3> QED
      BY <3>2 DEF st
  <2>3. \A s \in Conn : /\ ss(q, k)[s].player = sess[s].player
                        /\ ss(q, k)[s].violations = sess[s].violations
                        /\ ss(q, k)[s].state = "auth" => sess[s].state = "auth"
                        /\ sess[s].expired => ss(q, k)[s].expired
    BY <1>0, <2>0 DEF Session
  <2> HIDE DEF ss
  <2>4. /\ UNCHANGED <<recPlayer, roomMap, lastRoomId, room, caught, wrongEntry>>
        /\ users' \in {users, users \cup {i}}
    BY <1>4 DEF HandleRegisterRequest, HandleRegisterTaken
  <2>5. /\ roomMap' \subseteq Rooms /\ lastRoomId' \in Rooms /\ room' \in [Rooms -> Room]
        /\ users' \subseteq Accounts /\ wrongEntry' \in BOOLEAN /\ caught' \subseteq Rooms
    BY <2>4 DEF IInv, TypeOK
  <2> QED
    BY <1>0, <1>2, <1>6, <2>1, <2>2, <2>3, <2>4, <2>5, HandlerInv
<1> QED
  BY <1>3, <1>4

\* HandleJoinRoomRequest, HandleCreateRoom and HandlePlayerExit: the session
\* of the player enters or leaves the game
LEMMA RoomHandlersInv ==
    ASSUME IInv, NEW c \in Conn,
           (\E r \in Rooms : HandleJoinRoomRequest(c, r)) \/ HandleCreateRoom(c) \/ HandlePlayerExit(c)
    PROVE  IInv' /\ Steps
<1>0. /\ c \in clients /\ Sess(c) = c /\ Plr(c) \in Conn /\ Plr(c) = recPlayer[c]
      /\ cursor = c /\ ~sess[c].expired
  BY PacketClient DEF HandleJoinRoomRequest, HandleCreateRoom, HandlePlayerExit
<1> DEFINE p == Plr(c)
<1>1. plr[p].session = c
  BY <1>0, SessOfRecord DEF Sess
<1>2. /\ plr \in [Conn -> Player] /\ room \in [Rooms -> Room] /\ roomMap \subseteq Rooms
      /\ sess \in [Conn -> Session]
  BY DEF IInv, TypeOK
<1>3. CASE Die("useAfterFree")
  BY <1>3, DieInv
<1>4. ASSUME NEW q \in {"lobby", "game"}, Handled(c, [sess EXCEPT ![c].state = q]),
             plr' = plr \/ (\E r \in Rooms \cup {NoRoom} : SetRoomId(p, r)),
             UNCHANGED <<recPlayer, users>>,
             roomMap' \subseteq Rooms, lastRoomId' \in Rooms, room' \in [Rooms -> Room],
             wrongEntry' \in BOOLEAN, caught' \subseteq Rooms
      PROVE  IInv' /\ Steps
  <2> DEFINE ss == [sess EXCEPT ![c].state = q]
  <2>1. ss \in [Conn -> Session]
    BY <1>2, <1>4, FieldType DEF AnyState
  <2>2. \A s \in Conn : /\ ss[s].player = sess[s].player
                        /\ ss[s].violations = sess[s].violations
                        /\ ss[s].state = "auth" => sess[s].state = "auth" /\ s # c
                        /\ sess[s].expired => ss[s].expired
    BY <1>2 DEF Session
  <2>3. /\ plr' \in [Conn -> Player]
        /\ \A d \in Conn : plr'[d].session = plr[d].session /\ plr'[d].id = plr[d].id
        /\ \A d \in Conn \ {p} : plr'[d] = plr[d]
    <3>1. p \in Conn /\ plr \in [Conn -> Player]
      BY <1>0, <1>2
    <3>2. CASE plr' = plr
      BY <3>1, <3>2
    <3>3. ASSUME NEW r \in Rooms \cup {NoRoom}, SetRoomId(p, r)
          PROVE  /\ plr' \in [Conn -> Player]
                 /\ \A d \in Conn : plr'[d].session = plr[d].session /\ plr'[d].id = plr[d].id
                 /\ \A d \in Conn \ {p} : plr'[d] = plr[d]
      <4>1. plr' = [plr EXCEPT ![p].roomId = r]
        BY <3>3 DEF SetRoomId
      <4> HIDE DEF p
      <4> QED
        BY <3>1, <4>1 DEF Player
    <3> QED
      BY <1>4, <3>2, <3>3
  <2>6. \A d \in clients : ss[d].state = "auth" /\ plr[recPlayer[d]].roomId = NoRoom
                            => plr'[recPlayer[d]].roomId = NoRoom
    <3> SUFFICES ASSUME NEW d \in clients, ss[d].state = "auth"
                 PROVE  plr'[recPlayer[d]] = plr[recPlayer[d]]
      OBVIOUS
    <3>1. d \in Conn /\ d # c /\ recPlayer[d] \in Conn /\ Sess(d) = d
      BY <2>2, SessOfRecord
    <3>2. recPlayer[d] # p
      BY <1>0, <3>1 DEF Sess
    <3> QED
      BY <2>3, <3>1, <3>2
  <2>4. users' \subseteq Accounts
    BY <1>4 DEF IInv, TypeOK
  <2> HIDE DEF ss
  <2>5. Handled(c, ss)
    BY <1>4 DEF ss
  <2> QED
    BY <1>0, <1>4, <2>1, <2>2, <2>3, <2>4, <2>5, <2>6, HandlerInv
<1>5. ASSUME NEW r \in Rooms, HandleJoinRoomRequest(c, r), ~Die("useAfterFree") PROVE IInv' /\ Steps
  <2>1. /\ room' = [room EXCEPT ![r].members = Append(@, p)]
        /\ SetRoomId(p, r)
        /\ Handled(c, [sess EXCEPT ![c].state = "game"])
        /\ UNCHANGED <<recPlayer, roomMap, lastRoomId, caught, users, wrongEntry>>
    BY <1>0, <1>5 DEF HandleJoinRoomRequest
  <2>2. Append(room[r].members, p) \in Seq(Conn)
    BY <1>0, <1>2, <1>5 DEF Room
  <2>3. room' \in [Rooms -> Room]
    BY <1>2, <2>1, <2>2 DEF Room
  <2>4. /\ roomMap' \subseteq Rooms /\ lastRoomId' \in Rooms
        /\ wrongEntry' \in BOOLEAN /\ caught' \subseteq Rooms
    BY <2>1 DEF IInv, TypeOK
  <2> QED
    BY <1>4, <2>1, <2>3, <2>4 DEF AnyState
<1>6. CASE HandleCreateRoom(c)
  <2> DEFINE r == lastRoomId + 1
  <2>1. /\ r \in Rooms /\ lastRoomId' = r /\ roomMap' = roomMap \cup {r}
        /\ room' = [room EXCEPT ![r] = [thread |-> "running", members |-> <<p>>, empty |-> "no"]]
        /\ SetRoomId(p, r)
        /\ Handled(c, [sess EXCEPT ![c].state = "game"])
        /\ UNCHANGED <<recPlayer, caught, users, wrongEntry>>
    BY <1>0, <1>6 DEF HandleCreateRoom
  <2>2. <<p>> \in Seq(Conn)
    BY <1>0
  <2>3. room' \in [Rooms -> Room]
    BY <1>2, <2>1, <2>2 DEF Room
  <2>4. /\ roomMap' \subseteq Rooms /\ lastRoomId' \in Rooms
        /\ wrongEntry' \in BOOLEAN /\ caught' \subseteq Rooms
    BY <1>2, <2>1 DEF IInv, TypeOK
  <2> QED
    BY <1>4, <2>1, <2>3, <2>4 DEF AnyState
<1>7. CASE HandlePlayerExit(c) /\ ~Die("useAfterFree")
  <2> DEFINE r == plr[p].roomId
  <2>1. /\ r \in roomMap /\ EraseEntry(r, p) /\ LeaveRoom(r, p)
        /\ Catches({r}) /\ Handled(c, [sess EXCEPT ![c].state = "lobby"])
        /\ UNCHANGED <<recPlayer, roomMap, lastRoomId, users>>
    BY <1>0, <1>1, <1>7 DEF HandlePlayerExit, HasRoom
  <2>2. room' \in [Rooms -> Room] /\ wrongEntry' \in BOOLEAN
    BY <1>2, <2>1, EraseType DEF IInv
  <2>3. plr' = plr \/ (\E n \in Rooms \cup {NoRoom} : SetRoomId(p, n))
    BY <2>1 DEF LeaveRoom
  <2>4. roomMap' \subseteq Rooms /\ lastRoomId' \in Rooms /\ caught' \subseteq Rooms
    BY <2>1 DEF Catches, IInv, TypeOK
  <2> QED
    BY <1>4, <2>1, <2>2, <2>3, <2>4 DEF AnyState
<1> QED
  BY <1>3, <1>5, <1>6, <1>7

-----------------------------------------------------------------------------
(* The exchange of a session restore. *)

\* FindSessionBySessionKey and FindSessionByPlayerId find sessions of records
LEMMA TargetClient ==
    ASSUME IInv, NEW k, NEW i, NEW s \in RestoreTarget(k, i)
    PROVE  s \in clients
<1>1. \E c \in clients : s = Sess(c)
  BY DEF RestoreTarget, FindSessionBySessionKey, FindSessionByPlayerId, FirstOf
<1> QED
  BY <1>1, SessOfRecord

\* Record c's session takes over the player of record e's session, which is
\* kicked together with the player of c; ss are the sessions after that.
Exchange(c, e, ss) ==
    LET p == recPlayer[c]
        q == recPlayer[e]
    IN  /\ plr[p].session = c /\ plr[q].session = e
        /\ sess[c].player = p /\ sess[e].player = q
        /\ OverridePlayerClient(p, q) /\ Handled(c, ss)
        /\ plr' = [plr EXCEPT ![q].session = c, ![p].session = e]
        /\ \A d \in Conn \ {c, e} : ss[d] = sess[d]
        /\ ss[e].player = p /\ (c # e => ss[c].player = q /\ ss[c].expired = sess[c].expired)
        /\ \A d \in Conn : /\ ss[d].violations = sess[d].violations
                           /\ sess[d].expired => ss[d].expired
        /\ ss[e].expired /\ ss[c].state = RestoredState(q)

\* HandleRestoreSession is such an exchange, also of a session with itself.
LEMMA RestoreFacts ==
    ASSUME IInv, NEW c \in Conn, NEW k \in AllKeys, NEW i \in Ids, HandleRestoreSession(c, k, i)
    PROVE  \E e \in clients, ss \in [Conn -> Session] : Exchange(c, e, ss)
<1>0. /\ c \in clients /\ Sess(c) = c /\ recPlayer[c] \in Conn /\ Plr(c) = recPlayer[c]
      /\ cursor = c /\ ~sess[c].expired
  BY PacketClient, SessOfRecord DEF HandleRestoreSession
<1>1. PICK e \in RestoreTarget(k, i) :
         LET oldpl == sess[e].player
             oldsess == plr[oldpl].session
         IN  /\ OverridePlayerClient(Plr(c), oldpl)
             /\ plr' = [plr EXCEPT ![oldpl].session = c, ![Plr(c)].session = oldsess]
             /\ Handled(c, [sess EXCEPT ![c].state = RestoredState(oldpl),
                                        ![c].player = oldpl,
                                        ![c].key = sess[oldsess].key,
                                        ![oldsess].player = Plr(c),
                                        ![oldsess].expired = TRUE])
  BY <1>0 DEF HandleRestoreSession
<1>2. e \in clients /\ e \in Conn /\ Sess(e) = e /\ recPlayer[e] \in Conn /\ Plr(e) = recPlayer[e]
  BY TargetClient, SessOfRecord
<1> DEFINE p == recPlayer[c]
           q == recPlayer[e]
<1>3. /\ plr[p].session = c /\ plr[q].session = e /\ sess[c].player = p /\ sess[e].player = q
  BY <1>0, <1>2 DEF Sess, Plr
<1> DEFINE ss == [sess EXCEPT ![c].state = RestoredState(q), ![c].player = q,
                              ![c].key = sess[e].key,
                              ![e].player = p, ![e].expired = TRUE]
<1>4. /\ OverridePlayerClient(p, q) /\ Handled(c, ss)
      /\ plr' = [plr EXCEPT ![q].session = c, ![p].session = e]
  BY <1>0, <1>1, <1>3
<1>5. /\ plr \in [Conn -> Player] /\ sess \in [Conn -> Session] /\ recPlayer \in [Conn -> Conn]
      /\ clients \subseteq Conn
  BY ClientsAccepted DEF IInv, TypeOK
<1>6. ss \in [Conn -> Session]
  <2> DEFINE s1 == [sess EXCEPT ![c].state = RestoredState(q)]
             s2 == [s1 EXCEPT ![c].player = q]
             s3 == [s2 EXCEPT ![c].key = sess[e].key]
             s4 == [s3 EXCEPT ![e].player = p]
             s5 == [s4 EXCEPT ![e].expired = TRUE]
  <2>1. s1 \in [Conn -> Session]
    BY <1>5, FieldType DEF RestoredState, AnyState
  <2> HIDE DEF s1
  <2>2. s2 \in [Conn -> Session]
    BY <1>2, <2>1, FieldType
  <2> HIDE DEF s2
  <2>3. sess[e].key \in AllKeys
    BY <1>2, <1>5 DEF Session
  <2>4. s3 \in [Conn -> Session]
    BY <2>2, <2>3, FieldType
  <2> HIDE DEF s3
  <2>5. s4 \in [Conn -> Session]
    BY <1>0, <1>2, <2>4, FieldType
  <2> HIDE DEF s4
  <2>6. s5 \in [Conn -> Session]
    BY <1>2, <2>5, FieldType
  <2> QED
    BY <2>6 DEF s1, s2, s3, s4
<1>7. /\ \A d \in Conn \ {c, e} : ss[d] = sess[d]
      /\ ss[e].player = p /\ (c # e => ss[c].player = q /\ ss[c].expired = sess[c].expired)
      /\ \A d \in Conn : /\ ss[d].violations = sess[d].violations
                         /\ sess[d].expired => ss[d].expired
      /\ ss[e].expired /\ ss[c].state = RestoredState(q)
  <2>1. c \in Conn /\ e \in Conn /\ sess[c] \in Session /\ sess[e] \in Session
    BY <1>0, <1>2, <1>5
  <2>2. \A d \in Conn \ {c, e} : ss[d] = sess[d]
    BY <1>5
  <2>3. /\ ss[e].player = p /\ ss[e].violations = sess[e].violations /\ ss[e].expired
        /\ ss[c].state = RestoredState(q)
    BY <1>5, <2>1 DEF Session
  <2>4. CASE c # e
    <3>1. ss[c].player = q /\ ss[c].violations = sess[c].violations
          /\ ss[c].expired = sess[c].expired
      BY <1>5, <2>1, <2>4 DEF Session
    <3> QED
      BY <2>2, <2>3, <2>4, <3>1
  <2>5. CASE c = e
    BY <2>2, <2>3, <2>5
  <2> QED
    BY <2>4, <2>5
<1> HIDE DEF ss
<1>8. Exchange(c, e, ss)
  BY <1>3, <1>4, <1>7 DEF Exchange
<1> QED
  BY <1>2, <1>6, <1>8

\* HandleRestoreSession: two records, two players and two sessions exchange
\* their pointers, also when the two are one.
LEMMA RestoreInv ==
    ASSUME IInv, NEW c \in Conn, NEW k \in AllKeys, NEW i \in Ids, HandleRestoreSession(c, k, i)
    PROVE  IInv' /\ Steps
<1> USE BoundsAssumption
<1>0. /\ c \in clients /\ Sess(c) = c /\ recPlayer[c] \in Conn /\ Plr(c) = recPlayer[c]
      /\ cursor = c /\ ~sess[c].expired
  BY PacketClient, SessOfRecord DEF HandleRestoreSession
<1>1. PICK e \in clients, ss \in [Conn -> Session] : Exchange(c, e, ss)
  BY RestoreFacts
<1>2. e \in clients /\ e \in Conn /\ Sess(e) = e /\ recPlayer[e] \in Conn /\ Plr(e) = recPlayer[e]
  BY SessOfRecord
<1> DEFINE p == recPlayer[c]
           q == recPlayer[e]
<1>3. /\ plr[p].session = c /\ plr[q].session = e /\ sess[c].player = p /\ sess[e].player = q
  BY <1>1 DEF Exchange
<1>4. /\ OverridePlayerClient(p, q) /\ Handled(c, ss)
      /\ plr' = [plr EXCEPT ![q].session = c, ![p].session = e]
  BY <1>1 DEF Exchange
<1>5. /\ plr \in [Conn -> Player] /\ sess \in [Conn -> Session] /\ recPlayer \in [Conn -> Conn]
      /\ clients \subseteq Conn
  BY ClientsAccepted DEF IInv, TypeOK
<1>6. ss \in [Conn -> Session]
  BY <1>1
<1>7. /\ \A d \in Conn \ {c, e} : ss[d] = sess[d]
      /\ ss[e].player = p /\ (c # e => ss[c].player = q /\ ss[c].expired = sess[c].expired)
      /\ \A d \in Conn : /\ ss[d].violations = sess[d].violations
                         /\ sess[d].expired => ss[d].expired
      /\ ss[e].expired /\ ss[c].state = RestoredState(q)
  BY <1>1 DEF Exchange
<1>8. /\ sess' \in [Conn -> Session] /\ Counted'
      /\ \A d \in Conn : /\ sess'[d].player = ss[d].player
                         /\ sess'[d].state = ss[d].state
                         /\ sess'[d].expired = ss[d].expired
      /\ cursor' \in Conn \cup {0} /\ errno' \in ErrorCodes
  <2>1. \A d \in Conn : ss[d].violations = MaxViolations => ss[d].expired
    BY <1>7 DEF IInv, Counted
  <2> QED
    BY <1>0, <1>4, <1>6, <2>1, HandledType
<1>9. plr' \in [Conn -> Player]
  BY <1>0, <1>2, <1>4, <1>5 DEF Player
<1>10. /\ plr'[p].session = e /\ (p # q => plr'[q].session = c)
       /\ \A d \in Conn \ {p, q} : plr'[d] = plr[d]
       /\ \A d \in Conn : plr'[d].id = plr[d].id /\ plr'[d].roomId = plr[d].roomId
  BY <1>0, <1>2, <1>4, <1>5 DEF Player
<1>11. /\ recPlayer' \in [Conn -> Conn]
       /\ \A d \in clients : recPlayer'[d] = IF recPlayer[d] = p THEN q
                                             ELSE IF recPlayer[d] = q THEN p ELSE recPlayer[d]
  BY <1>0, <1>2, <1>4, <1>5 DEF OverridePlayerClient
<1>12. UNCHANGED <<clients, accepted, socket, fault>>
  BY <1>4 DEF Handled
<1>13. KnownPlayers'
  BY <1>0, <1>2, <1>11, <1>12 DEF IInv, KnownPlayers
<1>14. Pairing'
  <2> SUFFICES ASSUME NEW d \in clients PROVE (Sess(d) = d /\ Plr(d) = recPlayer[d])'
    BY <1>12 DEF Pairing
  <2>1. d \in Conn /\ plr[recPlayer[d]].session = d /\ sess[d].player = recPlayer[d] /\ recPlayer[d] \in Conn
    BY SessOfRecord DEF Sess, Plr
  <2>2. CASE d = c
    BY <1>0, <1>2, <1>3, <1>7, <1>8, <1>10, <1>11, <2>1, <2>2 DEF Sess, Plr
  <2>3. CASE d = e
    BY <1>0, <1>2, <1>3, <1>7, <1>8, <1>10, <1>11, <2>1, <2>3 DEF Sess, Plr
  <2>4. CASE d # c /\ d # e
    <3>1. recPlayer[d] # p /\ recPlayer[d] # q
      BY <1>3, <2>1, <2>4
    <3> QED
      BY <1>7, <1>8, <1>10, <1>11, <2>1, <2>4, <3>1 DEF Sess, Plr
  <2> QED
    BY <2>2, <2>3, <2>4
<1>15. UNCHANGED <<roomMap, lastRoomId, room, caught, users, wrongEntry>>
  BY DEF HandleRestoreSession
<1>16. TypeOK'
  BY <1>8, <1>9, <1>11, <1>12, <1>15 DEF IInv, TypeOK, ErrorCodes
<1>17. AuthNoRoom'
  <2> SUFFICES ASSUME NEW d \in clients, ss[d].state = "auth", ~ss[d].expired
               PROVE  plr'[recPlayer'[d]].roomId = NoRoom
    BY <1>5, <1>8, <1>12 DEF AuthNoRoom
  <2>1. d # c /\ d # e
    BY <1>7 DEF RestoredState
  <2>2. d \in Conn /\ recPlayer[d] \in Conn /\ plr[recPlayer[d]].session = d
    BY SessOfRecord DEF Sess
  <2>3. recPlayer'[d] = recPlayer[d]
    BY <1>3, <1>11, <2>1, <2>2
  <2> QED
    BY <1>7, <1>10, <2>1, <2>2, <2>3 DEF IInv, AuthNoRoom
<1>18. \A d \in LivePlayers \cap LivePlayers' : TakenOver(d)
  <2> SUFFICES ASSUME NEW d \in LivePlayers PROVE TakenOver(d)
    OBVIOUS
  <2>1. d \in Conn
    BY SessOfRecord DEF LivePlayers
  <2>2. CASE d = p
    BY <1>2, <1>3, <1>7, <1>8, <1>10, <2>1, <2>2 DEF TakenOver
  <2>3. CASE d = q /\ d # p
    BY <1>0, <1>2, <1>3, <1>7, <1>8, <1>10, <2>1, <2>3 DEF TakenOver, RestoredState
  <2>4. CASE d # p /\ d # q
    BY <1>10, <2>1, <2>4 DEF TakenOver
  <2> QED
    BY <2>2, <2>3, <2>4
<1>19. Steps
  <2>1. \A d \in clients : StaysKicked(d)
    BY <1>0, <1>5, <1>7, <1>8 DEF StaysKicked
  <2>2. \A d \in LivePlayers \cap LivePlayers' : KeepsId(d)
    BY <1>10, SessOfRecord DEF KeepsId, LivePlayers
  <2> QED
    BY <1>18, <2>1, <2>2 DEF Steps
<1> QED
  BY <1>8, <1>13, <1>14, <1>16, <1>17, <1>19 DEF IInv

-----------------------------------------------------------------------------
(* The rooms' threads and the environment. *)

\* Session::Update changes a session's ping fields and its timeout only.
LEMMA PingsType ==
    ASSUME NEW s \in Session
    PROVE  /\ Pings(s) \in Session
           /\ Pings(s).player = s.player /\ Pings(s).state = s.state
           /\ Pings(s).violations = s.violations /\ Pings(s).expired = s.expired
BY DEF Pings, PingUnanswered, Session

\* Steps of a room's thread and of the environment: nobody's turn passes,
\* and of sessions and players only the fields below change.
LEMMA OutsideTurnInv ==
    ASSUME IInv, UNCHANGED <<clients, accepted, cursor, recPlayer>>, TypeOK',
           \A s \in Conn : /\ sess'[s].player = sess[s].player
                           /\ sess'[s].state = sess[s].state
                           /\ sess'[s].violations = sess[s].violations
                           /\ sess'[s].expired = sess[s].expired,
           \A p \in Conn : /\ plr'[p].session = plr[p].session
                           /\ plr'[p].id = plr[p].id
                           /\ plr'[p].roomId \in {plr[p].roomId, NoRoom}
    PROVE  IInv' /\ Steps
<1>1. Counted'
  BY DEF IInv, Counted
<1>2. \A c \in clients : c \in Conn /\ recPlayer[c] \in Conn
  BY SessOfRecord
<1> QED
  BY <1>1, <1>2, OwnersKept

\* One round of Room::Run
LEMMA RoomRoundInv == ASSUME IInv, NEW r \in Rooms, RoomRound(r) PROVE IInv' /\ Steps
<1> DEFINE present == {plr[room[r].members[n]].session : n \in DOMAIN room[r].members}
<1>1. CASE Die("useAfterFree")
  BY <1>1, DieInv
<1>2. CASE ~Die("useAfterFree")
  <2>1. /\ room' = [room EXCEPT ![r].empty = EmptyAfterRound(r)]
        /\ sess' = [s \in Conn |-> IF s \in present THEN Pings(sess[s]) ELSE sess[s]]
        /\ UNCHANGED <<clients, accepted, cursor, socket, errno, recPlayer, plr, roomMap,
                       lastRoomId, users, fault, wrongEntry>>
        /\ caught' = caught \ {r}
    BY <1>2 DEF RoomRound
  <2> HIDE DEF present
  <2>2. sess' \in [Conn -> Session]
    BY <2>1, SessType, PingsType
  <2>3. EmptyAfterRound(r) \in {"no", "counting", "due"}
    BY DEF EmptyAfterRound, IInv, TypeOK, Room
  <2>4. room' \in [Rooms -> Room]
    BY <2>1, <2>3 DEF IInv, TypeOK, Room
  <2>5. TypeOK'
    BY <2>1, <2>2, <2>4 DEF IInv, TypeOK
  <2>6. \A s \in Conn : /\ sess'[s].player = sess[s].player
                        /\ sess'[s].state = sess[s].state
                        /\ sess'[s].violations = sess[s].violations
                        /\ sess'[s].expired = sess[s].expired
    BY <2>1, SessType, PingsType
  <2> QED
    BY <2>1, <2>5, <2>6, OutsideTurnInv
<1> QED
  BY <1>1, <1>2

\* The end of an empty room
LEMMA EndRoomInv == ASSUME IInv, NEW r \in Rooms, EndRoom(r) PROVE IInv' /\ Steps
<1>1. TypeOK'
  BY DEF EndRoom, IInv, TypeOK, Room
<1> QED
  BY <1>1, OutsideTurnInv DEF EndRoom

\* The room's destructor
LEMMA DeleteRoomInv == ASSUME IInv, NEW r \in Rooms, DeleteRoom(r) PROVE IInv' /\ Steps
<1>1. CASE Die("useAfterFree")
  BY <1>1, DieInv
<1>2. CASE ~Die("useAfterFree")
  <2>1. /\ ReleasePlayers(r)
        /\ room' = [room EXCEPT ![r].thread = "deleted", ![r].members = <<>>]
        /\ UNCHANGED <<clients, accepted, cursor, socket, errno, recPlayer, sess, roomMap,
                       lastRoomId, caught, users, fault, wrongEntry>>
    BY <1>2 DEF DeleteRoom
  <2>2. /\ plr' \in [Conn -> Player]
        /\ \A p \in Conn : /\ plr'[p].session = plr[p].session
                           /\ plr'[p].id = plr[p].id
                           /\ plr'[p].roomId \in {plr[p].roomId, NoRoom}
    <3> SUFFICES ASSUME NEW p \in Conn
                 PROVE  /\ plr'[p] \in Player
                        /\ plr'[p].session = plr[p].session
                        /\ plr'[p].id = plr[p].id
                        /\ plr'[p].roomId \in {plr[p].roomId, NoRoom}
      BY <2>1 DEF ReleasePlayers
    <3>1. plr[p] \in Player
      BY DEF IInv, TypeOK
    <3>2. plr'[p] = plr[p] \/ plr'[p] = [plr[p] EXCEPT !.roomId = NoRoom]
      BY <2>1 DEF ReleasePlayers
    <3> QED
      BY <3>1, <3>2 DEF Player
  <2>3. room' \in [Rooms -> Room]
    <3>1. <<>> \in Seq(Conn) /\ room \in [Rooms -> Room]
      BY DEF IInv, TypeOK
    <3> QED
      BY <2>1, <3>1 DEF Room
  <2>4. TypeOK'
    BY <2>1, <2>2, <2>3 DEF IInv, TypeOK
  <2> QED
    BY <2>1, <2>2, <2>4, OutsideTurnInv
<1> QED
  BY <1>1, <1>2

\* Connections end, time passes.
LEMMA EnvironmentInv == IInv /\ Environment => IInv' /\ Steps
<1> SUFFICES ASSUME IInv, Environment PROVE IInv' /\ Steps
    OBVIOUS
<1>0. /\ sess \in [Conn -> Session] /\ room \in [Rooms -> Room]
      /\ socket \in [Conn -> {"open", "fin", "reset", "abort", "broken"}]
  BY DEF IInv, TypeOK
<1>1. CASE \E s \in Conn, how \in Failures : ConnectionEnds(s, how)
  <2>1. TypeOK'
    BY <1>1, FailuresAssumption DEF ConnectionEnds, Elsewhere, IInv, TypeOK
  <2> QED
    BY <1>1, <2>1, OutsideTurnInv DEF ConnectionEnds, Elsewhere
<1>2. CASE \E s \in Conn : ResetConsumed(s)
  <2>1. TypeOK'
    BY <1>2 DEF ResetConsumed, Elsewhere, IInv, TypeOK
  <2> QED
    BY <1>2, <2>1, OutsideTurnInv DEF ResetConsumed, Elsewhere
<1>3. ASSUME NEW s \in Conn, TimeoutPasses(s) \/ PingTimePasses(s) PROVE IInv' /\ Steps
  <2>1. /\ \/ sess' = [sess EXCEPT ![s].timeout = "passed"]
           \/ sess' = [sess EXCEPT ![s].pingDue = TRUE]
        /\ UNCHANGED <<Elsewhere, socket, room>>
    BY <1>3 DEF TimeoutPasses, PingTimePasses
  <2>2. sess' \in [Conn -> Session]
    <3>1. [sess EXCEPT ![s].timeout = "passed"] \in [Conn -> Session]
      BY <1>0, FieldType
    <3>2. [sess EXCEPT ![s].pingDue = TRUE] \in [Conn -> Session]
      BY <1>0, FieldType
    <3> QED
      BY <2>1, <3>1, <3>2
  <2>3. \A t \in Conn : /\ sess'[t].player = sess[t].player
                        /\ sess'[t].state = sess[t].state
                        /\ sess'[t].violations = sess[t].violations
                        /\ sess'[t].expired = sess[t].expired
    BY <1>0, <2>1 DEF Session
  <2>4. TypeOK'
    BY <2>1, <2>2 DEF Elsewhere, IInv, TypeOK
  <2> QED
    BY <2>1, <2>3, <2>4, OutsideTurnInv DEF Elsewhere
<1>4. CASE \E r \in Rooms : EmptyTimePasses(r)
  <2>1. room' \in [Rooms -> Room]
    BY <1>0, <1>4 DEF EmptyTimePasses, Room
  <2>2. TypeOK'
    BY <1>4, <2>1 DEF EmptyTimePasses, Elsewhere, IInv, TypeOK
  <2> QED
    BY <1>4, <2>2, OutsideTurnInv DEF EmptyTimePasses, Elsewhere
<1> QED
  BY <1>1, <1>2, <1>3, <1>4 DEF Environment

-----------------------------------------------------------------------------
(* The specification. *)

\* Every packet handler
LEMMA HandlePacketInv == ASSUME IInv, NEW c \in Conn, HandlePacket(c) PROVE IInv' /\ Steps
<1>1. CASE ShortPacket(c) \/ HandleInMissingRoom(c)
  BY <1>1, DieInv DEF ShortPacket, HandleInMissingRoom
<1> QED
  BY <1>1, ViolationInv, SimpleHandlersInv, AuthInv, RestoreInv, RoomHandlersInv DEF HandlePacket

\* Every step of every thread keeps the invariant and the three action
\* properties.
LEMMA NextInv == IInv /\ [Next]_vars => IInv' /\ (Steps \/ UNCHANGED vars)
<1> SUFFICES ASSUME IInv, Next PROVE IInv' /\ Steps
  <2>1. IInv /\ UNCHANGED vars => IInv'
    BY DEF vars, IInv, TypeOK, Counted, KnownPlayers, Pairing, AuthNoRoom, Sess, Plr
  <2> QED
    BY <2>1
<1>1. ASSUME NEW c \in Conn, UpdateClient(c) PROVE IInv' /\ Steps
  BY <1>1, RemovalsInv, IdleTurnsInv, HandlePacketInv DEF UpdateClient
<1>2. CASE NetworkThread
  BY <1>1, <1>2, AcceptInv, AcceptNothingInv DEF NetworkThread
<1>3. CASE \E r \in Rooms : RoomUpdater(r)
  BY <1>3, RoomRoundInv, EndRoomInv, DeleteRoomInv DEF RoomUpdater
<1> QED
  BY <1>2, <1>3, EnvironmentInv DEF Next

\* The invariant holds in every reachable state.
THEOREM Invariant == Spec => []IInv
<1>1. IInv /\ [Next]_vars => IInv'
  BY NextInv
<1> QED
  BY <1>1, InitInv, PTL DEF Spec

\* Every variable keeps its type: in particular, no list of players, owner
\* or room id ever leaves the objects that were created.
THEOREM TypeCorrect == Spec => []TypeOK
<1>1. IInv => TypeOK
  BY DEF IInv
<1> QED
  BY <1>1, Invariant, PTL

\* Records, sessions and players stay paired, whatever sessions are restored,
\* kicked and removed, in any order.
THEOREM PairingHolds == Spec => []Pairing
<1>1. IInv => Pairing
  BY DEF IInv
<1> QED
  BY <1>1, Invariant, PTL

\* A kicked session is final.
THEOREM KickHolds == Spec => KickIsFinal
<1>1. IInv /\ [Next]_vars => [\A c \in clients : StaysKicked(c)]_vars
  BY NextInv DEF Steps
<1> QED
  BY <1>1, Invariant, PTL DEF Spec, KickIsFinal

\* A player changes hands only in a takeover.
THEOREM TakeoverHolds == Spec => RestoresAreTakeovers
<1>1. IInv /\ [Next]_vars => [\A p \in LivePlayers \cap LivePlayers' : TakenOver(p)]_vars
  BY NextInv DEF Steps
<1> QED
  BY <1>1, Invariant, PTL DEF Spec, RestoresAreTakeovers

\* A player in a room keeps its account id.
THEOREM IdHolds == Spec => IdFixedInRoom
<1>1. IInv /\ [Next]_vars => [\A p \in LivePlayers \cap LivePlayers' : KeepsId(p)]_vars
  BY NextInv DEF Steps
<1> QED
  BY <1>1, Invariant, PTL DEF Spec, IdFixedInRoom

=============================================================================
