------------------------------- MODULE World -------------------------------
(***************************************************************************)
(* The players of one room in its grid, and what their clients have been   *)
(* told of each other.  Two threads work on them: the network thread with  *)
(* the packet handlers (world request, movement, eating, joining, leaving) *)
(* and the room's own thread, which moves the players that are moving.     *)
(*                                                                         *)
(* A position is the cell it lies in, or Outside.  A cell's playerList is  *)
(* seen from the player: listed[p] is the set of cells whose list holds p. *)
(* (list::remove removes every equal entry, so how often does not matter.) *)
(*                                                                         *)
(* A step is a piece of code between two accesses that the other thread    *)
(* can come between.  RelocatePlayer works under cellMapLock; the other    *)
(* changes of the cells do not take it.                                    *)
(***************************************************************************)
EXTENDS Visibility

CONSTANTS
    Players,
    Nobody,     \* no player
    Outside     \* a position outside the grid

ASSUME NamesAssumption == Nobody \notin Players /\ Outside \notin Cells

Position == Cells \cup {Outside}
Threads == {"net", "room"}
NoThread == "none"

VARIABLES
    member,     \* the players in m_playerList, those with this room's m_roomId
    pos,        \* m_position
    listed,     \* the cells whose playerList holds the player
    dead,       \* m_dead
    moving,     \* m_isMoving
    updates,    \* m_updateEnabled
    told,       \* told[q]: the players the last message to q about whom created them
    holder,     \* the thread that holds cellMapLock
    reloc,      \* each thread's call of Relocate, if any
    net,        \* the packet handler the network thread is in, apart from Relocate
    corrupt,    \* two threads have changed or walked one cell's list at once
    raced,      \* history: players that two threads have worked on at once
    misplaced   \* history: players placed when in the grid, or moved when not

history == <<raced, misplaced>>
vars == <<member, pos, listed, dead, moving, updates, told, holder, reloc, net, corrupt, history>>

Call == [step : {"none", "write", "clamp", "lock", "apply"},
         who  : Players \cup {Nobody},
         old  : Position]                   \* oldPos
NoCall == [step |-> "none", who |-> Nobody, old |-> Outside]

Handler == [step : {"idle", "push", "announce", "reset", "snapshot", "send",
                    "eaten", "kill", "leave"},
            who  : Players \cup {Nobody},
            cell : Position,                \* cellX, cellY of PlaceNewPlayer
            seen : SUBSET Players]          \* the player blocks of SP_NEW_WORLD
Idle == [step |-> "idle", who |-> Nobody, cell |-> Outside, seen |-> {}]

TypeOK ==
    /\ member \subseteq Players
    /\ pos \in [Players -> Position]
    /\ listed \in [Players -> SUBSET Cells]
    /\ dead \in [Players -> BOOLEAN]
    /\ moving \in [Players -> BOOLEAN]
    /\ updates \in [Players -> BOOLEAN]
    /\ told \in [Players -> SUBSET Players]
    /\ holder \in Threads \cup {NoThread}
    /\ reloc \in [Threads -> Call]
    /\ net \in Handler
    /\ corrupt \in BOOLEAN
    /\ raced \subseteq Players /\ misplaced \subseteq Players

\* Every player has just logged in: positions are 0,0, nobody is in the room
Init ==
    /\ member = {}
    /\ pos = [p \in Players |-> <<0, 0>>]
    /\ listed = [p \in Players |-> {}]
    /\ dead = [p \in Players |-> FALSE]
    /\ moving = [p \in Players |-> FALSE]
    /\ updates = [p \in Players |-> FALSE]
    /\ told = [p \in Players |-> {}]
    /\ holder = NoThread
    /\ reloc = [t \in Threads |-> NoCall]
    /\ net = Idle
    /\ corrupt = FALSE
    /\ raced = {} /\ misplaced = {}

-----------------------------------------------------------------------------

NetIdle == net = Idle /\ reloc["net"] = NoCall

\* Players in a cell of area S
PlayersIn(S) == {q \in Players : listed[q] \cap S # {}}

\* The near area of a position; none if it is outside
NearPos(x) == IF x \in Cells THEN Near(x) ELSE {}

\* The sends of a creation, or of a destruction, of p to the players of Q
Create(t, p, Q) == [q \in Players |-> IF q \in Q THEN t[q] \cup {p} ELSE t[q]]
Destroy(t, p, Q) == [q \in Players |-> IF q \in Q THEN t[q] \ {p} ELSE t[q]]

\* The histories: thread t begins to work on p, p is misplaced if wrong.  The
\* end of a world request only reads.
Races(t, p) ==
    LET handled == net.who = p /\ net.step \notin {"snapshot", "send"}
        both == (\E u \in Threads \ {t} : reloc[u].who = p) \/ (t = "room" /\ handled)
    IN  raced' = IF both THEN raced \cup {p} ELSE raced
Misplaces(p, wrong) == misplaced' = IF wrong THEN misplaced \cup {p} ELSE misplaced

\* The cells whose lists the room's thread may be changing or walking under the
\* lock: those of its RelocatePlayer; between two moves any, as it tells the
\* players near a respawned object of it
Touched ==
    CASE holder = "room" -> NearPos(reloc["room"].old) \cup NearPos(pos[reloc["room"].who])
      [] holder = NoThread /\ reloc["room"] = NoCall -> Cells
      [] OTHER -> {}

\* A cell's list is changed without cellMapLock: a data race, if the other
\* thread is at it, which may do no harm or any
Unlocked(S) == corrupt' \in IF S \cap Touched = {} THEN {FALSE} ELSE BOOLEAN

-----------------------------------------------------------------------------
(* WorldObject::Relocate(pos, true), by thread t. *)

\* The old position is read
BeginRelocate(t, p) ==
    /\ reloc[t] = NoCall
    /\ reloc' = [reloc EXCEPT ![t] = [step |-> "write", who |-> p, old |-> pos[p]]]
    /\ Races(t, p) /\ Misplaces(p, listed[p] = {})
    /\ UNCHANGED <<member, pos, listed, dead, moving, updates, told, holder, net, corrupt>>

At(t, step) == reloc[t].step = step

\* The new position is written as the client, or the movement, gives it
WritePosition(t) ==
    /\ At(t, "write")
    /\ \E x \in Position : pos' = [pos EXCEPT ![reloc[t].who] = x]
    /\ reloc' = [reloc EXCEPT ![t].step = "clamp"]
    /\ UNCHANGED <<member, listed, dead, moving, updates, told, holder, net, corrupt, history>>

\* If the player is in a room, its position is brought into the map
ClampPosition(t) ==
    LET p == reloc[t].who IN
    /\ At(t, "clamp")
    /\ IF p \notin member
       THEN reloc' = [reloc EXCEPT ![t] = NoCall] /\ UNCHANGED pos
       ELSE /\ reloc' = [reloc EXCEPT ![t].step = "lock"]
            /\ \E x \in Cells : /\ pos[p] # Outside => x = pos[p]
                                /\ pos' = [pos EXCEPT ![p] = x]
    /\ UNCHANGED <<member, listed, dead, moving, updates, told, holder, net, corrupt, history>>

LockCells(t) ==
    /\ At(t, "lock") /\ holder = NoThread
    /\ holder' = t
    /\ reloc' = [reloc EXCEPT ![t].step = "apply"]
    /\ UNCHANGED <<member, pos, listed, dead, moving, updates, told, net, corrupt, history>>

\* What the move of p from cell old to cell new tells whom: the move is made
\* in the cells first
TellMove(p, old, new) ==
    LET seen == [listed EXCEPT ![p] = (@ \ {old}) \cup {new}]
        at(S) == {q \in Players : seen[q] \cap S # {}}
        sent == Create(Destroy(told, p, at(DestroyArea(old, new))), p, at(CreateArea(old, new)))
    IN  [sent EXCEPT ![p] = @ \cup at(CreateArea(old, new))]

\* Room::RelocatePlayer.  The new position is read here, through a reference
RelocatePlayer(t) ==
    LET p == reloc[t].who
        old == reloc[t].old
        new == pos[p]
    IN  /\ At(t, "apply")
        /\ IF old # new /\ old \in Cells /\ new \in Cells
           THEN /\ listed' = [listed EXCEPT ![p] = (@ \ {old}) \cup {new}]
                /\ told' = TellMove(p, old, new)
           ELSE UNCHANGED <<listed, told>>
        /\ holder' = NoThread
        /\ reloc' = [reloc EXCEPT ![t] = NoCall]
        /\ \E b \in BOOLEAN :               \* HandleMoveStart and HandleMoveStop go on
               /\ t = "room" => b = moving[p]
               /\ moving' = [moving EXCEPT ![p] = b]
        /\ UNCHANGED <<member, pos, dead, updates, net, corrupt, history>>

Relocate(t) == WritePosition(t) \/ ClampPosition(t) \/ LockCells(t) \/ RelocatePlayer(t)

-----------------------------------------------------------------------------
(* The network thread: handlers of a player's packets. *)

\* HandleMoveStart, HandleMoveStop, HandleMoveHeartbeat
HandleMove(p) == p \in member /\ NetIdle /\ BeginRelocate("net", p)

\* HandleJoinRoomRequest, HandleCreateRoom: SetUpdateEnabled, AddPlayer.  The
\* position is what the player's last room has left.
JoinRoom(p) ==
    /\ NetIdle /\ p \notin member
    /\ member' = member \cup {p}
    /\ updates' = [updates EXCEPT ![p] = FALSE]
    /\ told' = [told EXCEPT ![p] = {}]
    /\ \E x \in Position : pos' = [pos EXCEPT ![p] = x]
    /\ UNCHANGED <<listed, dead, moving, holder, reloc, net, corrupt, history>>

\* The end of HandleRestoreSession: the restored player stops
HandleRestoreSession(p) ==
    /\ NetIdle /\ moving' = [moving EXCEPT ![p] = FALSE]
    /\ UNCHANGED <<member, pos, listed, dead, updates, told, holder, reloc, net, corrupt, history>>

Handles(step, next) == net.step = step /\ net' = [net EXCEPT !.step = next]

\* Mutant: the random spot is not scaled to the map
UnscaledSpots == Position

\* Where PlaceNewPlayer may put a player
Spots == Cells

\* HandleWorldRequest, not reinitializing: PlaceNewPlayer chooses a position
WorldRequest(p) ==
    /\ NetIdle /\ p \in member
    /\ \E c \in Spots :
         /\ pos' = [pos EXCEPT ![p] = c]
         /\ net' = [Idle EXCEPT !.step = "push", !.who = p, !.cell = c]
    /\ Races("net", p) /\ Misplaces(p, listed[p] # {})
    /\ UNCHANGED <<member, listed, dead, moving, updates, told, holder, reloc, corrupt>>

\* HandleWorldRequest, reinitializing: the player stays as it is
WorldRequestAgain(p) ==
    /\ NetIdle /\ p \in member
    /\ net' = [Idle EXCEPT !.step = "snapshot", !.who = p]
    /\ UNCHANGED <<member, pos, listed, dead, moving, updates, told, holder, reloc, corrupt, history>>

\* PlaceNewPlayer puts the player into the chosen cell, without the lock
PushPlayer ==
    /\ Handles("push", "announce")
    /\ listed' = [listed EXCEPT ![net.who] = @ \cup {net.cell}]
    /\ Unlocked({net.cell})
    /\ UNCHANGED <<member, pos, dead, moving, updates, told, holder, reloc, history>>

\* SP_NEW_PLAYER to the near cells
AnnouncePlayer ==
    /\ Handles("announce", "reset") /\ holder = NoThread
    /\ told' = Create(told, net.who, PlayersIn(Near(net.cell)))
    /\ UNCHANGED <<member, pos, listed, dead, moving, updates, holder, reloc, corrupt, history>>

\* SetDead(false), ResetAttributes
ResetPlayer ==
    /\ Handles("reset", "snapshot")
    /\ dead' = [dead EXCEPT ![net.who] = FALSE]
    /\ moving' = [moving EXCEPT ![net.who] = FALSE]
    /\ UNCHANGED <<member, pos, listed, updates, told, holder, reloc, corrupt, history>>

\* BuildPlayerCreateBlock collects the players near the current position
SnapshotWorld ==
    /\ net.step = "snapshot" /\ holder = NoThread
    /\ net' = [net EXCEPT !.step = "send", !.seen = PlayersIn(NearPos(pos[net.who]))]
    /\ UNCHANGED <<member, pos, listed, dead, moving, updates, told, holder, reloc, corrupt, history>>

\* SP_NEW_WORLD is sent, SetUpdateEnabled(true)
SendWorld ==
    /\ net.step = "send" /\ net' = Idle
    /\ told' = [told EXCEPT ![net.who] = @ \cup net.seen]
    /\ updates' = [updates EXCEPT ![net.who] = TRUE]
    /\ UNCHANGED <<member, pos, listed, dead, moving, holder, reloc, corrupt, history>>

\* HandleEatRequest: player p asks for q in its sight; the smaller one of the
\* two, or p itself, will be eaten
EatRequest(p, q) ==
    /\ NetIdle /\ p \in member /\ holder = NoThread
    /\ q \in PlayersIn(NearPos(pos[p]))
    /\ \E victim \in {p, q} :
         /\ net' = [Idle EXCEPT !.step = "eaten", !.who = victim]
         /\ Races("net", victim)
    /\ UNCHANGED <<member, pos, listed, dead, moving, updates, told, holder, reloc, corrupt, misplaced>>

\* EatObject: SP_PLAYER_EATEN to the near cells
TellEaten ==
    /\ Handles("eaten", "kill") /\ holder = NoThread
    /\ told' = Destroy(told, net.who, PlayersIn(NearPos(pos[net.who])))
    /\ UNCHANGED <<member, pos, listed, dead, moving, updates, holder, reloc, corrupt, history>>

\* Mutant: an eaten or leaving player stays in its cell
StayInGrid(p) == UNCHANGED <<listed, corrupt>>

\* Room::RemovePlayerFromGrid, without the lock
RemovePlayerFromGrid(p) ==
    /\ listed' = [listed EXCEPT ![p] = @ \ {pos[p]}]
    /\ Unlocked({pos[p]})

\* SetDead(true), RemovePlayerFromGrid
KillPlayer ==
    /\ net.step = "kill" /\ net' = Idle
    /\ dead' = [dead EXCEPT ![net.who] = TRUE]
    /\ RemovePlayerFromGrid(net.who)
    /\ UNCHANGED <<member, pos, moving, updates, told, holder, reloc, history>>

\* Room::RemovePlayer, called by HandlePlayerExit and RemoveClient: off the grid
ExitRoom(p) ==
    /\ NetIdle /\ p \in member
    /\ net' = [Idle EXCEPT !.step = "leave", !.who = p]
    /\ RemovePlayerFromGrid(p)
    /\ Races("net", p)
    /\ UNCHANGED <<member, pos, dead, moving, updates, told, holder, reloc, misplaced>>

\* Mutant: only those near the place it left are told
LeaveListNear ==
    LET p == net.who IN
    /\ net.step = "leave" /\ net' = Idle
    /\ member' = member \ {p}
    /\ told' = Destroy(told, p, PlayersIn(NearPos(pos[p])))
    /\ UNCHANGED <<pos, listed, dead, moving, updates, holder, reloc, corrupt, history>>

\* then off the player list, and SP_PLAYER_EXIT to those who stay
LeaveList ==
    LET p == net.who IN
    /\ net.step = "leave" /\ net' = Idle
    /\ member' = member \ {p}
    /\ told' = Destroy(told, p, member \ {p})
    /\ UNCHANGED <<pos, listed, dead, moving, updates, holder, reloc, corrupt, history>>

NetworkThread ==
    \/ \E p \in Players : \/ HandleMove(p) \/ JoinRoom(p) \/ HandleRestoreSession(p)
                          \/ WorldRequest(p) \/ WorldRequestAgain(p) \/ ExitRoom(p)
    \/ \E p, q \in Players : EatRequest(p, q)
    \/ PushPlayer \/ AnnouncePlayer \/ ResetPlayer \/ SnapshotWorld \/ SendWorld
    \/ TellEaten \/ KillPlayer \/ LeaveList
    \/ Relocate("net")

-----------------------------------------------------------------------------

\* Player::Update of a player that is moving, by the room's thread
UpdatePlayer(p) ==
    /\ p \in member /\ updates[p] /\ moving[p] /\ ~dead[p]
    /\ BeginRelocate("room", p)

RoomThread == (\E p \in Players : UpdatePlayer(p)) \/ Relocate("room")

\* A corrupted list ends the model: nothing is known of what comes after it
Next == ~corrupt /\ (NetworkThread \/ RoomThread)

Spec == Init /\ [][Next]_vars

-----------------------------------------------------------------------------
(* Safety, for the players whose moves no race and no misplacement has met. *)

\* Nobody works on p
AtRest(p) == net.who # p /\ \A t \in Threads : reloc[t].who # p

Clean(p) == p \notin raced \cup misplaced

\* A player is in the one cell of its position, or in none; while it is being
\* relocated, in that of its old position.  No dead player and none that has
\* left the room is in a cell.
GridExact ==
    \A p \in Players :
        /\ Clean(p) /\ AtRest(p) =>
              listed[p] \in (IF p \in member /\ ~dead[p] THEN {{}, {pos[p]}} ELSE {{}})
        /\ \A t \in Threads :
              Clean(p) /\ reloc[t].who = p => listed[p] = {reloc[t].old}

\* Whoever is in sight of a player has been created at its client, however the
\* moves of the two threads interleave.
ToldComplete ==
    \A p, q \in Players :
        /\ Clean(p) /\ Clean(q) /\ p # q /\ net.who \notin {p, q}
        /\ \E c \in listed[p], d \in listed[q] : d \in Near(c)
        => q \in told[p]

\* A client keeps no player that has left the room
ToldOnlyMembers ==
    \A p, q \in Players :
        Clean(q) /\ p \in member /\ q \in told[p] => q \in member

=============================================================================
