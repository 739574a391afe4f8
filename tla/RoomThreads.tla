---------------------------- MODULE RoomThreads ----------------------------
(***************************************************************************)
(* The server's threads and how they end: the main thread, which reads the *)
(* console and shuts the server down (Application.cpp, Network::Shutdown,  *)
(* Gameplay::Shutdown), the network thread, whose handlers look rooms up   *)
(* and create them, and one thread for every room (Room::Run).  They share *)
(* the room list under roomlist_mtx, and running flags.                    *)
(*                                                                         *)
(* A step is what a thread does between two points where another thread    *)
(* can get in its way: taking roomlist_mtx, testing a running flag,        *)
(* joining a thread, using a room's pointer after the mutex is released.   *)
(* Only Shutdown keeps roomlist_mtx over several steps; a thread that      *)
(* takes and releases it does so in one step, in which the mutex is free.  *)
(***************************************************************************)
EXTENDS Integers

CONSTANTS
    MaxRooms,   \* bound: rooms created in a behaviour, the default one included
    Players,    \* players that can be in rooms
    Nobody      \* no player

ASSUME RoomsAssumption == MaxRooms \in Nat \ {0}
ASSUME PlayersAssumption == Nobody \notin Players

Rooms == 1 .. MaxRooms
DefaultRoom == 1
NoRoom == 0

VARIABLES
    main,       \* where the main thread is
    target,     \* the room Gameplay::Shutdown's iterator is at
    locked,     \* Gameplay::Shutdown holds roomlist_mtx
    net,        \* where the network thread is
    netFlag,    \* Network::m_isRunning
    handled,    \* the player whose packet the network thread handles
    found,      \* the room whose pointer that handler has got
    thread,     \* where each room's thread is
    flag,       \* Room::m_isRunning
    empty,      \* m_emptyStateTime: 0, recent, long ago
    roomId,     \* m_roomId of every player
    roomMap,    \* the ids in Gameplay::m_rooms
    lastRoomId, \* Gameplay::m_lastRoomId
    fault       \* a thread used a room after its delete

netVars == <<net, netFlag, handled, found>>
listVars == <<roomMap, lastRoomId>>
vars == <<main, target, locked, netVars, thread, flag, empty, roomId, listVars, fault>>

TypeOK ==
    /\ main \in {"console", "joinNetwork", "lockList", "stopRoom", "readThread", "joinRoom",
                 "exited"}
    /\ target \in Rooms \cup {NoRoom}
    /\ locked \in BOOLEAN
    /\ net \in {"starting", "loop", "lookup", "use", "stopped"}
    /\ netFlag \in BOOLEAN
    /\ handled \in Players \cup {Nobody}
    /\ found \in Rooms \cup {NoRoom}
    /\ thread \in [Rooms -> {"unborn", "starting", "loop", "update", "relocate", "destroy",
                             "left", "deleted"}]
    /\ flag \in [Rooms -> BOOLEAN]
    /\ empty \in [Rooms -> {"no", "counting", "due"}]
    /\ roomId \in [Players -> Rooms \cup {NoRoom}]
    /\ roomMap \subseteq Rooms
    /\ lastRoomId \in Rooms
    /\ fault \in BOOLEAN

\* The server after Application::Init: the network thread has been created
\* and the default room with its thread; neither thread need have run yet.
Init ==
    /\ main = "console" /\ target = NoRoom /\ locked = FALSE
    /\ net = "starting" /\ netFlag = FALSE /\ handled = Nobody /\ found = NoRoom
    /\ thread = [r \in Rooms |-> IF r = DefaultRoom THEN "starting" ELSE "unborn"]
    /\ flag = [r \in Rooms |-> FALSE]
    /\ empty = [r \in Rooms |-> "no"]
    /\ roomId = [p \in Players |-> NoRoom]
    /\ roomMap = {DefaultRoom} /\ lastRoomId = DefaultRoom
    /\ fault = FALSE

Occupied(r) == \E p \in Players : roomId[p] = r

-----------------------------------------------------------------------------
(* The main thread: the command exit, or SIGINT. *)

\* Mutant: Shutdown clears the network's flag but does not join its thread
ExitWithoutJoin ==
    /\ main = "console" /\ main' = "lockList"
    /\ netFlag' = FALSE
    /\ UNCHANGED <<target, locked, net, handled, found, thread, flag, empty, roomId, listVars, fault>>

\* Network::Shutdown clears the flag and joins the network thread
Exit ==
    /\ main = "console" /\ main' = "joinNetwork"
    /\ netFlag' = FALSE
    /\ UNCHANGED <<target, locked, net, handled, found, thread, flag, empty, roomId, listVars, fault>>

NetworkJoined ==
    /\ main = "joinNetwork" /\ net = "stopped"
    /\ main' = "lockList"
    /\ UNCHANGED <<target, locked, netVars, thread, flag, empty, roomId, listVars, fault>>

\* The iterator's next position in m_rooms, which ends the loop if there is none
NextTarget(r) ==
    LET rest == {s \in roomMap : s > r} IN
    /\ target' \in {s \in rest : \A t \in rest : s <= t} \cup {z \in {NoRoom} : rest = {}}
    /\ main' = IF rest = {} THEN "exited" ELSE "stopRoom"
    /\ locked' = (rest # {})

\* Gameplay::Shutdown takes roomlist_mtx
LockList ==
    /\ main = "lockList" /\ ~locked
    /\ NextTarget(NoRoom)
    /\ UNCHANGED <<netVars, thread, flag, empty, roomId, listVars, fault>>

\* SetRunning(false)
StopRoom ==
    /\ main = "stopRoom" /\ main' = "readThread"
    /\ flag' = [flag EXCEPT ![target] = FALSE]
    /\ UNCHANGED <<target, locked, netVars, thread, empty, roomId, listVars, fault>>

\* WaitForShutdown reads m_updateThread of a room that may be deleted by now
ReadThread ==
    /\ main = "readThread"
    /\ IF thread[target] = "deleted" THEN fault' = TRUE /\ UNCHANGED main
       ELSE main' = "joinRoom" /\ UNCHANGED fault
    /\ UNCHANGED <<target, locked, netVars, thread, flag, empty, roomId, listVars>>

\* The room's thread has ended, its last act was to delete the room
RoomJoined ==
    /\ main = "joinRoom" /\ thread[target] = "deleted"
    /\ NextTarget(target)
    /\ UNCHANGED <<netVars, thread, flag, empty, roomId, listVars, fault>>

MainThread == Exit \/ NetworkJoined \/ LockList \/ StopRoom \/ ReadThread \/ RoomJoined

-----------------------------------------------------------------------------
(* The network thread. *)

\* Network::Run sets the flag itself
NetworkStarts ==
    /\ net = "starting" /\ net' = "loop"
    /\ netFlag' = TRUE
    /\ UNCHANGED <<main, target, locked, handled, found, thread, flag, empty, roomId, listVars, fault>>

\* Mutant: the flag is not tested after a packet
NetworkNeverStops == net = "loop" /\ net' = "lookup" /\ handled' \in Players

\* The loop's condition: stop, or handle a packet of some player
NetworkLoops ==
    /\ net = "loop"
    /\ \/ ~netFlag /\ net' = "stopped" /\ UNCHANGED handled
       \/ netFlag /\ net' = "lookup" /\ handled' \in Players

NetworkTurn ==
    /\ NetworkLoops
    /\ UNCHANGED <<main, target, locked, netFlag, found, thread, flag, empty, roomId, listVars, fault>>

\* Gameplay::GetRoom: of the room the player is in, or of one it wants to join
LookUpRoom ==
    /\ net = "lookup" /\ ~locked
    /\ \E r \in Rooms :
         /\ roomId[handled] \in {NoRoom, r}
         /\ IF r \in roomMap THEN net' = "use" /\ found' = r
            ELSE net' = "loop" /\ UNCHANGED found
    /\ UNCHANGED <<main, target, locked, netFlag, handled, thread, flag, empty, roomId, listVars, fault>>

\* Gameplay::CreateRoom, whose Room constructor starts the thread, and AddPlayer
CreateRoom ==
    LET r == lastRoomId + 1 IN
    /\ net = "lookup" /\ ~locked /\ net' = "loop"
    /\ roomId[handled] = NoRoom /\ r \in Rooms
    /\ lastRoomId' = r
    /\ roomMap' = roomMap \cup {r}
    /\ thread' = [thread EXCEPT ![r] = "starting"]
    /\ roomId' = [roomId EXCEPT ![handled] = r]
    /\ UNCHANGED <<main, target, locked, netFlag, handled, found, flag, empty, fault>>

\* The handler works on the room it has got, the mutex is free again: a
\* player joins, leaves (AddPlayer, RemovePlayer) or does something in it
UseRoom ==
    /\ net = "use" /\ net' = "loop" /\ found' = NoRoom
    /\ IF thread[found] = "deleted" THEN fault' = TRUE /\ UNCHANGED roomId
       ELSE /\ UNCHANGED fault
            /\ \/ roomId' = [roomId EXCEPT ![handled] = IF @ = NoRoom THEN found ELSE NoRoom]
               \/ UNCHANGED roomId
    /\ UNCHANGED <<main, target, locked, netFlag, handled, thread, flag, empty, listVars>>

NetworkThread == NetworkStarts \/ NetworkTurn \/ LookUpRoom \/ CreateRoom \/ UseRoom

-----------------------------------------------------------------------------
(* The thread of room r. *)

Moves(r, from, to) == thread[r] = from /\ thread' = [thread EXCEPT ![r] = to]

\* Run sets the flag itself, after its first sleep
RoomStarts(r) ==
    /\ Moves(r, "starting", "loop")
    /\ flag' = [flag EXCEPT ![r] = TRUE]
    /\ empty' = [empty EXCEPT ![r] = "no"]
    /\ UNCHANGED <<main, target, locked, netVars, roomId, listVars, fault>>

\* The loop's condition fails
RoomStops(r) ==
    /\ ~flag[r] /\ Moves(r, "loop", "left")
    /\ UNCHANGED <<main, target, locked, netVars, flag, empty, roomId, listVars, fault>>

ToBeEnded(r) == r # DefaultRoom /\ empty[r] = "due"

\* Mutant: the time of a room with one player counts as that of an empty one
OnePlayerIsEmpty(r) ==
    LET emptied == \A p, q \in Players : roomId[p] = r /\ roomId[q] = r => p = q
    IN  IF r # DefaultRoom /\ emptied THEN "counting" ELSE empty[r]

\* The empty-room timestamp after its update in the loop
EmptyAfterRound(r) ==
    CASE r = DefaultRoom               -> empty[r]
      [] r # DefaultRoom /\ Occupied(r) -> "no"
      [] r # DefaultRoom /\ ~Occupied(r) -> IF empty[r] = "no" THEN "counting" ELSE empty[r]

\* The room has been empty for ROOM_EMPTY_SHUTDOWN seconds: SetRunning(false),
\* and on to DestroyRoom
DecideToEnd(r) ==
    /\ flag[r] /\ ToBeEnded(r) /\ Moves(r, "loop", "destroy")
    /\ flag' = [flag EXCEPT ![r] = FALSE]
    /\ UNCHANGED <<main, target, locked, netVars, empty, roomId, listVars, fault>>

\* The round goes on: the timestamp is updated, then the players
StartRound(r) ==
    /\ flag[r] /\ ~ToBeEnded(r) /\ Moves(r, "loop", "update")
    /\ empty' = [empty EXCEPT ![r] = EmptyAfterRound(r)]
    /\ UNCHANGED <<main, target, locked, netVars, flag, roomId, listVars, fault>>

\* A player of the room is moving: Player::Update calls Relocate
UpdateMovingPlayer(r) ==
    /\ Occupied(r) /\ Moves(r, "update", "relocate")
    /\ UNCHANGED <<main, target, locked, netVars, flag, empty, roomId, listVars, fault>>

\* Relocate's GetRoom needs roomlist_mtx.  The moves of further players in
\* the same round are alike and left out.
Relocate(r) ==
    /\ ~locked /\ Moves(r, "relocate", "loop")
    /\ UNCHANGED <<main, target, locked, netVars, flag, empty, roomId, listVars, fault>>

EndRound(r) ==
    /\ Moves(r, "update", "loop")
    /\ UNCHANGED <<main, target, locked, netVars, flag, empty, roomId, listVars, fault>>

\* Mutant: DestroyRoom does not erase the room
KeepListed(r) == UNCHANGED roomMap

\* Gameplay::DestroyRoom's effect on m_rooms
Unlist(r) == roomMap' = roomMap \ {r}

\* Mutant: DestroyRoom also forgets the highest id
DestroyRoomTwice(r) ==
    /\ ~locked /\ Moves(r, "destroy", "left")
    /\ roomMap' = roomMap \ {r} /\ lastRoomId' = lastRoomId - r
    /\ UNCHANGED <<main, target, locked, netVars, flag, empty, roomId, fault>>

\* DestroyRoom, then out of the loop
DestroyRoom(r) ==
    /\ ~locked /\ Moves(r, "destroy", "left")
    /\ Unlist(r)
    /\ UNCHANGED <<main, target, locked, netVars, flag, empty, roomId, lastRoomId, fault>>

\* runRoomUpdater deletes the room, ~Room takes the players out of it
DeleteRoom(r) ==
    /\ Moves(r, "left", "deleted")
    /\ roomId' = [p \in Players |-> IF roomId[p] = r THEN NoRoom ELSE roomId[p]]
    /\ UNCHANGED <<main, target, locked, netVars, flag, empty, listVars, fault>>

RoomThread(r) ==
    \/ RoomStarts(r) \/ RoomStops(r) \/ DecideToEnd(r) \/ StartRound(r) \/ UpdateMovingPlayer(r)
    \/ Relocate(r) \/ EndRound(r) \/ DestroyRoom(r) \/ DeleteRoom(r)

\* ROOM_EMPTY_SHUTDOWN seconds have passed
EmptyTimePasses(r) ==
    /\ empty[r] = "counting" /\ empty' = [empty EXCEPT ![r] = "due"]
    /\ UNCHANGED <<main, target, locked, netVars, thread, flag, roomId, listVars, fault>>

-----------------------------------------------------------------------------

\* A use after delete ends the model: nothing is known of what comes after it
Next ==
    /\ ~fault
    /\ \/ MainThread
       \/ NetworkThread
       \/ \E r \in Rooms : RoomThread(r) \/ EmptyTimePasses(r)

Spec == Init /\ [][Next]_vars

-----------------------------------------------------------------------------
(* Safety. *)

\* Until Shutdown stops the rooms, the thread of a room in the list has not
\* left its loop: whoever finds a room under roomlist_mtx finds a live one,
\* because the room is erased (Room.cpp:155) before its thread goes on to
\* delete it, and nobody else clears its flag.
ListedRoomsLive ==
    main \in {"console", "joinNetwork", "lockList"} =>
        \A r \in roomMap : thread[r] \notin {"unborn", "left", "deleted"}

\* When Shutdown returns, every thread is out of its loop, whichever rooms were
\* created or ended while it went on (Application.cpp:98-99 stops the network,
\* the one creator of rooms, first).  A room that has ended itself may still be
\* on its way to delete.
StoppedAfterExit ==
    main = "exited" =>
        /\ net = "stopped"
        /\ \A r \in Rooms : thread[r] \in {"unborn", "left", "deleted"}

\* The player is in a listed room that has taken note of it: m_emptyStateTime
\* is cleared and the room's thread has not decided to end the room
Settled(p) ==
    LET r == roomId[p] IN
    /\ r # NoRoom /\ r # DefaultRoom
    /\ r \in roomMap /\ empty[r] = "no"
    /\ thread[r] \in {"loop", "update", "relocate"}

\* Once settled, a player keeps its room until it leaves or Shutdown stops the
\* room, whatever the other players and the room's clock do: the room can only
\* be deleted under a player that enters it while its time as an empty room
\* runs out (Room.cpp:152-167).
SettledStays ==
    [][\A p \in Players :
          LET stopped == main \in {"readThread", "joinRoom"} /\ target = roomId[p]
          IN  Settled(p) /\ roomId'[p] = roomId[p] /\ ~stopped => Settled(p)']_vars

-----------------------------------------------------------------------------
(* Liveness. *)

\* Every thread is scheduled; the command exit need not be given and a room's
\* clock need not reach its limit.
Fairness ==
    /\ WF_vars(~fault /\ main # "console" /\ MainThread)
    /\ WF_vars(~fault /\ NetworkThread)
    /\ \A r \in Rooms : WF_vars(~fault /\ RoomThread(r))

FairSpec == Spec /\ Fairness

\* The room Shutdown joins needs the mutex that Shutdown holds
Deadlocked == main = "joinRoom" /\ thread[target] \in {"relocate", "destroy"}

\* A thread has set its running flag again after Shutdown cleared it
Overwritten ==
    \/ main = "joinNetwork" /\ netFlag
    \/ main = "joinRoom" /\ flag[target]

\* The only ways in which exit does not end the server: the deadlock on
\* roomlist_mtx, an overwritten flag, and the use of a deleted room.
HangCauses == main # "console" ~> main = "exited" \/ Deadlocked \/ Overwritten \/ fault

\* exit ends a server whose threads have all started (Application.cpp:78
\* "exit    - exits whole server").
ExitTerminates == main # "console" ~> main = "exited" \/ Overwritten \/ fault

=============================================================================
