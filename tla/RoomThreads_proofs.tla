------------------------- MODULE RoomThreads_proofs -------------------------
(***************************************************************************)
(* Proofs about RoomThreads for every number of rooms and set of players:  *)
(* a listed room is live until Shutdown, a player that its room has taken  *)
(* note of keeps the room, and a Shutdown that returns leaves no thread in *)
(* its loop.                                                               *)
(***************************************************************************)
EXTENDS RoomThreads, TLAPS

-----------------------------------------------------------------------------
(* The inductive invariant. *)

InLoop == {"loop", "update", "relocate"}
OutOfLoop == {"unborn", "left", "deleted"}
ShuttingRooms == {"stopRoom", "readThread", "joinRoom"}

\* Network::Shutdown has joined the network thread
NetworkOver == main \notin {"console", "joinNetwork"} => net = "stopped"

\* A room with a running thread is in the list, with an id given out before
RunningListed ==
    /\ \A r \in Rooms : thread[r] \notin OutOfLoop => r \in roomMap
    /\ \A r \in roomMap : r <= lastRoomId

\* Only Shutdown takes the flag from a room that is in its loop
FlagKept ==
    \A r \in Rooms :
        thread[r] \in InLoop /\ ~flag[r] => main \in {"readThread", "joinRoom"} /\ target = r

\* While Shutdown is at a room it holds the mutex, and has ended every room
\* with a smaller id
ShutdownOrder ==
    main \in ShuttingRooms =>
        /\ locked /\ target \in Rooms
        /\ \A r \in Rooms : r < target => thread[r] \in OutOfLoop

IInv ==
    TypeOK /\ NetworkOver /\ RunningListed /\ FlagKept /\ ShutdownOrder /\ ListedRoomsLive
           /\ StoppedAfterExit

-----------------------------------------------------------------------------
(* Every step keeps it. *)

\* The iterator's next position is the smallest listed id above r, and a loop
\* that ends has passed every listed room.
LEMMA NextTargetLemma ==
    ASSUME roomMap \subseteq Rooms, NEW r \in Rooms \cup {NoRoom}, NextTarget(r)
    PROVE  \/ /\ main' = "exited" /\ target' = NoRoom /\ locked' = FALSE
              /\ \A s \in roomMap : s <= r
           \/ /\ main' = "stopRoom" /\ target' \in roomMap /\ locked' = TRUE
              /\ \A s \in roomMap : s > r => target' <= s
<1> DEFINE rest == {s \in roomMap : s > r}
<1>0. roomMap \subseteq Int /\ r \in Int
  BY RoomsAssumption DEF Rooms, NoRoom
<1>1. CASE rest = {}
  <2>1. target' = NoRoom
    BY <1>1 DEF NextTarget
  <2>2. \A s \in roomMap : s <= r
    BY <1>0, <1>1
  <2> QED BY <1>1, <2>1, <2>2 DEF NextTarget
<1>2. CASE rest # {}
  <2>1. target' \in {s \in rest : \A t \in rest : s <= t}
    BY <1>2 DEF NextTarget
  <2> QED BY <1>2, <2>1 DEF NextTarget
<1> QED BY <1>1, <1>2

\* A step of some room's thread, or of its clock
SomeRoom == \E r \in Rooms : RoomThread(r) \/ EmptyTimePasses(r)

\* Every step keeps the types.
LEMMA TypeStep ==
    ASSUME TypeOK, [Next]_vars
    PROVE  TypeOK'
<1>r. Rooms \subseteq Int /\ DefaultRoom \in Rooms
  BY RoomsAssumption DEF Rooms, DefaultRoom
<1>1. CASE MainThread
  <2>1. CASE Exit \/ NetworkJoined \/ StopRoom \/ ReadThread
    BY <2>1 DEF Exit, NetworkJoined, StopRoom, ReadThread, TypeOK, netVars, listVars
  <2>2. CASE LockList \/ RoomJoined
    <3>1. NextTarget(NoRoom) \/ NextTarget(target)
      BY <2>2 DEF LockList, RoomJoined
    <3>2. main' \in {"stopRoom", "exited"} /\ target' \in Rooms \cup {NoRoom} /\ locked' \in BOOLEAN
      BY <3>1, NextTargetLemma DEF TypeOK
    <3> QED BY <2>2, <3>2 DEF LockList, RoomJoined, TypeOK, netVars, listVars
  <2> QED BY <1>1, <2>1, <2>2 DEF MainThread
<1>2. CASE NetworkThread
  <2>1. CASE NetworkStarts \/ NetworkTurn
    BY <2>1 DEF NetworkStarts, NetworkTurn, NetworkLoops, TypeOK, listVars
  <2>2. CASE LookUpRoom
    BY <2>2 DEF LookUpRoom, TypeOK, listVars
  <2>3. CASE CreateRoom
    BY <2>3 DEF CreateRoom, TypeOK
  <2>4. CASE UseRoom
    BY <2>4 DEF UseRoom, TypeOK, listVars
  <2> QED BY <1>2, <2>1, <2>2, <2>3, <2>4 DEF NetworkThread
<1>3. ASSUME NEW r \in Rooms, RoomThread(r) \/ EmptyTimePasses(r) PROVE TypeOK'
  <2>1. EmptyAfterRound(r) \in {"no", "counting", "due"}
    BY DEF EmptyAfterRound, TypeOK
  <2>2. CASE StartRound(r)
    BY <2>1, <2>2 DEF StartRound, Moves, TypeOK, netVars, listVars
  <2>3. CASE RoomStarts(r) \/ RoomStops(r) \/ DecideToEnd(r) \/ EmptyTimePasses(r)
    BY <2>3 DEF RoomStarts, RoomStops, DecideToEnd, EmptyTimePasses, Moves, TypeOK, netVars,
                listVars
  <2>4. CASE UpdateMovingPlayer(r) \/ Relocate(r) \/ EndRound(r) \/ DestroyRoom(r)
    BY <2>4 DEF UpdateMovingPlayer, Relocate, EndRound, DestroyRoom, Unlist, Moves, TypeOK, netVars,
                listVars
  <2>5. CASE DeleteRoom(r)
    BY <2>5 DEF DeleteRoom, Moves, TypeOK, netVars, listVars
  <2> QED BY <1>3, <2>2, <2>3, <2>4, <2>5 DEF RoomThread
<1>4. CASE UNCHANGED vars
  BY <1>4 DEF vars, netVars, listVars, TypeOK
<1> QED BY <1>1, <1>2, <1>3, <1>4 DEF Next

\* The main thread only takes flags, one room at a time.
LEMMA MainChanges ==
    ASSUME TypeOK, MainThread
    PROVE  /\ UNCHANGED <<net, thread, empty, roomId, roomMap, lastRoomId>>
           /\ main' \in {"console", "joinNetwork"} => main \in {"console", "joinNetwork"}
           /\ \A r \in Rooms : flag'[r] = flag[r] \/ (StopRoom /\ r = target)
BY DEF MainThread, Exit, NetworkJoined, LockList, NextTarget, StopRoom, ReadThread, RoomJoined,
       netVars, listVars, TypeOK

\* The network thread only adds rooms, each with an id of its own.
LEMMA NetworkChanges ==
    ASSUME TypeOK, NetworkThread
    PROVE  /\ UNCHANGED <<main, target, locked, flag, empty>> /\ net # "stopped"
           /\ \/ UNCHANGED <<thread, roomMap, lastRoomId>>
              \/ /\ lastRoomId + 1 \in Rooms /\ lastRoomId' = lastRoomId + 1
                 /\ roomMap' = roomMap \cup {lastRoomId + 1}
                 /\ thread' = [thread EXCEPT ![lastRoomId + 1] = "starting"]
BY DEF NetworkThread, NetworkStarts, NetworkTurn, NetworkLoops, LookUpRoom, CreateRoom, UseRoom,
       netVars, listVars

\* A room's thread changes only that room: it leaves its loop when its flag is
\* taken, or by DestroyRoom.
LEMMA RoomChanges ==
    ASSUME TypeOK, NEW r \in Rooms, RoomThread(r) \/ EmptyTimePasses(r)
    PROVE  /\ UNCHANGED <<main, target, locked, net, lastRoomId>>
           /\ \A s \in Rooms : s # r => thread'[s] = thread[s] /\ flag'[s] = flag[s]
           /\ roomMap' = roomMap \/ (roomMap' = roomMap \ {r} /\ thread'[r] = "left")
           /\ thread[r] \in OutOfLoop => thread'[r] \in OutOfLoop
           /\ thread'[r] \in InLoop =>
                  flag'[r] \/ (thread[r] \in InLoop /\ flag'[r] = flag[r])
           /\ thread'[r] \in OutOfLoop =>
                  \/ thread[r] \in OutOfLoop
                  \/ thread[r] = "loop" /\ ~flag[r]
                  \/ ~locked /\ roomMap' = roomMap \ {r}
<1>1. CASE RoomStarts(r)
  BY <1>1 DEF RoomStarts, Moves, InLoop, OutOfLoop, TypeOK, netVars, listVars
<1>2. CASE RoomStops(r)
  BY <1>2 DEF RoomStops, Moves, InLoop, OutOfLoop, TypeOK, netVars, listVars
<1>3. CASE DecideToEnd(r)
  BY <1>3 DEF DecideToEnd, Moves, InLoop, OutOfLoop, TypeOK, netVars, listVars
<1>4. CASE StartRound(r)
  BY <1>4 DEF StartRound, Moves, InLoop, OutOfLoop, TypeOK, netVars, listVars
<1>5. CASE UpdateMovingPlayer(r) \/ Relocate(r) \/ EndRound(r)
  BY <1>5 DEF UpdateMovingPlayer, Relocate, EndRound, Moves, InLoop, OutOfLoop, TypeOK, netVars,
              listVars
<1>6. CASE DestroyRoom(r)
  BY <1>6 DEF DestroyRoom, Unlist, Moves, InLoop, OutOfLoop, TypeOK, netVars
<1>7. CASE DeleteRoom(r)
  BY <1>7 DEF DeleteRoom, Moves, InLoop, OutOfLoop, TypeOK, netVars, listVars
<1>8. CASE EmptyTimePasses(r)
  BY <1>8 DEF EmptyTimePasses, InLoop, OutOfLoop, TypeOK, netVars, listVars
<1> QED BY <1>1, <1>2, <1>3, <1>4, <1>5, <1>6, <1>7, <1>8 DEF RoomThread

\* The network thread stays stopped, and the main thread goes on only then.
LEMMA NetworkOverStep ==
    ASSUME TypeOK, NetworkOver, [Next]_vars
    PROVE  NetworkOver'
<1>1. CASE MainThread
  BY <1>1 DEF MainThread, Exit, NetworkJoined, LockList, NextTarget, StopRoom, ReadThread,
              RoomJoined, netVars, NetworkOver
<1>2. CASE NetworkThread
  BY <1>2, NetworkChanges DEF NetworkOver
<1>3. CASE SomeRoom
  BY <1>3, RoomChanges DEF SomeRoom, NetworkOver
<1>4. CASE UNCHANGED vars
  BY <1>4 DEF vars, netVars, NetworkOver
<1> QED BY <1>1, <1>2, <1>3, <1>4 DEF Next, SomeRoom

\* A room is erased only when its thread has left the loop.
LEMMA RunningListedStep ==
    ASSUME TypeOK, RunningListed, [Next]_vars
    PROVE  RunningListed'
<1>r. lastRoomId \in Int /\ roomMap \subseteq Int /\ Rooms \subseteq Int
  BY RoomsAssumption DEF TypeOK, Rooms
<1>1. CASE MainThread
  BY <1>1, MainChanges DEF RunningListed
<1>2. CASE NetworkThread
  <2>1. CASE UNCHANGED <<thread, roomMap, lastRoomId>>
    BY <2>1 DEF RunningListed
  <2>2. CASE /\ lastRoomId + 1 \in Rooms /\ lastRoomId' = lastRoomId + 1
             /\ roomMap' = roomMap \cup {lastRoomId + 1}
             /\ thread' = [thread EXCEPT ![lastRoomId + 1] = "starting"]
    <3>1. \A r \in Rooms : r # lastRoomId + 1 => thread'[r] = thread[r]
      BY <2>2 DEF TypeOK
    <3>2. \A r \in roomMap' : r <= lastRoomId'
      BY <1>r, <2>2 DEF RunningListed
    <3> QED BY <2>2, <3>1, <3>2 DEF RunningListed
  <2> QED BY <1>2, <2>1, <2>2, NetworkChanges
<1>3. ASSUME NEW r \in Rooms, RoomThread(r) \/ EmptyTimePasses(r) PROVE RunningListed'
  <2>1. \A s \in Rooms : thread'[s] \notin OutOfLoop => thread[s] \notin OutOfLoop
    BY <1>3, RoomChanges
  <2>2. roomMap' = roomMap \/ (roomMap' = roomMap \ {r} /\ thread'[r] \in OutOfLoop)
    BY <1>3, RoomChanges DEF OutOfLoop
  <2> QED BY <1>3, <2>1, <2>2, RoomChanges DEF RunningListed
<1>4. CASE UNCHANGED vars
  BY <1>4 DEF vars, listVars, RunningListed
<1> QED BY <1>1, <1>2, <1>3, <1>4 DEF Next

\* A room that clears its own flag leaves the loop with it.
LEMMA FlagKeptStep ==
    ASSUME TypeOK, FlagKept, [Next]_vars
    PROVE  FlagKept'
<1>1. CASE MainThread
  <2>1. CASE Exit \/ NetworkJoined \/ LockList
    <3>1. main \notin {"readThread", "joinRoom"}
      BY <2>1 DEF Exit, NetworkJoined, LockList
    <3>2. flag' = flag /\ thread' = thread
      BY <2>1 DEF Exit, NetworkJoined, LockList
    <3> QED BY <3>1, <3>2 DEF FlagKept
  <2>2. CASE StopRoom
    BY <2>2 DEF StopRoom, FlagKept, TypeOK
  <2>3. CASE ReadThread
    BY <2>3 DEF ReadThread, FlagKept
  <2>4. CASE RoomJoined
    <3>1. thread[target] = "deleted" /\ flag' = flag /\ thread' = thread
      BY <2>4 DEF RoomJoined
    <3> QED BY <3>1 DEF FlagKept, InLoop
  <2> QED BY <1>1, <2>1, <2>2, <2>3, <2>4 DEF MainThread
<1>2. CASE NetworkThread
  <2>1. \A r \in Rooms : thread'[r] \in InLoop => thread[r] \in InLoop
    BY <1>2, NetworkChanges DEF TypeOK, InLoop
  <2> QED BY <1>2, <2>1, NetworkChanges DEF FlagKept
<1>3. ASSUME NEW r \in Rooms, RoomThread(r) \/ EmptyTimePasses(r) PROVE FlagKept'
  BY <1>3, RoomChanges DEF FlagKept
<1>4. CASE UNCHANGED vars
  BY <1>4 DEF vars, FlagKept
<1> QED BY <1>1, <1>2, <1>3, <1>4 DEF Next

\* Shutdown ends the rooms one after the other, and none comes back.
LEMMA ShutdownStep ==
    ASSUME TypeOK, NetworkOver, RunningListed, ShutdownOrder, StoppedAfterExit, [Next]_vars
    PROVE  ShutdownOrder' /\ StoppedAfterExit'
<1>r. Rooms \subseteq Int /\ target \in Int /\ roomMap \subseteq Rooms
  BY RoomsAssumption DEF TypeOK, Rooms, NoRoom
<1>s. StoppedAfterExit <=> (main = "exited" =>
                               net = "stopped" /\ \A r \in Rooms : thread[r] \in OutOfLoop)
  BY DEF StoppedAfterExit, OutOfLoop
<1>p. StoppedAfterExit' <=> (main' = "exited" =>
                               net' = "stopped" /\ \A r \in Rooms : thread'[r] \in OutOfLoop)
  BY DEF StoppedAfterExit, OutOfLoop
<1>1. CASE MainThread
  <2>1. CASE Exit \/ NetworkJoined
    BY <2>1 DEF Exit, NetworkJoined, ShutdownOrder, StoppedAfterExit, ShuttingRooms
  <2>2. CASE StopRoom \/ ReadThread
    BY <2>2 DEF StopRoom, ReadThread, ShutdownOrder, StoppedAfterExit, ShuttingRooms
  <2>3. CASE LockList \/ RoomJoined
    <3>1. PICK r \in Rooms \cup {NoRoom} :
              /\ NextTarget(r)
              /\ \A s \in Rooms : s <= r => thread[s] \in OutOfLoop
      <4>1. CASE LockList
        BY <1>r, <4>1 DEF LockList, Rooms, NoRoom
      <4>2. CASE RoomJoined
        <5>1. \A s \in Rooms : s < target => thread[s] \in OutOfLoop
          BY <4>2 DEF RoomJoined, ShutdownOrder, ShuttingRooms
        <5>2. \A s \in Rooms : s <= target => thread[s] \in OutOfLoop
          BY <1>r, <4>2, <5>1 DEF RoomJoined, OutOfLoop
        <5> QED BY <4>2, <5>2 DEF RoomJoined, TypeOK
      <4> QED BY <2>3, <4>1, <4>2
    <3>2. net' = net /\ thread' = thread /\ net = "stopped"
      BY <2>3 DEF LockList, RoomJoined, netVars, NetworkOver
    <3>3. r \in Int
      BY <1>r DEF NoRoom
    <3>4. CASE main' = "exited" /\ \A s \in roomMap : s <= r
      <4>1. \A s \in Rooms : thread[s] \in OutOfLoop
        BY <3>1, <3>4 DEF RunningListed
      <4> QED BY <1>p, <3>2, <3>4, <4>1 DEF ShutdownOrder, ShuttingRooms
    <3>5. CASE /\ main' = "stopRoom" /\ target' \in roomMap /\ locked' = TRUE
               /\ \A s \in roomMap : s > r => target' <= s
      <4>1. ASSUME NEW s \in Rooms, s < target' PROVE thread[s] \in OutOfLoop
        <5>1. s \notin roomMap \/ s <= r
          BY <1>r, <3>3, <3>5, <4>1
        <5> QED BY <3>1, <5>1 DEF RunningListed
      <4> QED BY <1>p, <1>r, <3>2, <3>5, <4>1 DEF ShutdownOrder
    <3> QED BY <1>r, <3>1, <3>4, <3>5, NextTargetLemma
  <2> QED BY <1>1, <2>1, <2>2, <2>3 DEF MainThread
<1>2. CASE NetworkThread
  <2>1. main' = main /\ main \in {"console", "joinNetwork"}
    BY <1>2, NetworkChanges DEF NetworkOver
  <2> QED BY <2>1 DEF ShutdownOrder, StoppedAfterExit, ShuttingRooms
<1>3. ASSUME NEW r \in Rooms, RoomThread(r) \/ EmptyTimePasses(r)
      PROVE  ShutdownOrder' /\ StoppedAfterExit'
  <2>1. \A s \in Rooms : thread[s] \in OutOfLoop => thread'[s] \in OutOfLoop
    BY <1>3, RoomChanges
  <2> QED BY <1>3, <1>s, <1>p, <2>1, RoomChanges DEF ShutdownOrder
<1>4. CASE UNCHANGED vars
  BY <1>4 DEF vars, netVars, ShutdownOrder, StoppedAfterExit
<1> QED BY <1>1, <1>2, <1>3, <1>4 DEF Next

\* Nobody but Shutdown makes a listed room leave its loop.
LEMMA ListedRoomsLiveStep ==
    ASSUME TypeOK, RunningListed, FlagKept, ListedRoomsLive, [Next]_vars
    PROVE  ListedRoomsLive'
<1>0. ListedRoomsLive <=> (main \in {"console", "joinNetwork", "lockList"} =>
                              \A r \in roomMap : thread[r] \notin OutOfLoop)
  BY DEF ListedRoomsLive, OutOfLoop
<1>p. ListedRoomsLive' <=> (main' \in {"console", "joinNetwork", "lockList"} =>
                              \A r \in roomMap' : thread'[r] \notin OutOfLoop)
  BY DEF ListedRoomsLive, OutOfLoop
<1>1. CASE MainThread
  BY <1>1 DEF MainThread, Exit, NetworkJoined, LockList, NextTarget, StopRoom, ReadThread,
              RoomJoined, listVars, ListedRoomsLive
<1>2. CASE NetworkThread
  <2>1. main' = main
    BY <1>2, NetworkChanges
  <2>2. CASE UNCHANGED <<thread, roomMap>>
    BY <1>0, <1>p, <2>1, <2>2
  <2>3. CASE /\ lastRoomId + 1 \in Rooms /\ roomMap' = roomMap \cup {lastRoomId + 1}
             /\ thread' = [thread EXCEPT ![lastRoomId + 1] = "starting"]
    <3>1. \A r \in Rooms : thread'[r] = IF r = lastRoomId + 1 THEN "starting" ELSE thread[r]
      BY <2>3 DEF TypeOK
    <3>2. "starting" \notin OutOfLoop
      BY DEF OutOfLoop
    <3> QED BY <1>0, <1>p, <2>1, <2>3, <3>1, <3>2 DEF TypeOK
  <2> QED BY <1>2, <2>2, <2>3, NetworkChanges
<1>3. ASSUME NEW r \in Rooms, RoomThread(r) \/ EmptyTimePasses(r) PROVE ListedRoomsLive'
  <2>1. SUFFICES ASSUME main \in {"console", "joinNetwork", "lockList"}, NEW s \in roomMap',
                        thread'[s] \in OutOfLoop
                 PROVE  FALSE
    BY <1>3, <1>p, RoomChanges
  <2>2. s \in roomMap /\ s \in Rooms /\ thread[s] \notin OutOfLoop
    BY <1>0, <1>3, <2>1, RoomChanges DEF TypeOK
  <2>3. s = r /\ roomMap' = roomMap
    BY <1>3, <2>1, <2>2, RoomChanges
  <2>4. thread[r] = "loop" /\ ~flag[r]
    BY <1>3, <2>1, <2>2, <2>3, RoomChanges
  <2> QED BY <2>1, <2>4 DEF FlagKept, InLoop
<1>4. CASE UNCHANGED vars
  BY <1>4 DEF vars, listVars, ListedRoomsLive
<1> QED BY <1>1, <1>2, <1>3, <1>4 DEF Next

-----------------------------------------------------------------------------
(* The theorems. *)

\* Only the default room is listed at the beginning, and its thread starts.
LEMMA InitInv == Init => IInv
<1> SUFFICES ASSUME Init PROVE IInv
  OBVIOUS
<1>1. Rooms \subseteq Int /\ DefaultRoom \in Rooms /\ DefaultRoom \in Int
  BY RoomsAssumption DEF Rooms, DefaultRoom
<1>2. TypeOK
  BY <1>1 DEF Init, TypeOK
<1>3. thread[DefaultRoom] = "starting"
         /\ \A r \in Rooms : r # DefaultRoom => thread[r] = "unborn"
  BY <1>1 DEF Init
<1>4. RunningListed
  BY <1>1, <1>3 DEF Init, RunningListed, OutOfLoop
<1>5. FlagKept /\ ListedRoomsLive
  BY <1>1, <1>3 DEF Init, FlagKept, ListedRoomsLive, InLoop
<1>6. NetworkOver /\ ShutdownOrder /\ StoppedAfterExit
  BY DEF Init, NetworkOver, ShutdownOrder, StoppedAfterExit, ShuttingRooms
<1> QED BY <1>2, <1>4, <1>5, <1>6 DEF IInv

\* Every step keeps the invariant.
LEMMA NextInv == IInv /\ [Next]_vars => IInv'
BY TypeStep, NetworkOverStep, RunningListedStep, FlagKeptStep, ShutdownStep, ListedRoomsLiveStep
   DEF IInv

\* The invariant holds in every behaviour.
THEOREM Invariance == Spec => []IInv
BY InitInv, NextInv, PTL DEF Spec

\* The variables have their types.
THEOREM TypeCorrect == Spec => []TypeOK
<1>1. IInv => TypeOK
  BY DEF IInv
<1> QED BY <1>1, Invariance, PTL

\* A room found in the list is live, until Shutdown begins to stop the rooms.
THEOREM ListedAreLive == Spec => []ListedRoomsLive
<1>1. IInv => ListedRoomsLive
  BY DEF IInv
<1> QED BY <1>1, Invariance, PTL

\* A Shutdown that returns leaves no thread in its loop.
THEOREM ExitStopsAll == Spec => []StoppedAfterExit
<1>1. IInv => StoppedAfterExit
  BY DEF IInv
<1> QED BY <1>1, Invariance, PTL


\* A player that its room has taken note of keeps the room: its thread cannot
\* decide to end it, and ids are not given out twice.
THEOREM SettledKeepTheirRoom == Spec => SettledStays
<1> DEFINE stopped(p) == main \in {"readThread", "joinRoom"} /\ target = roomId[p]
           Step == \A p \in Players :
                       Settled(p) /\ roomId'[p] = roomId[p] /\ ~stopped(p) => Settled(p)'
<1>1. IInv /\ [Next]_vars => Step
  <2> SUFFICES ASSUME IInv, [Next]_vars, NEW p \in Players, Settled(p), roomId'[p] = roomId[p],
                      ~stopped(p)
               PROVE  Settled(p)'
    OBVIOUS
  <2>0. PICK r \in Rooms : r = roomId[p]
    BY DEF Settled, IInv, TypeOK
  <2>1. r # DefaultRoom /\ r # NoRoom /\ r \in roomMap /\ empty[r] = "no" /\ thread[r] \in InLoop
    BY <2>0 DEF Settled, InLoop
  <2>2. flag[r]
    BY <2>0, <2>1 DEF IInv, FlagKept
  <2>3. TypeOK
    BY DEF IInv
  <2>4. SUFFICES r \in roomMap' /\ empty'[r] = "no" /\ thread'[r] \in InLoop
    BY <2>0, <2>1 DEF Settled, InLoop
  <2>5. CASE MainThread
    BY <2>1, <2>3, <2>5, MainChanges
  <2>6. CASE NetworkThread
    <3>1. r <= lastRoomId /\ r \in Int /\ lastRoomId \in Int
      BY <2>1, <2>3, RoomsAssumption DEF IInv, RunningListed, TypeOK, Rooms
    <3>2. thread'[r] = thread[r] /\ roomMap \subseteq roomMap' /\ empty' = empty
      BY <2>3, <2>6, <3>1, NetworkChanges DEF TypeOK
    <3> QED BY <2>1, <3>2
  <2>7. ASSUME NEW s \in Rooms, RoomThread(s) \/ EmptyTimePasses(s), s # r
        PROVE  r \in roomMap' /\ empty'[r] = "no" /\ thread'[r] \in InLoop
    <3>1. empty'[r] = empty[r]
      BY <2>3, <2>7 DEF RoomThread, EmptyTimePasses, RoomStarts, RoomStops, DecideToEnd, StartRound,
                        UpdateMovingPlayer, Relocate, EndRound, DestroyRoom, DeleteRoom, TypeOK
    <3> QED BY <2>1, <2>3, <2>7, <3>1, RoomChanges
  <2>8. CASE RoomThread(r) \/ EmptyTimePasses(r)
    <3>1. CASE StartRound(r)
      <4>1. EmptyAfterRound(r) = "no"
        BY <2>0, <2>1 DEF EmptyAfterRound, Occupied
      <4> QED BY <2>1, <2>3, <3>1, <4>1 DEF StartRound, Moves, InLoop, TypeOK, listVars
    <3>2. CASE UpdateMovingPlayer(r) \/ Relocate(r) \/ EndRound(r)
      BY <2>1, <2>3, <3>2
         DEF UpdateMovingPlayer, Relocate, EndRound, Moves, InLoop, TypeOK, listVars
    <3>3. ~(RoomStarts(r) \/ RoomStops(r) \/ DestroyRoom(r) \/ DeleteRoom(r))
      BY <2>1, <2>2 DEF RoomStarts, RoomStops, DestroyRoom, DeleteRoom, Moves, InLoop
    <3>4. ~(DecideToEnd(r) \/ EmptyTimePasses(r))
      BY <2>1 DEF DecideToEnd, ToBeEnded, EmptyTimePasses
    <3> QED BY <2>8, <3>1, <3>2, <3>3, <3>4 DEF RoomThread
  <2>9. CASE UNCHANGED vars
    BY <2>1, <2>9 DEF vars, listVars
  <2> QED BY <2>5, <2>6, <2>7, <2>8, <2>9 DEF Next
<1>2. IInv /\ [Next]_vars => [Step]_vars
  BY <1>1
<1>3. [][Step]_vars <=> SettledStays
  BY DEF SettledStays
<1> QED BY <1>2, <1>3, Invariance, PTL DEF Spec

=============================================================================
