---------------------------- MODULE World_proofs ----------------------------
(***************************************************************************)
(* Proofs about World for every grid, offset and set of players: the cells *)
(* hold every player that no race has met exactly where it is, and every   *)
(* client has been told of all it can see, and only of those in the room.  *)
(***************************************************************************)
EXTENDS World, TLAPS

-----------------------------------------------------------------------------
(* The areas of the visibility searches, for grids of every size: the two  *)
(* ways of computing them agree, and creations and destructions cover      *)
(* exactly what comes into and goes out of sight.                          *)

\* A coordinate is between the clamped borders exactly if it is in the grid
\* and at most Offset away (GridSearchers.cpp:97-104).
LEMMA BorderLemma ==
    ASSUME NEW n \in Nat \ {0}, NEW x \in 0 .. n - 1, NEW d \in Int
    PROVE  /\ Low(x) \in Int /\ High(x, n) \in Int
           /\ (d >= Low(x) /\ d <= High(x, n))
                 <=> (d \in 0 .. n - 1 /\ \E i \in -Offset .. Offset : d = x + i)
<1>1. Offset \in Nat
  BY GridAssumption
<1>2. (\E i \in -Offset .. Offset : d = x + i) <=> (d - x >= -Offset /\ d - x <= Offset)
  <2>1. ASSUME d - x >= -Offset, d - x <= Offset PROVE \E i \in -Offset .. Offset : d = x + i
    <3>1. d - x \in -Offset .. Offset /\ d = x + (d - x)
      BY <1>1, <2>1
    <3> QED BY <3>1
  <2>2. ASSUME NEW i \in -Offset .. Offset, d = x + i PROVE d - x >= -Offset /\ d - x <= Offset
    BY <1>1, <2>2
  <2> QED BY <2>1, <2>2
<1> QED BY <1>1, <1>2 DEF Low, High

\* The window of clamped borders is the near area found by skipping.
LEMMA InWindowIsNear ==
    ASSUME NEW c \in Cells, NEW d \in Int \X Int
    PROVE  InWindow(d, c) <=> d \in Near(c)
<1>1. c[1] \in 0 .. GridX - 1 /\ c[2] \in 0 .. GridY - 1 /\ d[1] \in Int /\ d[2] \in Int
  BY DEF Cells
<1>2. d \in Cells <=> d[1] \in 0 .. GridX - 1 /\ d[2] \in 0 .. GridY - 1
  BY DEF Cells
<1>3. (d[1] >= Low(c[1]) /\ d[1] <= High(c[1], GridX))
          <=> (d[1] \in 0 .. GridX - 1 /\ \E i \in -Offset .. Offset : d[1] = c[1] + i)
  BY <1>1, BorderLemma, GridAssumption
<1>4. (d[2] >= Low(c[2]) /\ d[2] <= High(c[2], GridY))
          <=> (d[2] \in 0 .. GridY - 1 /\ \E j \in -Offset .. Offset : d[2] = c[2] + j)
  BY <1>1, BorderLemma, GridAssumption
<1> QED BY <1>2, <1>3, <1>4 DEF InWindow, Near

\* The cells the loops over a window visit are the near cells.
THEOREM WindowIsNear == \A c \in Cells : Window(c) = Near(c)
<1> SUFFICES ASSUME NEW c \in Cells PROVE Window(c) = Near(c)
  OBVIOUS
<1>1. Low(c[1]) \in Int /\ High(c[1], GridX) \in Int
  BY BorderLemma, GridAssumption DEF Cells
<1>2. Low(c[2]) \in Int /\ High(c[2], GridY) \in Int
  BY BorderLemma, GridAssumption DEF Cells
<1>3. Window(c) \subseteq Int \X Int /\ Near(c) \subseteq Int \X Int
  <2>1. Window(c) \subseteq Int \X Int
    BY <1>1, <1>2 DEF Window
  <2>2. Near(c) \subseteq Int \X Int
    BY GridAssumption DEF Near, Cells
  <2> QED BY <2>1, <2>2
<1>4. ASSUME NEW d \in Int \X Int PROVE d \in Window(c) <=> InWindow(d, c)
  BY <1>1, <1>2 DEF Window, InWindow
<1> QED BY <1>3, <1>4, InWindowIsNear

\* A move from one cell to another destroys exactly what was near and is not
\* any more (GridSearchers.cpp:106-119).
THEOREM DestroysWhatGoes ==
    \A old, new \in Cells : DestroyArea(old, new) = Near(old) \ Near(new)
<1> SUFFICES ASSUME NEW old \in Cells, NEW new \in Cells
             PROVE  DestroyArea(old, new) = Near(old) \ Near(new)
  OBVIOUS
<1>1. DestroyArea(old, new) = {d \in Near(old) : ~InWindow(d, new)}
  BY WindowIsNear DEF DestroyArea
<1>2. Near(old) \subseteq Int \X Int
  BY GridAssumption DEF Near, Cells
<1> QED BY <1>1, <1>2, InWindowIsNear

\* It creates exactly what was not near and is now (GridSearchers.cpp:121-134
\* for the others, 169-179 for the mover itself).
THEOREM CreatesWhatComes ==
    \A old, new \in Cells : CreateArea(old, new) = Near(new) \ Near(old)
<1> SUFFICES ASSUME NEW old \in Cells, NEW new \in Cells
             PROVE  CreateArea(old, new) = Near(new) \ Near(old)
  OBVIOUS
<1>1. CreateArea(old, new) = {d \in Near(new) : ~InWindow(d, old)}
  BY WindowIsNear DEF CreateArea
<1>2. Near(new) \subseteq Int \X Int
  BY GridAssumption DEF Near, Cells
<1> QED BY <1>1, <1>2, InWindowIsNear

\* Sight is mutual: whoever is told of a player is one the player is told of.
THEOREM SightIsMutual == \A c, d \in Cells : d \in Near(c) <=> c \in Near(d)
<1>1. ASSUME NEW c \in Cells, NEW d \in Cells, d \in Near(c) PROVE c \in Near(d)
  <2>1. PICK i \in -Offset .. Offset : d[1] = c[1] + i
    BY <1>1 DEF Near
  <2>2. PICK j \in -Offset .. Offset : d[2] = c[2] + j
    BY <1>1 DEF Near
  <2>3. c[1] \in Int /\ c[2] \in Int
    BY GridAssumption DEF Cells
  <2>4. -i \in -Offset .. Offset /\ c[1] = d[1] + -i
    BY <2>1, <2>3, GridAssumption
  <2>5. -j \in -Offset .. Offset /\ c[2] = d[2] + -j
    BY <2>2, <2>3, GridAssumption
  <2> QED BY <2>4, <2>5 DEF Near
<1> QED BY <1>1

-----------------------------------------------------------------------------
(* The inductive invariant. *)

\* What is unused has its idle value, and the network thread does one thing
\* at a time.
Structure ==
    /\ \A t \in Threads : reloc[t].who = Nobody <=> reloc[t].step = "none"
    /\ \A t \in Threads : reloc[t].who = Nobody => reloc[t] = NoCall
    /\ net.who = Nobody <=> net.step = "idle"
    /\ net.who = Nobody => net = Idle
    /\ reloc["net"] # NoCall => net = Idle
    /\ net.step # "send" => net.seen = {}
    /\ net.step \in {"push", "announce", "reset"} => net.cell \in Cells

\* A clean player is changed by one thread at most
Alone(p) ==
    reloc["room"].who = p =>
        /\ reloc["net"].who # p
        /\ net.who = p => net.step \in {"snapshot", "send"} /\ net.cell = Outside

Relocated(p) ==
    \A t \in Threads :
        reloc[t].who = p =>
            /\ listed[p] = {reloc[t].old} /\ p \in member /\ ~dead[p]
            /\ reloc[t].step = "write" => pos[p] = reloc[t].old
            /\ reloc[t].step \in {"lock", "apply"} => pos[p] \in Cells

Placed(p) ==
    net.who = p =>
        /\ p \in member
        /\ net.step = "push" => listed[p] = {} /\ net.cell = pos[p] /\ pos[p] \in Cells
        /\ net.step = "announce" => net.cell = pos[p]
        /\ net.step \in {"announce", "reset"} => listed[p] = {pos[p]} /\ net.cell # Outside
        /\ net.step \in {"snapshot", "send"} /\ net.cell # Outside => ~moving[p]
        /\ net.step \in {"snapshot", "send"} /\ reloc["room"].who # p =>
              listed[p] \in {{}, {pos[p]}}
        /\ net.step \in {"snapshot", "send"} /\ dead[p] => listed[p] = {}
        /\ net.step \in {"eaten", "kill"} => listed[p] \in {{}, {pos[p]}}
        /\ net.step = "leave" => listed[p] = {}

Resting(p) ==
    AtRest(p) => /\ listed[p] \in {{}, {pos[p]}}
                 /\ p \notin member \/ dead[p] => listed[p] = {}

PlayerInv(p) == Clean(p) => Alone(p) /\ Relocated(p) /\ Placed(p) /\ Resting(p)

GridInv == TypeOK /\ Structure /\ \A p \in Players : PlayerInv(p)

\* What the client of p has been told, or is about to be told by the world
\* that the network thread is sending it
SeenBy(p) == IF net.who = p THEN told[p] \cup net.seen ELSE told[p]

MembersInv ==
    \A q \in Players :
        Clean(q) => /\ \A p \in member : q \in told[p] => q \in member
                    /\ q \in net.seen => q \in member

InSight(p, q) == \E c \in listed[p], d \in listed[q] : d \in Near(c)

\* The pairs of which p's client has to know q: p's own world is not being
\* built, and q has been announced if it is being placed
Due(p, q) ==
    /\ Clean(p) /\ Clean(q) /\ p # q
    /\ net.who = p => net.step = "send" \/ (net.step = "snapshot" /\ net.cell = Outside)
    /\ net.who = q => net.step \in {"reset", "snapshot", "send"}

ToldInv == \A p, q \in Players : Due(p, q) /\ InSight(p, q) => q \in SeenBy(p)

IInv == GridInv /\ MembersInv /\ ToldInv

-----------------------------------------------------------------------------
(* Types and structure. *)

\* Every step keeps the types, and what is unused idle.
LEMMA TypeStep ==
    ASSUME TypeOK, Structure, [Next]_vars
    PROVE  TypeOK' /\ Structure'
<1> USE DEF Threads, NoThread
<1>n. Nobody \notin Players /\ Outside \notin Cells
  BY NamesAssumption
<1>t. "net" \in Threads /\ "room" \in Threads
  OBVIOUS
<1>1. ASSUME NEW t \in Threads, NEW p \in Players, BeginRelocate(t, p), t = "net" => net = Idle
      PROVE  TypeOK' /\ Structure'
  <2>1. pos[p] \in Position
    BY DEF TypeOK
  <2>2. reloc' \in [Threads -> Call]
    BY <1>1, <2>1 DEF BeginRelocate, TypeOK, Call
  <2>3. raced' \subseteq Players /\ misplaced' \subseteq Players
    BY <1>1 DEF BeginRelocate, TypeOK, Races, Misplaces
  <2>4. TypeOK'
    BY <1>1, <2>2, <2>3 DEF BeginRelocate, TypeOK
  <2>5. Structure'
    BY <1>1, <1>n DEF BeginRelocate, Structure, TypeOK, NoCall, Call
  <2> QED BY <2>4, <2>5
<1>2. ASSUME NEW t \in Threads, WritePosition(t) PROVE TypeOK' /\ Structure'
  <2>a. pos' \in [Players -> Position]
    BY <1>2 DEF WritePosition, TypeOK
  <2>b. reloc' \in [Threads -> Call]
    BY <1>2 DEF WritePosition, TypeOK, Call
  <2>1. TypeOK'
    BY <1>2, <2>a, <2>b DEF WritePosition, TypeOK, history
  <2>2. Structure'
    BY <1>2, <1>n DEF WritePosition, At, Structure, TypeOK, NoCall, Call
  <2> QED BY <2>1, <2>2
<1>3. ASSUME NEW t \in Threads, ClampPosition(t) PROVE TypeOK' /\ Structure'
  <2>1. TypeOK'
    BY <1>3 DEF ClampPosition, At, TypeOK, Call, NoCall, history, Position
  <2>2. Structure'
    BY <1>3, <1>n DEF ClampPosition, At, Structure, TypeOK, NoCall, Call
  <2> QED BY <2>1, <2>2
<1>4. ASSUME NEW t \in Threads, LockCells(t) PROVE TypeOK' /\ Structure'
  <2>1. TypeOK'
    BY <1>4 DEF LockCells, At, TypeOK, Call, history
  <2>2. Structure'
    BY <1>4, <1>n DEF LockCells, At, Structure, TypeOK, NoCall, Call
  <2> QED BY <2>1, <2>2
<1>5. ASSUME NEW t \in Threads, RelocatePlayer(t) PROVE TypeOK' /\ Structure'
  <2>1. reloc' \in [Threads -> Call] /\ Structure'
    BY <1>5, <1>n DEF RelocatePlayer, At, Structure, TypeOK, NoCall, Call, Position
  <2>2. reloc[t].who \in Players
    BY <1>5, <1>n DEF RelocatePlayer, At, Structure, TypeOK, Call
  <2>3. told' \in [Players -> SUBSET Players] /\ listed' \in [Players -> SUBSET Cells]
    <3> DEFINE p == reloc[t].who
               old == reloc[t].old
               new == pos[p]
               seen == [listed EXCEPT ![p] = (@ \ {old}) \cup {new}]
               at(S) == {q \in Players : seen[q] \cap S # {}}
    <3>1. TellMove(p, old, new) \in [Players -> SUBSET Players]
      <4>1. Destroy(told, p, at(DestroyArea(old, new))) \in [Players -> SUBSET Players]
        BY <2>2 DEF Destroy, TypeOK
      <4>2. Create(Destroy(told, p, at(DestroyArea(old, new))), p, at(CreateArea(old, new)))
               \in [Players -> SUBSET Players]
        BY <2>2, <4>1 DEF Create
      <4> QED BY <2>2, <4>2 DEF TellMove
    <3> QED BY <1>5, <2>2, <3>1 DEF RelocatePlayer, TypeOK
  <2>4. moving' \in [Players -> BOOLEAN]
    BY <1>5 DEF RelocatePlayer, TypeOK
  <2> QED BY <1>5, <2>1, <2>3, <2>4 DEF RelocatePlayer, TypeOK, history
<1>6. ASSUME NEW p \in Players, JoinRoom(p) \/ HandleRestoreSession(p)
      PROVE  TypeOK' /\ Structure'
  BY <1>6 DEF JoinRoom, HandleRestoreSession, TypeOK, Structure, history
<1>7. ASSUME NEW p \in Players, WorldRequest(p) PROVE TypeOK' /\ Structure'
  <2>1. Spots \subseteq Position
    BY DEF Spots, Position
  <2>a. pos' \in [Players -> Position]
    BY <1>7, <2>1 DEF WorldRequest, TypeOK
  <2>b. net' \in Handler
    BY <1>7, <2>1 DEF WorldRequest, TypeOK, Handler, Idle
  <2>c. raced' \subseteq Players /\ misplaced' \subseteq Players
    BY <1>7 DEF WorldRequest, TypeOK, Races, Misplaces
  <2>2. TypeOK'
    BY <1>7, <2>a, <2>b, <2>c DEF WorldRequest, TypeOK
  <2>3. Structure'
    BY <1>7, <1>n DEF WorldRequest, Structure, Idle, NetIdle, Spots
  <2> QED BY <2>2, <2>3
<1>8. ASSUME NEW p \in Players, WorldRequestAgain(p) PROVE TypeOK' /\ Structure'
  BY <1>8, <1>n DEF WorldRequestAgain, TypeOK, Structure, Handler, Idle, NetIdle, Position, history
<1>9. ASSUME NEW p \in Players, ExitRoom(p) PROVE TypeOK' /\ Structure'
  <2>1. TypeOK'
    BY <1>9 DEF ExitRoom, TypeOK, Handler, Idle, Races, RemovePlayerFromGrid, Unlocked, Position
  <2>2. Structure'
    BY <1>9, <1>n DEF ExitRoom, Structure, Idle, NetIdle
  <2> QED BY <2>1, <2>2
<1>10. ASSUME NEW p \in Players, NEW q \in Players, EatRequest(p, q) PROVE TypeOK' /\ Structure'
  <2>a. net' \in Handler
    <3>1. PICK victim \in Players : net' = [Idle EXCEPT !.step = "eaten", !.who = victim]
      BY <1>10 DEF EatRequest
    <3> QED BY <3>1 DEF Handler, Idle, Position
  <2>b. raced' \subseteq Players
    BY <1>10 DEF EatRequest, TypeOK, Races
  <2>1. TypeOK'
    BY <1>10, <2>a, <2>b DEF EatRequest, TypeOK
  <2>2. Structure'
    BY <1>10, <1>n DEF EatRequest, Structure, Idle, NetIdle
  <2> QED BY <2>1, <2>2
<1>11. ASSUME NEW from \in {"push", "announce", "reset", "eaten"},
              NEW to \in {"announce", "reset", "snapshot", "kill"}, Handles(from, to)
       PROVE  /\ net' \in Handler /\ net.who \in Players
              /\ UNCHANGED reloc /\ (to \in {"announce", "reset"} => from \in {"push", "announce"})
                    => Structure'
  BY <1>11, <1>n DEF Handles, TypeOK, Handler, Structure, Idle
<1>12. CASE PushPlayer
  <2>1. listed' \in [Players -> SUBSET Cells]
    <3>1. Handles("push", "announce")
      BY <1>12 DEF PushPlayer
    <3>2. net.cell \in Cells
      BY <3>1 DEF Handles, Structure
    <3> QED BY <1>12, <3>2 DEF PushPlayer, TypeOK
  <2> QED BY <1>11, <1>12, <2>1 DEF PushPlayer, TypeOK, Unlocked, history
<1>13. CASE AnnouncePlayer
  <2>1. told' \in [Players -> SUBSET Players]
    BY <1>11, <1>13 DEF AnnouncePlayer, TypeOK, Create
  <2> QED BY <1>11, <1>13, <2>1 DEF AnnouncePlayer, TypeOK, history
<1>14. CASE ResetPlayer
  BY <1>11, <1>14 DEF ResetPlayer, TypeOK, history
<1>15. CASE TellEaten
  <2>1. told' \in [Players -> SUBSET Players]
    BY <1>11, <1>15 DEF TellEaten, TypeOK, Destroy
  <2> QED BY <1>11, <1>15, <2>1 DEF TellEaten, TypeOK, history
<1>16. CASE SnapshotWorld
  <2>1. net' \in Handler
    BY <1>16 DEF SnapshotWorld, TypeOK, Handler, PlayersIn
  <2>2. Structure'
    BY <1>16, <1>n DEF SnapshotWorld, Structure, TypeOK, Handler, Idle
  <2> QED BY <1>16, <2>1, <2>2 DEF SnapshotWorld, TypeOK, history
<1>17. Idle \in Handler
  BY DEF Idle, Handler, Position
<1>18. net' = Idle /\ UNCHANGED reloc => Structure'
  BY <1>n DEF Idle, Structure
<1>19. CASE SendWorld
  <2>1. told' \in [Players -> SUBSET Players]
    BY <1>19 DEF SendWorld, TypeOK, Handler
  <2> QED BY <1>17, <1>18, <1>19, <2>1 DEF SendWorld, TypeOK, history
<1>20. CASE KillPlayer
  BY <1>17, <1>18, <1>20 DEF KillPlayer, RemovePlayerFromGrid, Unlocked, TypeOK, history
<1>21. CASE LeaveList
  <2>1. told' \in [Players -> SUBSET Players]
    BY <1>21 DEF LeaveList, TypeOK, Destroy
  <2> QED BY <1>17, <1>18, <1>21, <2>1 DEF LeaveList, TypeOK, history
<1>22. CASE UNCHANGED vars
  BY <1>22 DEF vars, history, TypeOK, Structure
<1>23. ASSUME NEW t \in Threads, Relocate(t) PROVE TypeOK' /\ Structure'
  BY <1>23, <1>2, <1>3, <1>4, <1>5 DEF Relocate
<1>24. CASE NetworkThread
  BY <1>24, <1>t, <1>1, <1>6, <1>7, <1>8, <1>9, <1>10, <1>12, <1>13, <1>14, <1>15, <1>16, <1>19,
     <1>20, <1>21, <1>23 DEF NetworkThread, HandleMove, NetIdle
<1>25. CASE RoomThread
  BY <1>25, <1>t, <1>1, <1>23 DEF RoomThread, UpdatePlayer
<1> QED BY <1>22, <1>24, <1>25 DEF Next

-----------------------------------------------------------------------------
(* The cells. *)

\* No step makes an unclean player clean again.
LEMMA CleanStep ==
    ASSUME [Next]_vars, NEW p \in Players, Clean(p)'
    PROVE  Clean(p)
<1>1. raced \subseteq raced' /\ misplaced \subseteq misplaced'
  <2>1. ASSUME NEW t, NEW q, Races(t, q) PROVE raced \subseteq raced'
    BY <2>1 DEF Races
  <2>2. ASSUME NEW q, NEW w, Misplaces(q, w) PROVE misplaced \subseteq misplaced'
    BY <2>2 DEF Misplaces
  <2>3. ASSUME NEW t, Relocate(t) PROVE UNCHANGED history
    BY <2>3 DEF Relocate, WritePosition, ClampPosition, LockCells, RelocatePlayer
  <2>4. ASSUME NEW t, NEW q, BeginRelocate(t, q)
        PROVE  raced \subseteq raced' /\ misplaced \subseteq misplaced'
    BY <2>1, <2>2, <2>4 DEF BeginRelocate
  <2>5. CASE NetworkThread
    BY <2>1, <2>2, <2>3, <2>4, <2>5
       DEF NetworkThread, HandleMove, JoinRoom, HandleRestoreSession, WorldRequest,
           WorldRequestAgain, ExitRoom, EatRequest, PushPlayer, AnnouncePlayer, ResetPlayer,
           SnapshotWorld, SendWorld, TellEaten, KillPlayer, LeaveList, history
  <2>6. CASE RoomThread
    BY <2>3, <2>4, <2>6 DEF RoomThread, UpdatePlayer, history
  <2>7. CASE UNCHANGED vars
    BY <2>7 DEF vars, history
  <2> QED BY <2>5, <2>6, <2>7 DEF Next
<1> QED BY <1>1 DEF Clean

\* A step leaves alone everything that concerns player p
Unaffected(p) ==
    /\ p \in member' <=> p \in member
    /\ pos'[p] = pos[p] /\ listed'[p] = listed[p] /\ dead'[p] = dead[p] /\ moving'[p] = moving[p]
    /\ \A t \in Threads : reloc'[t].who = p \/ reloc[t].who = p => reloc'[t] = reloc[t]
    /\ net'.who = p \/ net.who = p => net' = net

\* Such a step keeps its invariant.
LEMMA UnaffectedStep ==
    ASSUME NEW p \in Players, PlayerInv(p), Unaffected(p), Clean(p)' => Clean(p)
    PROVE  PlayerInv(p)'
<1> SUFFICES ASSUME Clean(p)' PROVE (Alone(p) /\ Relocated(p) /\ Placed(p) /\ Resting(p))'
  BY DEF PlayerInv
<1> USE DEF Threads
<1>1. Alone(p) /\ Relocated(p) /\ Placed(p) /\ Resting(p)
  BY DEF PlayerInv
<1>2. Alone(p)'
  BY <1>1 DEF Alone, Unaffected
<1>3. Relocated(p)'
  BY <1>1 DEF Relocated, Unaffected
<1>4. Placed(p)'
  <2>1. CASE net.who = p
    BY <1>1, <2>1 DEF Placed, Unaffected
  <2>2. CASE net.who # p
    BY <2>2 DEF Placed, Unaffected
  <2> QED BY <2>1, <2>2
<1>5. Resting(p)'
  BY <1>1 DEF Resting, AtRest, Unaffected
<1> QED BY <1>2, <1>3, <1>4, <1>5

\* A call of Relocate begins with the player in the cell of its position.
LEMMA BeginRelocateStep ==
    ASSUME GridInv, NEW t \in Threads, NEW p \in Players, BeginRelocate(t, p), p \in member,
           t = "net" => net = Idle,
           t = "room" => moving[p] /\ ~dead[p],
           NEW q \in Players, Clean(q)' => Clean(q)
    PROVE  PlayerInv(q)'
<1>n. Nobody \notin Players
  BY NamesAssumption
<1>1. CASE q # p
  <2>1. Unaffected(q)
    BY <1>1, <1>n DEF BeginRelocate, Unaffected, GridInv, TypeOK, Call, NoCall, Threads
  <2> QED BY <2>1, UnaffectedStep DEF GridInv
<1>2. CASE q = p
  <2> SUFFICES ASSUME Clean(p)' PROVE (Alone(p) /\ Relocated(p) /\ Placed(p) /\ Resting(p))'
    BY <1>2 DEF PlayerInv
  <2>1. Alone(p) /\ Relocated(p) /\ Placed(p) /\ Resting(p)
    BY <1>2 DEF PlayerInv, GridInv
  <2>2. listed[p] # {} /\ \A u \in Threads : u # t => reloc[u].who # p
    BY DEF BeginRelocate, Clean, Races, Misplaces
  <2>3. reloc[t].who # p /\ reloc'[t].who = p /\ reloc'[t].step = "write" /\ reloc'[t].old = pos[p]
    BY <1>n DEF BeginRelocate, GridInv, TypeOK, NoCall
  <2>4. net.who = p => net.step \in {"snapshot", "send"} /\ net.cell = Outside /\ t = "room"
    <3>1. CASE t = "net"
      BY <1>n, <3>1 DEF Idle
    <3>2. CASE t = "room"
      BY <2>1, <3>2 DEF Placed, BeginRelocate, Races, Clean
    <3> QED BY <3>1, <3>2 DEF Threads
  <2>5. listed[p] = {pos[p]} /\ ~dead[p]
    <3>1. CASE net.who = p
      BY <2>1, <2>2, <2>3, <2>4, <3>1 DEF Placed, Threads
    <3>2. CASE net.who # p
      BY <2>1, <2>2, <2>3, <3>2 DEF Resting, AtRest, Threads
    <3> QED BY <3>1, <3>2
  <2>6. UNCHANGED <<member, pos, listed, dead, moving, net>>
           /\ \A u \in Threads : u # t => reloc'[u] = reloc[u]
    BY DEF BeginRelocate, GridInv, TypeOK
  <2>7. Alone(p)'
    BY <2>2, <2>4, <2>6 DEF Alone, Threads
  <2>8. Relocated(p)'
    BY <2>2, <2>3, <2>5, <2>6 DEF Relocated, Threads
  <2>9. Placed(p)'
    BY <2>1, <2>4, <2>5, <2>6 DEF Placed
  <2>10. Resting(p)'
    BY <2>3 DEF Resting, AtRest
  <2> QED BY <2>7, <2>8, <2>9, <2>10
<1> QED BY <1>1, <1>2

\* The steps of a call that write the position, clamp it and take the lock.
LEMMA DuringRelocateStep ==
    ASSUME GridInv, NEW t \in Threads, WritePosition(t) \/ ClampPosition(t) \/ LockCells(t),
           NEW q \in Players, Clean(q)' => Clean(q)
    PROVE  PlayerInv(q)'
<1>n. Nobody \notin Players
  BY NamesAssumption
<1>0. PICK p \in Players : p = reloc[t].who
  BY DEF WritePosition, ClampPosition, LockCells, At, GridInv, Structure, TypeOK, Call
<1>a. UNCHANGED <<member, listed, dead, moving, net>>
         /\ \A u \in Threads : u # t => reloc'[u] = reloc[u]
  BY DEF WritePosition, ClampPosition, LockCells, GridInv, TypeOK
<1>b. \A r \in Players : r # p => pos'[r] = pos[r]
  BY <1>0 DEF WritePosition, ClampPosition, LockCells, GridInv, TypeOK
<1>c. reloc'[t].who \in {p, Nobody} /\ (reloc'[t].who = p => reloc'[t].old = reloc[t].old)
  BY <1>0, <1>n DEF WritePosition, ClampPosition, LockCells, GridInv, TypeOK, NoCall, Call
<1>1. CASE q # p
  <2>1. Unaffected(q)
    BY <1>0, <1>1, <1>n, <1>a, <1>b, <1>c DEF Unaffected
  <2> QED BY <2>1, UnaffectedStep DEF GridInv
<1>2. CASE q = p
  <2> SUFFICES ASSUME Clean(p)' PROVE (Alone(p) /\ Relocated(p) /\ Placed(p) /\ Resting(p))'
    BY <1>2 DEF PlayerInv
  <2>1. Alone(p) /\ Relocated(p) /\ Placed(p) /\ Resting(p)
    BY <1>2 DEF PlayerInv, GridInv
  <2>2. p \in member /\ listed[p] = {reloc[t].old} /\ ~dead[p]
    BY <1>0, <2>1 DEF Relocated
  <2>3. \A u \in Threads : u # t => reloc[u].who # p
    BY <1>0, <2>1, <1>n DEF Alone, Threads
  <2>4. reloc'[t].who = p /\ (reloc'[t].step = "lock" => pos'[p] \in Cells)
           /\ reloc'[t].step \in {"clamp", "lock", "apply"}
    BY <1>0, <2>2 DEF WritePosition, ClampPosition, LockCells, At, GridInv, TypeOK, Call
  <2>5. reloc'[t].step = "apply" => pos'[p] \in Cells
    BY <2>1, <1>0 DEF Relocated, WritePosition, ClampPosition, LockCells, At, GridInv, TypeOK, Call
  <2>6. Alone(p)'
    BY <1>0, <2>1, <2>3, <1>a, <1>c DEF Alone, Threads
  <2>7. Relocated(p)'
    BY <1>0, <2>2, <2>3, <2>4, <2>5, <1>a, <1>c DEF Relocated
  <2>8. Placed(p)'
    <3>1. net.who = p => t = "room" /\ net.step \in {"snapshot", "send"} /\ net.cell = Outside
      BY <1>n, <1>0, <2>1 DEF Alone, Threads, GridInv, Structure, Idle, NoCall
    <3> QED BY <1>0, <2>2, <2>4, <3>1, <1>a DEF Placed
  <2>9. Resting(p)'
    BY <2>4 DEF Resting, AtRest
  <2> QED BY <2>6, <2>7, <2>8, <2>9
<1> QED BY <1>1, <1>2

\* A call ends with the player in the cell of its new position.
LEMMA RelocatePlayerStep ==
    ASSUME GridInv, NEW t \in Threads, RelocatePlayer(t),
           NEW q \in Players, Clean(q)' => Clean(q)
    PROVE  PlayerInv(q)'
<1>n. Nobody \notin Players /\ Outside \notin Cells
  BY NamesAssumption
<1>0. PICK p \in Players : p = reloc[t].who
  BY DEF RelocatePlayer, At, GridInv, Structure, TypeOK, Call
<1>a. UNCHANGED <<member, pos, dead, net>> /\ \A u \in Threads : u # t => reloc'[u] = reloc[u]
  BY DEF RelocatePlayer, GridInv, TypeOK
<1>b. reloc'[t].who = Nobody
  BY DEF RelocatePlayer, GridInv, TypeOK, NoCall
<1>c. \A r \in Players : r # p => listed'[r] = listed[r] /\ moving'[r] = moving[r]
  BY <1>0 DEF RelocatePlayer, GridInv, TypeOK
<1>1. CASE q # p
  <2>1. Unaffected(q)
    BY <1>0, <1>1, <1>n, <1>a, <1>b, <1>c DEF Unaffected
  <2> QED BY <2>1, UnaffectedStep DEF GridInv
<1>2. CASE q = p
  <2> SUFFICES ASSUME Clean(p)' PROVE (Alone(p) /\ Relocated(p) /\ Placed(p) /\ Resting(p))'
    BY <1>2 DEF PlayerInv
  <2>1. Alone(p) /\ Relocated(p) /\ Placed(p) /\ Resting(p)
    BY <1>2 DEF PlayerInv, GridInv
  <2>2. p \in member /\ listed[p] = {reloc[t].old} /\ ~dead[p] /\ pos[p] \in Cells
    BY <1>0, <2>1 DEF Relocated, RelocatePlayer, At
  <2>3. \A u \in Threads : reloc'[u].who # p
    BY <1>0, <1>a, <1>b, <2>1, <1>n DEF Alone, Threads
  <2>4. reloc[t].old \in Cells
    BY <1>0, <2>2 DEF GridInv, TypeOK
  <2>5. listed'[p] = {pos[p]}
    BY <1>0, <2>2, <2>4 DEF RelocatePlayer, GridInv, TypeOK
  <2>6. Placed(p)'
    <3>1. net.who = p => t = "room" /\ net.step \in {"snapshot", "send"} /\ net.cell = Outside
      BY <1>n, <1>0, <2>1 DEF Alone, Threads, GridInv, Structure, Idle, NoCall
    <3> QED BY <2>2, <2>5, <3>1, <1>a DEF Placed
  <2>7. Alone(p)' /\ Relocated(p)'
    BY <2>3 DEF Alone, Relocated, Threads
  <2>8. Resting(p)'
    BY <2>2, <2>5, <1>a DEF Resting
  <2> QED BY <2>6, <2>7, <2>8
<1> QED BY <1>1, <1>2

\* The handlers that begin with a player nobody works on, or that change
\* nothing of its cells.
LEMMA HandlerBeginsStep ==
    ASSUME GridInv, NEW p \in Players,
           \/ JoinRoom(p) \/ HandleRestoreSession(p) \/ WorldRequest(p) \/ WorldRequestAgain(p)
           \/ ExitRoom(p),
           NEW q \in Players, Clean(q)' => Clean(q)
    PROVE  PlayerInv(q)'
<1>n. Nobody \notin Players /\ Outside \notin Cells /\ "net" \in Threads
  BY NamesAssumption DEF Threads
<1>i. net = Idle /\ reloc["net"] = NoCall /\ net.who = Nobody /\ reloc["net"].who = Nobody
  <2>1. NetIdle
    BY DEF JoinRoom, HandleRestoreSession, WorldRequest, WorldRequestAgain, ExitRoom
  <2> QED BY <2>1 DEF NetIdle, Idle, NoCall
<1>1. CASE q # p
  <2>1. net' = net \/ net'.who = p
    BY <1>i DEF JoinRoom, HandleRestoreSession, WorldRequest, WorldRequestAgain, ExitRoom, Idle
  <2>2. /\ q \in member' <=> q \in member
        /\ pos'[q] = pos[q] /\ dead'[q] = dead[q] /\ moving'[q] = moving[q] /\ reloc' = reloc
    BY <1>1 DEF JoinRoom, HandleRestoreSession, WorldRequest, WorldRequestAgain, ExitRoom,
                GridInv, TypeOK
  <2>3. listed'[q] = listed[q]
    BY <1>1 DEF JoinRoom, HandleRestoreSession, WorldRequest, WorldRequestAgain, ExitRoom,
                RemovePlayerFromGrid, GridInv, TypeOK
  <2>4. Unaffected(q)
    BY <1>1, <1>n, <1>i, <2>1, <2>2, <2>3 DEF Unaffected
  <2> QED BY <2>4, UnaffectedStep DEF GridInv
<1>2. CASE q = p
  <2> SUFFICES ASSUME Clean(p)' PROVE (Alone(p) /\ Relocated(p) /\ Placed(p) /\ Resting(p))'
    BY <1>2 DEF PlayerInv
  <2>1. Alone(p) /\ Relocated(p) /\ Placed(p) /\ Resting(p)
    BY <1>2 DEF PlayerInv, GridInv
  <2>2. reloc' = reloc
    BY DEF JoinRoom, HandleRestoreSession, WorldRequest, WorldRequestAgain, ExitRoom
  <2>3. CASE JoinRoom(p)
    <3>1. \A t \in Threads : reloc[t].who # p
      BY <2>1, <2>3 DEF Relocated, JoinRoom
    <3>2. listed[p] = {}
      BY <1>i, <1>n, <2>1, <2>3, <3>1 DEF Resting, AtRest, JoinRoom
    <3> QED BY <1>i, <1>n, <2>2, <2>3, <3>1, <3>2
            DEF JoinRoom, Alone, Relocated, Placed, Resting, Threads
  <2>4. CASE HandleRestoreSession(p)
    BY <1>i, <1>n, <2>1, <2>2, <2>4
       DEF HandleRestoreSession, Alone, Relocated, Placed, Resting, AtRest
  <2>5. CASE WorldRequest(p)
    <3>1. listed[p] = {} /\ \A t \in Threads : reloc[t].who # p
      BY <1>i, <1>n, <2>5 DEF WorldRequest, Clean, Races, Misplaces, Threads
    <3>2. /\ p \in member' /\ listed'[p] = {} /\ pos'[p] \in Cells
          /\ net'.step = "push" /\ net'.who = p /\ net'.cell = pos'[p]
      BY <2>5, <3>1 DEF WorldRequest, GridInv, TypeOK, Spots, Idle
    <3> QED BY <2>2, <3>1, <3>2 DEF Alone, Relocated, Placed, Resting, AtRest, Threads
  <2>6. CASE WorldRequestAgain(p)
    <3>1. /\ UNCHANGED <<member, pos, listed, dead, moving>> /\ p \in member
          /\ net'.step = "snapshot" /\ net'.who = p /\ net'.cell = Outside
      BY <2>6 DEF WorldRequestAgain, Idle
    <3>2. Alone(p)' /\ Relocated(p)' /\ Resting(p)'
      BY <1>i, <1>n, <2>1, <2>2, <3>1 DEF Alone, Relocated, Resting, AtRest
    <3>3. Placed(p)'
      <4>1. CASE reloc["room"].who = p
        BY <2>1, <2>2, <3>1, <4>1 DEF Relocated, Placed, Threads
      <4>2. CASE reloc["room"].who # p
        BY <1>i, <1>n, <2>1, <2>2, <3>1, <4>2 DEF Resting, AtRest, Placed, Threads
      <4> QED BY <4>1, <4>2
    <3> QED BY <3>2, <3>3
  <2>7. CASE ExitRoom(p)
    <3>1. \A t \in Threads : reloc[t].who # p
      BY <1>i, <1>n, <2>7 DEF ExitRoom, Clean, Races, Threads
    <3>2. p \in member' /\ listed'[p] = {} /\ net'.step = "leave" /\ net'.who = p
      BY <1>i, <1>n, <2>1, <2>7, <3>1
         DEF ExitRoom, RemovePlayerFromGrid, Resting, AtRest, GridInv, TypeOK, Idle
    <3> QED BY <2>2, <3>1, <3>2 DEF Alone, Relocated, Placed, Resting, AtRest, Threads
  <2> QED BY <2>3, <2>4, <2>5, <2>6, <2>7
<1> QED BY <1>1, <1>2

\* HandleEatRequest goes on with a victim that may be in no cell by then.
LEMMA EatRequestStep ==
    ASSUME GridInv, NEW p \in Players, NEW r \in Players, EatRequest(p, r),
           NEW q \in Players, Clean(q)' => Clean(q)
    PROVE  PlayerInv(q)'
<1>n. Nobody \notin Players
  BY NamesAssumption
<1>i. net = Idle /\ reloc["net"] = NoCall /\ net.who = Nobody /\ reloc["net"].who = Nobody
  BY DEF EatRequest, NetIdle, Idle, NoCall
<1>v. PICK victim \in {p, r} : net' = [Idle EXCEPT !.step = "eaten", !.who = victim]
                                  /\ Races("net", victim)
  BY DEF EatRequest
<1>1. CASE q # victim
  <2>1. Unaffected(q)
    BY <1>1, <1>n, <1>i, <1>v DEF EatRequest, Idle, Unaffected
  <2> QED BY <2>1, UnaffectedStep DEF GridInv
<1>2. CASE q = victim
  <2> SUFFICES ASSUME Clean(q)' PROVE (Alone(q) /\ Relocated(q) /\ Placed(q) /\ Resting(q))'
    BY DEF PlayerInv
  <2>1. Resting(q)
    BY DEF PlayerInv, GridInv, TypeOK
  <2>2. \A t \in Threads : reloc[t].who # q
    BY <1>2, <1>n, <1>i, <1>v DEF Clean, Races, Threads
  <2>3. q \in member
    <3>1. listed[r] # {} /\ p \in member
      BY DEF EatRequest, PlayersIn
    <3> QED BY <1>2, <1>n, <1>i, <2>1, <2>2, <3>1 DEF Resting, AtRest
  <2>4. net'.step = "eaten" /\ net'.who = q /\ listed'[q] \in {{}, {pos'[q]}} /\ q \in member'
           /\ reloc' = reloc
    BY <1>2, <1>n, <1>i, <1>v, <2>1, <2>2, <2>3 DEF EatRequest, Resting, AtRest, Idle
  <2> QED BY <2>2, <2>4 DEF Alone, Relocated, Placed, Resting, AtRest, Threads
<1> QED BY <1>1, <1>2

\* The handlers' further steps.
LEMMA HandlerGoesOnStep ==
    ASSUME GridInv,
           \/ PushPlayer \/ AnnouncePlayer \/ ResetPlayer \/ SnapshotWorld \/ SendWorld
           \/ TellEaten \/ KillPlayer \/ LeaveList,
           NEW q \in Players, Clean(q)' => Clean(q)
    PROVE  PlayerInv(q)'
<1>n. Nobody \notin Players /\ Outside \notin Cells /\ "room" \in Threads
  BY NamesAssumption DEF Threads
<1>s. net.step \in {"push", "announce", "reset", "snapshot", "send", "eaten", "kill", "leave"}
  BY DEF PushPlayer, AnnouncePlayer, ResetPlayer, SnapshotWorld, SendWorld, TellEaten, KillPlayer,
         LeaveList, Handles
<1>0. PICK p \in Players : p = net.who
  BY <1>s DEF GridInv, Structure, TypeOK, Handler
<1>i. reloc' = reloc /\ reloc["net"].who = Nobody
  <2>1. net # Idle
    BY <1>s DEF Idle
  <2>2. reloc["net"].who = Nobody
    BY <2>1 DEF GridInv, Structure, NoCall
  <2> QED BY <2>2 DEF PushPlayer, AnnouncePlayer, ResetPlayer, SnapshotWorld, SendWorld, TellEaten,
                      KillPlayer, LeaveList
<1>1. CASE q # p
  <2>1. net'.who \in {p, Nobody}
    <3>1. ASSUME NEW from, NEW to, Handles(from, to) PROVE net'.who = net.who
      BY <3>1 DEF Handles, GridInv, TypeOK, Handler
    <3>2. SnapshotWorld => net'.who = net.who
      BY DEF SnapshotWorld, GridInv, TypeOK, Handler
    <3>3. Idle.who = Nobody
      BY DEF Idle
    <3> QED BY <1>0, <3>1, <3>2, <3>3
            DEF PushPlayer, AnnouncePlayer, ResetPlayer, SendWorld, TellEaten, KillPlayer, LeaveList
  <2>2. /\ q \in member' <=> q \in member
        /\ pos'[q] = pos[q] /\ dead'[q] = dead[q] /\ moving'[q] = moving[q]
    BY <1>0, <1>1 DEF PushPlayer, AnnouncePlayer, ResetPlayer, SnapshotWorld, SendWorld, TellEaten,
                      KillPlayer, LeaveList, GridInv, TypeOK
  <2>3. listed'[q] = listed[q]
    BY <1>0, <1>1 DEF PushPlayer, AnnouncePlayer, ResetPlayer, SnapshotWorld, SendWorld, TellEaten,
                      KillPlayer, LeaveList, RemovePlayerFromGrid, GridInv, TypeOK
  <2>4. Unaffected(q)
    BY <1>0, <1>1, <1>n, <1>i, <2>1, <2>2, <2>3 DEF Unaffected
  <2> QED BY <2>4, UnaffectedStep DEF GridInv
<1>2. CASE q = p
  <2> SUFFICES ASSUME Clean(p)' PROVE (Alone(p) /\ Relocated(p) /\ Placed(p) /\ Resting(p))'
    BY <1>2 DEF PlayerInv
  <2>1. Alone(p) /\ Relocated(p) /\ Placed(p) /\ Resting(p) /\ p \in member
    <3>1. Alone(p) /\ Relocated(p) /\ Placed(p) /\ Resting(p)
      BY <1>2 DEF PlayerInv, GridInv
    <3> QED BY <1>0, <3>1 DEF Placed
  <2>2. net.step \notin {"snapshot", "send"} => \A t \in Threads : reloc[t].who # p
    BY <1>0, <1>i, <1>n, <2>1 DEF Alone, Threads
  <2>3. CASE PushPlayer
    <3>1. /\ net.step = "push" /\ net'.step = "announce" /\ net'.who = p /\ net'.cell = net.cell
          /\ listed'[p] = listed[p] \cup {net.cell} /\ pos' = pos /\ member' = member
      BY <1>0, <2>3 DEF PushPlayer, Handles, GridInv, TypeOK, Handler
    <3>2. listed'[p] = {pos[p]} /\ net'.cell = pos'[p] /\ net'.cell # Outside
      BY <1>0, <1>n, <2>1, <3>1 DEF Placed
    <3> QED BY <1>i, <2>1, <2>2, <3>1, <3>2 DEF Alone, Relocated, Placed, Resting, AtRest, Threads
  <2>4. CASE AnnouncePlayer
    <3>1. /\ net.step = "announce" /\ net'.step = "reset" /\ net'.who = p /\ net'.cell = net.cell
          /\ UNCHANGED <<listed, pos, member>>
      BY <1>0, <2>4 DEF AnnouncePlayer, Handles, GridInv, TypeOK, Handler
    <3>2. listed[p] = {pos[p]} /\ net.cell # Outside
      BY <1>0, <2>1, <3>1 DEF Placed
    <3> QED BY <1>i, <2>1, <2>2, <3>1, <3>2 DEF Alone, Relocated, Placed, Resting, AtRest, Threads
  <2>5. CASE ResetPlayer
    <3>1. /\ net.step = "reset" /\ net'.step = "snapshot" /\ net'.who = p
          /\ UNCHANGED <<listed, pos, member>> /\ dead'[p] = FALSE /\ moving'[p] = FALSE
      BY <1>0, <2>5 DEF ResetPlayer, Handles, GridInv, TypeOK, Handler
    <3>2. listed[p] = {pos[p]}
      BY <1>0, <2>1, <3>1 DEF Placed
    <3> QED BY <1>i, <2>1, <2>2, <3>1, <3>2 DEF Alone, Relocated, Placed, Resting, AtRest, Threads
  <2>6. CASE SnapshotWorld
    <3>1. /\ net.step = "snapshot" /\ net'.step = "send" /\ net'.who = p /\ net'.cell = net.cell
          /\ UNCHANGED <<listed, pos, member, dead, moving>>
      BY <1>0, <2>6 DEF SnapshotWorld, GridInv, TypeOK, Handler
    <3>2. Alone(p)' /\ Relocated(p)' /\ Resting(p)'
      BY <1>0, <1>i, <2>1, <3>1 DEF Alone, Relocated, Resting, AtRest
    <3>3. Placed(p)'
      BY <1>0, <1>i, <2>1, <3>1 DEF Placed
    <3> QED BY <3>2, <3>3
  <2>7. CASE SendWorld
    <3>1. /\ net.step = "send" /\ net'.who = Nobody /\ UNCHANGED <<listed, pos, member, dead>>
      BY <2>7 DEF SendWorld, Idle
    <3>2. Alone(p)' /\ Relocated(p)' /\ Placed(p)'
      BY <1>i, <1>n, <2>1, <3>1 DEF Alone, Relocated, Placed
    <3>3. Resting(p)'
      BY <1>0, <1>i, <1>n, <2>1, <3>1 DEF Placed, Resting, AtRest, Threads
    <3> QED BY <3>2, <3>3
  <2>8. CASE TellEaten
    <3>1. /\ net.step = "eaten" /\ net'.step = "kill" /\ net'.who = p
          /\ UNCHANGED <<listed, pos, member>>
      BY <1>0, <2>8 DEF TellEaten, Handles, GridInv, TypeOK, Handler
    <3>2. listed[p] \in {{}, {pos[p]}}
      BY <1>0, <2>1, <3>1 DEF Placed
    <3> QED BY <1>i, <2>1, <2>2, <3>1, <3>2 DEF Alone, Relocated, Placed, Resting, AtRest, Threads
  <2>9. CASE KillPlayer
    <3>1. net.step = "kill" /\ net'.who = Nobody
      BY <2>9 DEF KillPlayer, Idle
    <3>2. listed'[p] = {}
      BY <1>0, <2>1, <2>9, <3>1 DEF KillPlayer, RemovePlayerFromGrid, Placed, GridInv, TypeOK
    <3> QED BY <1>i, <1>n, <2>2, <3>1, <3>2 DEF Alone, Relocated, Placed, Resting, Threads
  <2>10. CASE LeaveList
    <3>1. net.step = "leave" /\ net'.who = Nobody /\ listed' = listed
      BY <2>10 DEF LeaveList, Idle
    <3>2. listed[p] = {}
      BY <1>0, <2>1, <3>1 DEF Placed
    <3> QED BY <1>i, <1>n, <2>2, <3>1, <3>2 DEF Alone, Relocated, Placed, Resting, Threads
  <2> QED BY <2>3, <2>4, <2>5, <2>6, <2>7, <2>8, <2>9, <2>10
<1> QED BY <1>1, <1>2

\* Every step keeps the part of the invariant that is about the cells.
LEMMA GridStep ==
    ASSUME GridInv, [Next]_vars
    PROVE  GridInv'
<1>1. TypeOK' /\ Structure'
  BY TypeStep DEF GridInv
<1>2. ASSUME NEW q \in Players PROVE PlayerInv(q)'
  <2>c. Clean(q)' => Clean(q)
    BY CleanStep
  <2>1. ASSUME NEW t \in Threads, Relocate(t) PROVE PlayerInv(q)'
    BY <2>1, <2>c, DuringRelocateStep, RelocatePlayerStep DEF Relocate
  <2>2. ASSUME NEW p \in Players, HandleMove(p) PROVE PlayerInv(q)'
    <3>1. net = Idle /\ p \in member /\ BeginRelocate("net", p) /\ "net" \in Threads
      BY <2>2 DEF HandleMove, NetIdle, Threads
    <3> QED BY <3>1, <2>c, BeginRelocateStep
  <2>3. ASSUME NEW p \in Players, UpdatePlayer(p) PROVE PlayerInv(q)'
    <3>1. p \in member /\ moving[p] /\ ~dead[p] /\ BeginRelocate("room", p) /\ "room" \in Threads
      BY <2>3 DEF UpdatePlayer, Threads
    <3> QED BY <3>1, <2>c, BeginRelocateStep
  <2>4. CASE NetworkThread
    <3>1. "net" \in Threads
      BY DEF Threads
    <3> QED BY <2>4, <3>1, <2>c, <2>1, <2>2, HandlerBeginsStep, EatRequestStep, HandlerGoesOnStep
            DEF NetworkThread
  <2>5. CASE RoomThread
    <3>1. "room" \in Threads
      BY DEF Threads
    <3> QED BY <2>5, <3>1, <2>1, <2>3 DEF RoomThread
  <2>6. CASE UNCHANGED vars
    <3>1. Unaffected(q)
      BY <2>6 DEF vars, Unaffected
    <3> QED BY <2>c, <3>1, UnaffectedStep DEF GridInv
  <2> QED BY <2>4, <2>5, <2>6 DEF Next
<1> QED BY <1>1, <1>2 DEF GridInv

-----------------------------------------------------------------------------
(* What a move tells. *)

\* Whoever is in a cell is in the room.
LEMMA ListedAreMembers ==
    ASSUME GridInv, NEW q \in Players, Clean(q), listed[q] # {}
    PROVE  q \in member
<1>1. Relocated(q) /\ Placed(q) /\ Resting(q)
  BY DEF GridInv, PlayerInv
<1> QED BY <1>1 DEF Relocated, Placed, Resting, AtRest

\* A player is in one cell at most.
LEMMA OneCell ==
    ASSUME GridInv, NEW p \in Players, Clean(p), NEW c \in listed[p], NEW d \in listed[p]
    PROVE  c = d
<1>1. Relocated(p) /\ Placed(p) /\ Resting(p)
  BY DEF GridInv, PlayerInv
<1>2. CASE \E t \in Threads : reloc[t].who = p
  BY <1>1, <1>2 DEF Relocated
<1>3. CASE net.who = p /\ \A t \in Threads : reloc[t].who # p
  <2>1. net.step \in {"push", "announce", "reset", "snapshot", "send", "eaten", "kill", "leave"}
    BY <1>3, NamesAssumption DEF GridInv, Structure, TypeOK, Handler
  <2>2. listed[p] \in {{}, {pos[p]}}
    BY <1>1, <1>3, <2>1 DEF Placed, Threads
  <2> QED BY <2>2
<1>4. CASE AtRest(p)
  BY <1>1, <1>4 DEF Resting
<1> QED BY <1>2, <1>3, <1>4 DEF AtRest

\* Who knows whom after a move of player m.
LEMMA TellMoveLemma ==
    ASSUME TypeOK, NEW m \in Players, NEW old \in Cells, NEW new \in Cells,
           NEW p \in Players, NEW q \in Players, p # q
    PROVE  LET told2 == TellMove(m, old, new)
               gone == Near(old) \ Near(new)
               come == Near(new) \ Near(old)
           IN  /\ p # m /\ q # m => (q \in told2[p] <=> q \in told[p])
               /\ p = m => (q \in told2[p] <=> q \in told[p] \/ listed[q] \cap come # {})
               /\ q = m => (q \in told2[p] <=> \/ listed[p] \cap come # {}
                                               \/ q \in told[p] /\ listed[p] \cap gone = {})
<1> DEFINE seen == [listed EXCEPT ![m] = (@ \ {old}) \cup {new}]
           at(S) == {r \in Players : seen[r] \cap S # {}}
           gone == Near(old) \ Near(new)
           come == Near(new) \ Near(old)
           less == Destroy(told, m, at(gone))
           sent == Create(less, m, at(come))
<1>1. DestroyArea(old, new) = gone /\ CreateArea(old, new) = come
  BY DestroysWhatGoes, CreatesWhatComes
<1>2. TellMove(m, old, new) = [sent EXCEPT ![m] = @ \cup at(come)]
  BY <1>1 DEF TellMove
<1>3. less = [r \in Players |-> IF r \in at(gone) THEN told[r] \ {m} ELSE told[r]]
  BY DEF Destroy
<1>4. sent = [r \in Players |-> IF r \in at(come) THEN less[r] \cup {m} ELSE less[r]]
  BY DEF Create
<1>5. \A r \in Players : r # m => (r \in at(gone) <=> listed[r] \cap gone # {})
                                    /\ (r \in at(come) <=> listed[r] \cap come # {})
  BY DEF TypeOK
<1> HIDE DEF at, gone, come
<1>6. ASSUME p # m
      PROVE  q \in TellMove(m, old, new)[p] <=>
                 IF p \in at(come) THEN q \in less[p] \/ q = m ELSE q \in less[p]
  BY <1>2, <1>4, <1>6
<1>7. ASSUME p = m
      PROVE  q \in TellMove(m, old, new)[p] <=> q \in less[p] \/ q \in at(come)
  BY <1>2, <1>4, <1>7
<1>8. q \in less[p] <=> q \in told[p] /\ ~(p \in at(gone) /\ q = m)
  BY <1>3
<1> QED BY <1>5, <1>6, <1>7, <1>8 DEF gone, come

-----------------------------------------------------------------------------
(* What the clients have been told. *)

\* Every step keeps the clients from knowing players that are not in the room.
LEMMA MembersStep ==
    ASSUME GridInv, MembersInv, [Next]_vars
    PROVE  MembersInv'
<1> SUFFICES ASSUME NEW q \in Players, Clean(q)'
             PROVE  /\ \A p \in member' : q \in told'[p] => q \in member'
                    /\ q \in net'.seen => q \in member'
  BY DEF MembersInv
<1>c. Clean(q)
  BY CleanStep
<1>t. TypeOK /\ Structure
  BY DEF GridInv
<1>i. /\ \A p \in member : q \in told[p] => q \in member
      /\ q \in net.seen => q \in member
  BY <1>c DEF MembersInv
<1>s. Idle.seen = {}
  BY DEF Idle
<1>l. listed[q] # {} => q \in member
  BY <1>c, ListedAreMembers
<1>1. ASSUME NEW t \in Threads, NEW p \in Players, BeginRelocate(t, p)
      PROVE  member' = member /\ told' = told /\ net' = net
  BY <1>1 DEF BeginRelocate
<1>2. ASSUME NEW t \in Threads, RelocatePlayer(t)
      PROVE  /\ \A p \in member' : q \in told'[p] => q \in member'
             /\ q \in net'.seen => q \in member'
  <2>0. PICK m \in Players : m = reloc[t].who
    BY <1>2, <1>t DEF RelocatePlayer, At, TypeOK, Structure, Call
  <2>1. member' = member /\ net' = net
    BY <1>2 DEF RelocatePlayer
  <2>2. CASE told' = told
    BY <1>i, <2>1, <2>2
  <2>3. CASE reloc[t].old \in Cells /\ pos[m] \in Cells /\ told' = TellMove(m, reloc[t].old, pos[m])
    <3>1. CASE q = m
      BY <1>c, <2>0, <2>1, <1>i, <3>1 DEF GridInv, PlayerInv, Relocated
    <3>2. CASE q # m
      <4>1. ASSUME NEW p \in member, q \in told'[p] PROVE q \in member
        <5>1. CASE p = q
          BY <4>1, <5>1
        <5>2. CASE p # q
          <6>1. q \in told[p] \/ listed[q] # {}
            BY <1>t, <2>3, <3>2, <4>1, <5>2, TellMoveLemma DEF TypeOK
          <6> QED BY <6>1, <1>i, <1>l
        <5> QED BY <5>1, <5>2
      <4> QED BY <4>1, <2>1, <1>i
    <3> QED BY <3>1, <3>2
  <2> QED BY <1>2, <2>0, <2>2, <2>3 DEF RelocatePlayer
<1>3. ASSUME NEW t \in Threads, Relocate(t)
      PROVE  /\ \A p \in member' : q \in told'[p] => q \in member'
             /\ q \in net'.seen => q \in member'
  <2>1. ASSUME WritePosition(t) \/ ClampPosition(t) \/ LockCells(t)
        PROVE  member' = member /\ told' = told /\ net' = net
    BY <2>1 DEF WritePosition, ClampPosition, LockCells
  <2> QED BY <1>i, <1>2, <1>3, <2>1 DEF Relocate
<1>4. ASSUME NEW p \in Players, JoinRoom(p)
      PROVE  member' = member \cup {p} /\ told' = [told EXCEPT ![p] = {}] /\ net' = net
  BY <1>4 DEF JoinRoom
<1>5. ASSUME NEW p \in Players, NEW r \in Players,
             \/ HandleRestoreSession(p) \/ WorldRequest(p) \/ WorldRequestAgain(p) \/ ExitRoom(p)
             \/ EatRequest(p, r) \/ PushPlayer \/ ResetPlayer \/ KillPlayer
      PROVE  member' = member /\ told' = told /\ (net'.seen = net.seen \/ net'.seen = {})
  BY <1>5, <1>t, <1>s
     DEF HandleRestoreSession, WorldRequest, WorldRequestAgain, ExitRoom, EatRequest, PushPlayer,
         ResetPlayer, KillPlayer, Handles, Idle, TypeOK, Handler
<1>6. CASE AnnouncePlayer
  <2>1. member' = member /\ net'.seen = net.seen
    BY <1>6, <1>t DEF AnnouncePlayer, Handles, TypeOK, Handler
  <2>2. q = net.who => q \in member
    BY <1>c DEF GridInv, PlayerInv, Placed
  <2>3. \A p \in member : q \in told'[p] => q \in told[p] \/ q = net.who
    BY <1>6, <1>t DEF AnnouncePlayer, Create, TypeOK
  <2> QED BY <1>i, <2>1, <2>2, <2>3
<1>7. CASE SnapshotWorld
  <2>1. member' = member /\ told' = told /\ (q \in net'.seen => listed[q] # {})
    BY <1>7, <1>t DEF SnapshotWorld, PlayersIn, TypeOK, Handler
  <2> QED BY <1>i, <1>l, <2>1
<1>8. CASE SendWorld
  <2>1. member' = member /\ net'.seen = {}
    BY <1>8, <1>s DEF SendWorld
  <2>2. \A p \in member : q \in told'[p] => q \in told[p] \/ q \in net.seen
    BY <1>8, <1>t DEF SendWorld, TypeOK
  <2> QED BY <1>i, <2>1, <2>2
<1>9. CASE TellEaten
  <2>1. member' = member /\ net'.seen = net.seen
    BY <1>9, <1>t DEF TellEaten, Handles, TypeOK, Handler
  <2>2. \A p \in member : q \in told'[p] => q \in told[p]
    BY <1>9, <1>t DEF TellEaten, Destroy, TypeOK
  <2> QED BY <1>i, <2>1, <2>2
<1>10. CASE LeaveList
  <2>1. member' = member \ {net.who} /\ net'.seen = {}
    BY <1>10, <1>s DEF LeaveList
  <2>2. \A p \in member' : q \in told'[p] => q \in told[p] /\ q # net.who
    BY <1>10, <1>t, <2>1 DEF LeaveList, Destroy, TypeOK
  <2> QED BY <1>i, <2>1, <2>2
<1>11. CASE UNCHANGED vars
  BY <1>11, <1>i DEF vars
<1>12. CASE NetworkThread
  <2>1. ASSUME NEW p \in Players, JoinRoom(p)
        PROVE  /\ \A r \in member' : q \in told'[r] => q \in member'
               /\ q \in net'.seen => q \in member'
    BY <1>4, <1>i, <1>t, <2>1 DEF TypeOK
  <2>2. "net" \in Threads
    BY DEF Threads
  <2> QED BY <1>12, <1>1, <1>3, <1>5, <1>6, <1>7, <1>8, <1>9, <1>10, <1>i, <2>1, <2>2
          DEF NetworkThread, HandleMove
<1>13. CASE RoomThread
  <2>1. "room" \in Threads
    BY DEF Threads
  <2> QED BY <1>13, <1>1, <1>3, <1>i, <2>1 DEF RoomThread, UpdatePlayer
<1> QED BY <1>11, <1>12, <1>13 DEF Next

\* What a pair of players has been told stays enough as long as neither gets
\* into a new cell and nothing is forgotten.
LEMMA ToldKept ==
    ASSUME ToldInv, NEW p \in Players, NEW q \in Players, Due(p, q)' => Due(p, q),
           listed'[p] \subseteq listed[p], listed'[q] \subseteq listed[q],
           q \in SeenBy(p) => q \in SeenBy(p)'
    PROVE  Due(p, q)' /\ InSight(p, q)' => q \in SeenBy(p)'
BY DEF ToldInv, InSight

\* A move tells the mover and the others of what comes into sight, and takes
\* from them only what goes.
LEMMA MoveToldStep ==
    ASSUME GridInv, ToldInv, NEW t \in Threads, RelocatePlayer(t),
           NEW p \in Players, NEW q \in Players, Clean(p), Clean(q),
           Due(p, q)', InSight(p, q)'
    PROVE  q \in SeenBy(p)'
<1>t. TypeOK /\ Structure
  BY DEF GridInv
<1>0. PICK m \in Players : m = reloc[t].who
  BY <1>t DEF RelocatePlayer, At, TypeOK, Structure, Call
<1>u. net' = net /\ p # q /\ (Due(p, q)' => Due(p, q))
  BY DEF RelocatePlayer, Due, Clean, history
<1>1. CASE told' = told /\ listed' = listed
  BY <1>1, <1>u, ToldKept DEF SeenBy
<1>2. CASE /\ reloc[t].old \in Cells /\ pos[m] \in Cells
           /\ told' = TellMove(m, reloc[t].old, pos[m])
           /\ listed' = [listed EXCEPT ![m] = (@ \ {reloc[t].old}) \cup {pos[m]}]
  <2> DEFINE old == reloc[t].old
             new == pos[m]
             come == Near(new) \ Near(old)
             gone == Near(old) \ Near(new)
  <2>1. \A r \in Players : r # m => listed'[r] = listed[r]
    BY <1>2, <1>t DEF TypeOK
  <2>2. m \in {p, q} => listed[m] = {old} /\ listed'[m] = {new}
    BY <1>0, <1>2, <1>t DEF GridInv, PlayerInv, Relocated, TypeOK
  <2>c. \A r \in Players : listed[r] \subseteq Cells
    BY <1>t DEF TypeOK
  <2>3. CASE m \notin {p, q}
    <3>1. q \in told'[p] <=> q \in told[p]
      BY <1>2, <1>t, <1>u, <2>3, TellMoveLemma
    <3> QED BY <1>u, <2>1, <2>3, <3>1, ToldKept DEF SeenBy
  <2>4. CASE p = m
    <3>1. q \in told'[p] <=> q \in told[p] \/ listed[q] \cap come # {}
      BY <1>2, <1>t, <1>u, <2>4, TellMoveLemma
    <3>2. PICK d \in listed[q] : d \in Near(new)
      BY <1>u, <2>1, <2>2, <2>4 DEF InSight
    <3>3. CASE d \in Near(old)
      <4>1. q \in SeenBy(p)
        BY <1>u, <2>2, <2>4, <3>3 DEF InSight, ToldInv
      <4> QED BY <1>u, <3>1, <4>1 DEF SeenBy
    <3>4. CASE d \notin Near(old)
      <4>1. q \in told'[p]
        BY <3>1, <3>2, <3>4
      <4> QED BY <1>u, <4>1 DEF SeenBy
    <3> QED BY <3>3, <3>4
  <2>5. CASE q = m
    <3>1. q \in told'[p] <=> \/ listed[p] \cap come # {}
                             \/ q \in told[p] /\ listed[p] \cap gone = {}
      BY <1>2, <1>t, <1>u, <2>5, TellMoveLemma
    <3>2. PICK c \in listed[p] : new \in Near(c)
      BY <1>u, <2>1, <2>2, <2>5 DEF InSight
    <3>3. c \in Near(new) /\ (c \in Near(old) => old \in Near(c))
      BY <1>2, <2>c, <3>2, SightIsMutual
    <3>4. CASE c \in Near(old)
      <4>1. q \in SeenBy(p)
        BY <1>u, <2>2, <2>5, <3>3, <3>4 DEF InSight, ToldInv
      <4>2. listed[p] \cap gone = {}
        BY <3>3, OneCell
      <4> QED BY <1>u, <3>1, <4>1, <4>2 DEF SeenBy
    <3>5. CASE c \notin Near(old)
      <4>1. q \in told'[p]
        BY <3>1, <3>3, <3>5
      <4> QED BY <1>u, <4>1 DEF SeenBy
    <3> QED BY <3>4, <3>5
  <2> QED BY <2>3, <2>4, <2>5
<1> QED BY <1>0, <1>1, <1>2 DEF RelocatePlayer

\* Every step keeps the clients told of whom they see.
LEMMA ToldStep ==
    ASSUME GridInv, ToldInv, [Next]_vars
    PROVE  ToldInv'
<1> SUFFICES ASSUME NEW p \in Players, NEW q \in Players, Due(p, q)', InSight(p, q)'
             PROVE  q \in SeenBy(p)'
  BY DEF ToldInv
<1>n. Nobody \notin Players
  BY NamesAssumption
<1>t. TypeOK /\ Structure
  BY DEF GridInv
<1>c. Clean(p) /\ Clean(q) /\ p # q
  BY CleanStep DEF Due
<1>s. Idle.who = Nobody /\ Idle.seen = {} /\ Idle.step = "idle"
  BY DEF Idle
<1>1. ASSUME listed' = listed, told' = told, net' = net PROVE q \in SeenBy(p)'
  BY <1>1, <1>c, ToldKept DEF Due, SeenBy
<1>2. ASSUME NEW t \in Threads, Relocate(t) PROVE q \in SeenBy(p)'
  <2>1. ASSUME WritePosition(t) \/ ClampPosition(t) \/ LockCells(t)
        PROVE  listed' = listed /\ told' = told /\ net' = net
    BY <2>1 DEF WritePosition, ClampPosition, LockCells
  <2> QED BY <1>1, <1>2, <1>c, <2>1, MoveToldStep DEF Relocate
<1>3. ASSUME NEW r \in Players, JoinRoom(r) PROVE q \in SeenBy(p)'
  <2>1. CASE p = r
    <3>1. p \notin member /\ listed' = listed
      BY <1>3, <2>1 DEF JoinRoom
    <3>2. listed[p] = {}
      BY <1>c, <3>1, ListedAreMembers
    <3> QED BY <3>1, <3>2 DEF InSight
  <2>2. CASE p # r
    <3>1. listed' = listed /\ net' = net /\ told'[p] = told[p]
      BY <1>3, <1>t, <2>2 DEF JoinRoom, TypeOK
    <3> QED BY <1>c, <3>1, ToldKept DEF Due, SeenBy
  <2> QED BY <2>1, <2>2
<1>4. ASSUME NEW r \in Players, WorldRequest(r) \/ WorldRequestAgain(r)
      PROVE  q \in SeenBy(p)'
  <2>1. net = Idle /\ listed' = listed /\ told' = told
    BY <1>4 DEF WorldRequest, WorldRequestAgain, NetIdle
  <2>2. Due(p, q) /\ (q \in SeenBy(p) => q \in told[p])
    BY <1>n, <1>c, <1>s, <2>1 DEF Due, SeenBy
  <2>3. q \in told[p]
    BY <2>1, <2>2 DEF ToldInv, InSight
  <2> QED BY <2>1, <2>3 DEF SeenBy
<1>5. ASSUME NEW r \in Players, NEW e \in Players, ExitRoom(r) \/ EatRequest(r, e)
      PROVE  q \in SeenBy(p)'
  <2>1. net = Idle /\ told' = told
    BY <1>5 DEF ExitRoom, EatRequest, NetIdle
  <2>2. Due(p, q) /\ (q \in SeenBy(p) => q \in told[p])
    BY <1>n, <1>c, <1>s, <2>1 DEF Due, SeenBy
  <2>3. listed'[p] \subseteq listed[p] /\ listed'[q] \subseteq listed[q]
    BY <1>5, <1>t DEF ExitRoom, EatRequest, RemovePlayerFromGrid, TypeOK
  <2>4. q \in told[p]
    BY <2>2, <2>3 DEF ToldInv, InSight
  <2> QED BY <2>1, <2>4 DEF SeenBy
<1>6. ASSUME PushPlayer \/ AnnouncePlayer \/ ResetPlayer \/ SnapshotWorld \/ SendWorld
                \/ TellEaten \/ KillPlayer \/ LeaveList
      PROVE  net.who \in Players
  BY <1>6, <1>t
     DEF PushPlayer, AnnouncePlayer, ResetPlayer, SnapshotWorld, SendWorld, TellEaten, KillPlayer,
         LeaveList, Handles, Structure, TypeOK, Handler
<1>7. ASSUME NEW from, NEW to, Handles(from, to)
      PROVE  net.step = from /\ net'.step = to /\ net'.who = net.who /\ net'.seen = net.seen
                /\ net'.cell = net.cell
  BY <1>7, <1>t DEF Handles, TypeOK, Handler
<1>8. CASE PushPlayer
  <2>1. net'.step = "announce" /\ net'.who = net.who /\ net.step = "push"
    BY <1>7, <1>8 DEF PushPlayer
  <2>2. net.who \notin {p, q}
    BY <2>1 DEF Due
  <2>3. listed'[p] = listed[p] /\ listed'[q] = listed[q] /\ told' = told
    BY <1>8, <1>t, <2>2 DEF PushPlayer, TypeOK
  <2> QED BY <1>c, <2>1, <2>2, <2>3, ToldKept DEF Due, SeenBy
<1>9. CASE AnnouncePlayer
  <2>1. net'.step = "reset" /\ net'.who = net.who /\ net.step = "announce" /\ net'.cell = net.cell
           /\ listed' = listed
    BY <1>7, <1>9 DEF AnnouncePlayer
  <2>2. net.who # p
    BY <2>1 DEF Due
  <2>3. told' = Create(told, net.who, PlayersIn(Near(net.cell)))
    BY <1>9 DEF AnnouncePlayer
  <2>4. CASE net.who = q
    <3>1. listed[q] = {net.cell}
      BY <1>c, <2>1, <2>4 DEF GridInv, PlayerInv, Placed
    <3>2. PICK c \in listed[p] : net.cell \in Near(c)
      BY <2>1, <3>1 DEF InSight
    <3>3. c \in Near(net.cell)
      BY <1>t, <2>1, <3>2, SightIsMutual DEF TypeOK, Structure
    <3>4. p \in PlayersIn(Near(net.cell))
      BY <3>2, <3>3 DEF PlayersIn
    <3>5. q \in told'[p]
      BY <1>t, <2>3, <2>4, <3>4 DEF Create, TypeOK
    <3> QED BY <2>1, <2>2, <3>5 DEF SeenBy
  <2>5. CASE net.who # q
    <3>1. told[p] \subseteq told'[p]
      BY <1>t, <2>3 DEF Create, TypeOK
    <3> QED BY <1>c, <2>1, <2>2, <2>5, <3>1, ToldKept DEF Due, SeenBy
  <2> QED BY <2>4, <2>5
<1>10. CASE ResetPlayer
  <2>1. net'.step = "snapshot" /\ net'.who = net.who /\ net.step = "reset" /\ net'.cell = net.cell
           /\ listed' = listed /\ told' = told
    BY <1>7, <1>10 DEF ResetPlayer
  <2>2. net.who # p
    BY <1>c, <2>1 DEF Due, GridInv, PlayerInv, Placed
  <2> QED BY <1>c, <2>1, <2>2, ToldKept DEF Due, SeenBy
<1>11. CASE SnapshotWorld
  <2>1. net.step = "snapshot" /\ net'.step = "send" /\ net'.who = net.who /\ listed' = listed
           /\ told' = told /\ net'.seen = PlayersIn(NearPos(pos[net.who]))
    BY <1>11, <1>t DEF SnapshotWorld, TypeOK, Handler
  <2>2. CASE net.who # p
    BY <1>c, <2>1, <2>2, ToldKept DEF Due, SeenBy
  <2>3. CASE net.who = p /\ reloc["room"].who = p
    <3>1. Due(p, q) /\ net.seen = {}
      BY <1>c, <1>t, <2>1, <2>3 DEF GridInv, PlayerInv, Alone, Due, Structure
    <3> QED BY <1>c, <2>1, <2>3, <3>1, ToldKept DEF SeenBy
  <2>4. CASE net.who = p /\ reloc["room"].who # p
    <3>1. listed[p] \in {{}, {pos[p]}}
      BY <1>c, <2>1, <2>4 DEF GridInv, PlayerInv, Placed
    <3>2. PICK d \in listed[q] : d \in Near(pos[p]) /\ pos[p] \in listed[p]
      BY <2>1, <3>1 DEF InSight
    <3>3. q \in PlayersIn(NearPos(pos[p]))
      BY <1>t, <3>2 DEF PlayersIn, NearPos, TypeOK
    <3> QED BY <2>1, <2>4, <3>3 DEF SeenBy
  <2> QED BY <2>2, <2>3, <2>4
<1>12. CASE SendWorld
  <2>1. net' = Idle /\ net.step = "send" /\ listed' = listed /\ net'.who # p
    BY <1>12, <1>n, <1>s DEF SendWorld
  <2>2. Due(p, q) /\ InSight(p, q)
    BY <1>c, <2>1 DEF Due, InSight
  <2>3. q \in SeenBy(p)
    BY <2>2 DEF ToldInv
  <2>4. q \in told'[p]
    BY <1>12, <1>t, <2>3 DEF SendWorld, SeenBy, TypeOK
  <2> QED BY <2>1, <2>4 DEF SeenBy
<1>13. CASE TellEaten
  <2>1. net'.step = "kill" /\ net'.who = net.who /\ net.step = "eaten" /\ listed' = listed
    BY <1>7, <1>13 DEF TellEaten
  <2>2. net.who \notin {p, q}
    BY <2>1 DEF Due
  <2>3. q \in told[p] => q \in told'[p]
    BY <1>13, <1>t, <2>2 DEF TellEaten, Destroy, TypeOK
  <2> QED BY <1>c, <2>1, <2>2, <2>3, ToldKept DEF Due, SeenBy
<1>14. CASE KillPlayer \/ LeaveList
  <2>1. /\ net' = Idle /\ net.step \in {"kill", "leave"}
        /\ \A r \in Players : listed'[r] \subseteq listed[r]
    BY <1>14, <1>t DEF KillPlayer, LeaveList, RemovePlayerFromGrid, TypeOK
  <2>2. net.who \in {p, q} => listed'[net.who] = {}
    BY <1>6, <1>14, <1>c, <1>t
       DEF KillPlayer, LeaveList, RemovePlayerFromGrid, GridInv, PlayerInv, Placed, TypeOK
  <2>3. net.who \notin {p, q}
    BY <2>2 DEF InSight
  <2>4. q \in told[p] => q \in told'[p]
    BY <1>14, <1>t, <2>3 DEF KillPlayer, LeaveList, Destroy, TypeOK
  <2> QED BY <1>n, <1>c, <1>s, <2>1, <2>3, <2>4, ToldKept DEF Due, SeenBy
<1>15. ASSUME NEW t \in Threads, NEW r \in Players, BeginRelocate(t, r)
       PROVE  listed' = listed /\ told' = told /\ net' = net
  BY <1>15 DEF BeginRelocate
<1>16. CASE NetworkThread
  <2>1. ASSUME NEW r \in Players, HandleRestoreSession(r)
        PROVE  listed' = listed /\ told' = told /\ net' = net
    BY <2>1 DEF HandleRestoreSession
  <2>2. "net" \in Threads
    BY DEF Threads
  <2> QED BY <1>16, <1>1, <1>2, <1>3, <1>4, <1>5, <1>8, <1>9, <1>10, <1>11, <1>12, <1>13, <1>14,
             <1>15, <2>1, <2>2 DEF NetworkThread, HandleMove
<1>17. CASE RoomThread
  <2>1. "room" \in Threads
    BY DEF Threads
  <2> QED BY <1>17, <1>1, <1>2, <1>15, <2>1 DEF RoomThread, UpdatePlayer
<1>18. CASE UNCHANGED vars
  BY <1>18, <1>1 DEF vars
<1> QED BY <1>16, <1>17, <1>18 DEF Next

-----------------------------------------------------------------------------
(* The theorems. *)

\* The invariant holds when the room is empty, and every step keeps it.
LEMMA InitInv == Init => IInv
<1> SUFFICES ASSUME Init PROVE IInv
  OBVIOUS
<1>n. Nobody \notin Players
  BY NamesAssumption
<1>1. <<0, 0>> \in Cells
  BY GridAssumption DEF Cells
<1>2. TypeOK
  BY <1>1 DEF Init, TypeOK, Position, Threads, Call, NoCall, Handler, Idle, NoThread
<1>3. Structure
  BY DEF Init, Structure, NoCall, Idle, Threads
<1>4. ASSUME NEW p \in Players PROVE PlayerInv(p)
  <2>1. AtRest(p) /\ listed[p] = {} /\ net.who # p /\ \A t \in Threads : reloc[t].who # p
    BY <1>n DEF Init, AtRest, NoCall, Idle
  <2> QED BY <2>1 DEF PlayerInv, Alone, Relocated, Placed, Resting, Threads
<1>5. MembersInv
  BY DEF Init, MembersInv, Idle
<1>6. ToldInv
  BY DEF Init, ToldInv, InSight
<1> QED BY <1>2, <1>3, <1>4, <1>5, <1>6 DEF IInv, GridInv

\* Every step keeps it.
LEMMA NextInv == IInv /\ [Next]_vars => IInv'
BY GridStep, MembersStep, ToldStep DEF IInv

\* The invariant holds in every behaviour.
THEOREM Invariance == Spec => []IInv
BY InitInv, NextInv, PTL DEF Spec

\* The variables have their types.
THEOREM TypeCorrect == Spec => []TypeOK
<1>1. IInv => TypeOK
  BY DEF IInv, GridInv
<1> QED BY <1>1, Invariance, PTL

\* A player whom no race has met is in the cell of its position and no other,
\* and in none once it is dead or has left the room.
THEOREM GridIsExact == Spec => []GridExact
<1>1. IInv => GridExact
  <2> SUFFICES ASSUME IInv, NEW p \in Players, Clean(p)
               PROVE  /\ AtRest(p) => listed[p] \in
                             (IF p \in member /\ ~dead[p] THEN {{}, {pos[p]}} ELSE {{}})
                      /\ \A t \in Threads : reloc[t].who = p => listed[p] = {reloc[t].old}
    BY DEF GridExact
  <2>1. Relocated(p) /\ Resting(p)
    BY DEF IInv, GridInv, PlayerInv
  <2> QED BY <2>1 DEF Relocated, Resting
<1> QED BY <1>1, Invariance, PTL

\* Whoever a player can see has been created at its client.
THEOREM SightIsTold == Spec => []ToldComplete
<1>1. IInv => ToldComplete
  <2> SUFFICES ASSUME IInv, NEW p \in Players, NEW q \in Players, Clean(p), Clean(q), p # q,
                      net.who \notin {p, q}, \E c \in listed[p], d \in listed[q] : d \in Near(c)
               PROVE  q \in told[p]
    BY DEF ToldComplete
  <2>1. q \in SeenBy(p)
    BY DEF IInv, ToldInv, Due, InSight
  <2> QED BY <2>1 DEF SeenBy
<1> QED BY <1>1, Invariance, PTL

\* Nobody is told of a player that is not in the room.
THEOREM OnlyMembersTold == Spec => []ToldOnlyMembers
<1>1. IInv => ToldOnlyMembers
  BY DEF IInv, MembersInv, ToldOnlyMembers, GridInv, TypeOK
<1> QED BY <1>1, Invariance, PTL

=============================================================================
