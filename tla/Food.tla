-------------------------------- MODULE Food --------------------------------
(***************************************************************************)
(* The food of one room: the objects in the grid, eating them, the queue   *)
(* in which eaten objects wait for their respawn, and the sizes of those   *)
(* who eat.  The network thread eats (PacketHandlers.cpp, Room.cpp), the   *)
(* room's thread respawns (Room::Update), and no lock keeps them apart.    *)
(*                                                                         *)
(* An object never moves, so its cell is not a variable: sight[p] is the   *)
(* set of objects whose cells are near player p, one of Views.  That the   *)
(* searches visit the near cells exactly, and discover on a move exactly   *)
(* the cells that become near, is proved in World_proofs.  A move is       *)
(* one step here: the steps of Relocate, and players placed or moved by    *)
(* two threads at once, are the business of World.                         *)
(*                                                                         *)
(* Time is relative: left[o] is what remains until m_respawnTime of o.     *)
(***************************************************************************)
EXTENDS Integers

CONSTANTS
    Players,
    Objects,        \* the food, bonus food and traps of the room
    Nobody,         \* no player
    Nothing,        \* no object
    Views,          \* what can be in sight of a place
    Edible,         \* the objects of type OBJECT_TYPE_IDLEFOOD
    Delay,          \* MAP_OBJECT_RESPAWN_TIME
    MaxLate,        \* bound: how late the room's thread can be
    InitialSize,    \* DEFAULT_INITIAL_PLAYER_SIZE
    FoodGain,       \* what a piece of food adds to a size
    ReduceIncome,   \* PLAYER_REDUCE_INCOME_SIZE
    StopIncome      \* PLAYER_STOP_INCOME_SIZE

ASSUME NamesAssumption == Nobody \notin Players /\ Nothing \notin Objects
ASSUME ViewsAssumption == Views \subseteq SUBSET Objects /\ Views # {} /\ Edible \subseteq Objects
ASSUME TimesAssumption == Delay \in Nat \ {0} /\ MaxLate \in Nat
ASSUME SizesAssumption ==
    /\ InitialSize \in Nat /\ FoodGain \in Nat /\ ReduceIncome \in Nat /\ StopIncome \in Nat
    /\ InitialSize <= StopIncome
    /\ 3 * FoodGain <= StopIncome
    /\ 5 * ReduceIncome <= 4 * StopIncome

VARIABLES
    objectSet,      \* m_objectSet
    listed,         \* the objects in the objectList of their cell
    queue,          \* the objects in m_respawnQueue
    top,            \* its top
    left,           \* what is left of each object's m_respawnTime, negative when passed
    inGrid,         \* the players in a playerList of the cells
    sight,          \* the objects in the near cells of each player's position
    told,           \* see Told below
    size,           \* m_playerSize
    net,            \* the packet handler the network thread is in
    rt,             \* where in Room::Update the room's thread is
    corrupt,        \* the two threads have worked on one container at once
    crossed         \* history: objects whose destruction was sent before their creation

\* told[p]: the objects whose last message to p, since p was placed and they
\* came in its sight, created them at its client.

grid == <<objectSet, listed>>
respawns == <<queue, top, left>>
eaters == <<inGrid, sight, size>>
vars == <<grid, respawns, eaters, told, net, rt, corrupt, crossed>>

Handler == [step : {"idle", "erase", "unlist", "tell", "queue", "collect", "send"},
            who  : Players \cup {Nobody},
            obj  : Objects \cup {Nothing},
            seen : SUBSET Objects]          \* the object blocks of SP_NEW_WORLD
Idle == [step |-> "idle", who |-> Nobody, obj |-> Nothing, seen |-> {}]

Updater == [step : {"players", "test", "take", "pop", "insert", "push", "tell"},
            obj  : Objects \cup {Nothing}]  \* toresp

\* No player grows beyond it, whatever it eats
LargestSize == (133 * StopIncome) \div 100

TypeOK ==
    /\ objectSet \subseteq Objects /\ listed \subseteq Objects /\ queue \subseteq Objects
    /\ top \in Objects \cup {Nothing}
    /\ left \in [Objects -> (-MaxLate) .. Delay]
    /\ inGrid \subseteq Players
    /\ sight \in [Players -> Views]
    /\ told \in [Players -> SUBSET Objects]
    /\ size \in [Players -> Nat]
    /\ net \in Handler /\ rt \in Updater
    /\ corrupt \in BOOLEAN /\ crossed \subseteq Objects

\* GenerateRandomContent has filled the grid before the room's thread starts
Init ==
    /\ objectSet = Objects /\ listed = Objects
    /\ queue = {} /\ top = Nothing /\ left = [o \in Objects |-> 0]
    /\ inGrid = {} /\ sight \in [Players -> Views] /\ told = [p \in Players |-> {}]
    /\ size = [p \in Players |-> InitialSize]
    /\ net = Idle /\ rt = [step |-> "players", obj |-> Nothing]
    /\ corrupt = FALSE /\ crossed = {}

-----------------------------------------------------------------------------

\* Players in a cell near object o: whom a broadcast about o reaches
Near(o) == {p \in inGrid : o \in sight[p]}

\* Mutant: the destruction is not broadcast
DestroyNone(o) == told' = told

\* SP_NEW_OBJECT, or SP_DESTROY_OBJECT, for o to the near cells
Create(o) == told' = [p \in Players |-> IF p \in Near(o) THEN told[p] \cup {o} ELSE told[p]]
Destroy(o) == told' = [p \in Players |-> IF p \in Near(o) THEN told[p] \ {o} ELSE told[p]]

\* Mutant: an object found is told to the mover only if it was in sight before
DiscoversOld(p, view) == (told[p] \cap view) \cup (view \cap sight[p] \cap listed)

\* What p's client knows after a move to a place with that view: the
\* discovery sends it the objects of the cells that have come near
Discovers(p, view) == (told[p] \cap view) \cup ((view \ sight[p]) \cap listed)

\* A player in the grid is moved, by either thread
MovePlayer(p) ==
    /\ p \in inGrid
    /\ \E view \in Views :
         /\ told' = [told EXCEPT ![p] = Discovers(p, view)]
         /\ sight' = [sight EXCEPT ![p] = view]
    /\ UNCHANGED <<grid, respawns, inGrid, size, net, rt, corrupt, crossed>>

-----------------------------------------------------------------------------
(* Sizes. *)

\* Mutant: the income is halved where it should end
GainWithoutEnd(s, income) == IF s >= ReduceIncome THEN income \div 2 ELSE income

\* The part of EatObject that limits what a player of size s gains
Gain(s, income) ==
    IF s >= StopIncome THEN 0
    ELSE IF s >= ReduceIncome THEN income \div 2
    ELSE income

\* Player::ModifySize
Grow(p, income) == size' = [size EXCEPT ![p] = @ + Gain(@, income)]

\* What an eaten player of size s is worth
Worth(s) == (66 * s) \div 100

-----------------------------------------------------------------------------
(* The network thread: handlers of a player's packets. *)

\* HandleWorldRequest, not reinitializing: the player is placed and begins
\* anew.  (A second request of one who is in the grid: see World.)
WorldRequest(p) ==
    /\ net = Idle /\ p \notin inGrid
    /\ inGrid' = inGrid \cup {p}
    /\ \E view \in Views : sight' = [sight EXCEPT ![p] = view]
    /\ told' = [told EXCEPT ![p] = {}]
    /\ size' = [size EXCEPT ![p] = InitialSize]
    /\ net' = [Idle EXCEPT !.step = "collect", !.who = p]
    /\ UNCHANGED <<grid, respawns, rt, corrupt, crossed>>

\* HandleWorldRequest, reinitializing
WorldRequestAgain(p) ==
    /\ net = Idle
    /\ net' = [Idle EXCEPT !.step = "collect", !.who = p]
    /\ UNCHANGED <<grid, respawns, eaters, told, rt, corrupt, crossed>>

\* BuildObjectCreateBlock
CollectObjects ==
    /\ net.step = "collect"
    /\ net' = [net EXCEPT !.step = "send", !.seen = sight[net.who] \cap listed]
    /\ UNCHANGED <<grid, respawns, eaters, told, rt, corrupt, crossed>>

\* SP_NEW_WORLD is sent
SendWorld ==
    LET p == net.who IN
    /\ net.step = "send" /\ net' = Idle
    /\ told' = [told EXCEPT ![p] = @ \cup (net.seen \cap sight[p])]
    /\ UNCHANGED <<grid, respawns, eaters, rt, corrupt, crossed>>

\* HandleMoveStart, HandleMoveStop, HandleMoveHeartbeat
HandleMove(p) == net = Idle /\ MovePlayer(p)

\* RemovePlayerFromGrid, of a player that leaves the room
HandlePlayerExit(p) ==
    /\ net = Idle /\ p \in inGrid
    /\ inGrid' = inGrid \ {p}
    /\ told' = [told EXCEPT ![p] = {}]
    /\ UNCHANGED <<grid, respawns, sight, size, net, rt, corrupt, crossed>>

\* HandleEatRequest for a player q in sight, p itself included: the larger
\* one eats the other, which is taken off the grid
EatPlayer(p, q) ==
    LET eater  == IF size[q] > size[p] THEN q ELSE p
        victim == IF size[q] > size[p] THEN p ELSE q
    IN  /\ net = Idle /\ q \in inGrid
        /\ Grow(eater, Worth(size[victim]))
        /\ inGrid' = inGrid \ {victim}
        /\ told' = [told EXCEPT ![victim] = {}]
        /\ UNCHANGED <<grid, respawns, sight, net, rt, corrupt, crossed>>

\* HandleEatRequest for an object in sight: EatObject, up to the removal
EatObject(p, o) ==
    /\ net = Idle /\ o \in sight[p] \cap listed
    /\ Grow(p, IF o \in Edible THEN FoodGain ELSE 0)
    /\ net' = [Idle EXCEPT !.step = "erase", !.who = p, !.obj = o]
    /\ UNCHANGED <<grid, respawns, inGrid, sight, told, rt, corrupt, crossed>>

\* Mutant: the object stays in the room
EraseNothing ==
    /\ net.step = "erase" /\ net' = [net EXCEPT !.step = "queue"]
    /\ UNCHANGED <<grid, respawns, eaters, told, rt, corrupt, crossed>>

\* RemoveWorldObject: off m_objectSet, if it is there
EraseObject ==
    /\ net.step = "erase"
    /\ net' = [net EXCEPT !.step = IF net.obj \in objectSet THEN "unlist" ELSE "queue"]
    /\ objectSet' = objectSet \ {net.obj}
    /\ UNCHANGED <<listed, respawns, eaters, told, rt, corrupt, crossed>>

\* _RemoveWorldObject: off its cell's list
UnlistObject ==
    /\ net.step = "unlist"
    /\ net' = [net EXCEPT !.step = "tell"]
    /\ listed' = listed \ {net.obj}
    /\ UNCHANGED <<objectSet, respawns, eaters, told, rt, corrupt, crossed>>

\* and SP_DESTROY_OBJECT to the near cells
TellDestroyed ==
    /\ net.step = "tell"
    /\ net' = [net EXCEPT !.step = "queue"]
    /\ Destroy(net.obj)
    /\ crossed' = IF rt.step = "tell" THEN crossed \cup ({rt.obj} \cap {net.obj}) ELSE crossed
    /\ UNCHANGED <<grid, respawns, eaters, rt, corrupt>>

\* Mutant: RespawnTimeComparator compares the other way round
LaterFirst(a, b) == a > b

\* RespawnTimeComparator: a respawn time a comes before b
Earlier(a, b) == a < b

\* Mutant: an eaten object is not queued
QueueNothing ==
    /\ net.step = "queue" /\ net' = Idle
    /\ UNCHANGED <<grid, respawns, eaters, told, rt, corrupt, crossed>>

\* QueueWorldObjectForRespawn: the object becomes the top if its time is
\* earlier than the top's
QueueObject ==
    LET o == net.obj IN
    /\ net.step = "queue" /\ net' = Idle
    /\ left' = [left EXCEPT ![o] = Delay]
    /\ queue' = queue \cup {o}
    /\ top' = IF top = Nothing \/ Earlier(Delay, left[top]) THEN o ELSE top
    /\ UNCHANGED <<grid, eaters, told, rt, corrupt, crossed>>

EatSteps == EraseObject \/ UnlistObject \/ TellDestroyed \/ QueueObject

Handling == CollectObjects \/ SendWorld \/ EatSteps

Handlers ==
    \/ \E p \in Players : \/ WorldRequest(p) \/ WorldRequestAgain(p)
                          \/ HandleMove(p) \/ HandlePlayerExit(p)
    \/ \E p, q \in Players : EatPlayer(p, q)
    \/ \E p \in Players, o \in Objects : EatObject(p, o)

-----------------------------------------------------------------------------
(* The room's thread: Room::Update. *)

\* The walk over the players moves those who are moving
UpdatePlayer(p) == rt.step = "players" /\ MovePlayer(p)

\* and ends
EndPlayers ==
    /\ rt.step = "players" /\ rt' = [rt EXCEPT !.step = "test"]
    /\ UNCHANGED <<grid, respawns, eaters, told, net, corrupt, crossed>>

\* Mutant: an empty queue passes the test
DueOrEmpty == top = Nothing \/ left[top] <= 0

\* The queue is not empty and the time of its top has come
Due == top # Nothing /\ left[top] <= 0

\* The loop condition
TestQueue ==
    /\ rt.step = "test"
    /\ rt' = [rt EXCEPT !.step = IF Due THEN "take" ELSE "players"]
    /\ UNCHANGED <<grid, respawns, eaters, told, net, corrupt, crossed>>

\* toresp = top()
TakeTop ==
    /\ rt.step = "take" /\ rt' = [step |-> "pop", obj |-> top]
    /\ UNCHANGED <<grid, respawns, eaters, told, net, corrupt, crossed>>

\* pop(): an object with an earliest time is the new top
PopTop ==
    LET rest == queue \ {top} IN
    /\ rt.step = "pop" /\ rt' = [rt EXCEPT !.step = "insert"]
    /\ queue' = rest
    /\ \/ rest = {} /\ top' = Nothing
       \/ top' \in {o \in rest : \A x \in rest : ~Earlier(left[x], left[o])}
    /\ UNCHANGED <<grid, left, eaters, told, net, corrupt, crossed>>

\* RespawnObject and AddWorldObject: into m_objectSet, if it is not there
InsertObject ==
    LET o == rt.obj IN
    /\ rt.step = "insert"
    /\ rt' = IF o \in objectSet THEN [step |-> "test", obj |-> Nothing]
             ELSE [rt EXCEPT !.step = "push"]
    /\ objectSet' = objectSet \cup {o}
    /\ left' = [left EXCEPT ![o] = 0]
    /\ UNCHANGED <<listed, queue, top, eaters, told, net, corrupt, crossed>>

\* into its cell's list
PushObject ==
    /\ rt.step = "push" /\ rt' = [rt EXCEPT !.step = "tell"]
    /\ listed' = listed \cup {rt.obj}
    /\ crossed' = crossed \ {rt.obj}
    /\ UNCHANGED <<objectSet, respawns, eaters, told, net, corrupt>>

\* and SP_NEW_OBJECT to the near cells
TellCreated ==
    /\ rt.step = "tell" /\ rt' = [step |-> "test", obj |-> Nothing]
    /\ Create(rt.obj)
    /\ UNCHANGED <<grid, respawns, eaters, net, corrupt, crossed>>

Respawning == TestQueue \/ TakeTop \/ PopTop \/ InsertObject \/ PushObject \/ TellCreated

RoomThread == (\E p \in Players : UpdatePlayer(p)) \/ EndPlayers \/ Respawning

-----------------------------------------------------------------------------

\* Both threads are about to use one container, and one of them changes it
Conflict ==
    \/ net.step = "erase" /\ rt.step = "insert"                      \* m_objectSet
    \/ net.step \in {"idle", "unlist", "collect"} /\ rt.step = "push"  \* objectList
    \/ net.step = "unlist" /\ rt.step = "players"
    \/ net.step = "queue" /\ rt.step \in {"test", "take", "pop"}     \* m_respawnQueue

\* If they overlap, nothing is known of what comes after it.  They need not:
\* one after the other, in either order, is the other outcome.
DataRace ==
    /\ Conflict /\ corrupt' = TRUE
    /\ UNCHANGED <<grid, respawns, eaters, told, net, rt, crossed>>

\* A second passes.  The room's thread is never later than MaxLate seconds.
Tick ==
    /\ \A o \in queue : left[o] > -MaxLate
    /\ left' = [o \in Objects |-> IF o \in queue THEN left[o] - 1 ELSE left[o]]
    /\ UNCHANGED <<grid, queue, top, eaters, told, net, rt, corrupt, crossed>>

Next == ~corrupt /\ (Handlers \/ Handling \/ RoomThread \/ DataRace \/ Tick)

Spec == Init /\ [][Next]_vars

-----------------------------------------------------------------------------
(* Safety, as long as the threads' accesses do not overlap. *)

\* Who holds o outside the grid and the queue: the handler that eats it, the
\* room's thread that respawns it
Eaten(o) == net.obj = o /\ net.step \in {"unlist", "tell", "queue"}
Returning(o) == rt.obj = o /\ rt.step = "insert"

\* Every object is at exactly one place: in m_objectSet, in the queue, or in
\* the hands of one thread; and what is in the set is in its cell's list but
\* for the moment between the two changes.
FoodConserved ==
    ~corrupt =>
        \A o \in Objects :
            /\ o \in objectSet <=> o \notin queue /\ ~Eaten(o) /\ ~Returning(o)
            /\ o \in queue => ~Eaten(o) /\ ~Returning(o)
            /\ ~(Eaten(o) /\ Returning(o))
            /\ o \in listed <=>
                  (o \in objectSet /\ ~(rt.obj = o /\ rt.step = "push"))
                     \/ (net.obj = o /\ net.step = "unlist")

\* The object pop() removes is the one top() returned: no push in between has
\* taken its place at the top.
PopsWhatItTook == ~corrupt /\ rt.step = "pop" => top = rt.obj /\ rt.obj \in queue

\* A player in the grid has been told of every object it can see, but of the
\* one whose creation is being sent, and while its world packet is written.
FoodKnown ==
    ~corrupt =>
        \A p \in inGrid : \A o \in sight[p] \cap listed :
            \/ o \in told[p]
            \/ rt.obj = o /\ rt.step = "tell"
            \/ net.who = p /\ net.step \in {"collect", "send"}

\* A client keeps an object that is gone only while its destruction is being
\* sent, or when it was eaten between its respawn and the creation packet.
NoGhostFood ==
    ~corrupt =>
        \A p \in inGrid : \A o \in told[p] :
            o \in listed \/ o \in crossed \/ (net.obj = o /\ net.step = "tell")

\* No player outgrows the limits of the income, whoever eats whom
SizesBounded == \A p \in Players : size[p] <= LargestSize

-----------------------------------------------------------------------------
(* Liveness: both threads go on, and time passes. *)

FairSpec ==
    /\ Spec
    /\ WF_vars(~corrupt /\ Handling)
    /\ WF_vars(~corrupt /\ EndPlayers)
    /\ WF_vars(~corrupt /\ Respawning)
    /\ WF_vars(~corrupt /\ Tick)

\* Whatever is eaten comes back
FoodComesBack == \A o \in Objects : o \notin objectSet ~> o \in listed \/ corrupt

=============================================================================
