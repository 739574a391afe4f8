---------------------------- MODULE Food_proofs ----------------------------
(***************************************************************************)
(* Proofs about Food for every set of players and objects, every delay and *)
(* every choice of the sizes' limits: food is neither lost nor doubled,    *)
(* clients know the food they see, and sizes stay bounded, as long as the  *)
(* accesses of the two threads do not overlap.                             *)
(***************************************************************************)
EXTENDS Food, TLAPS

-----------------------------------------------------------------------------
(* The inductive invariant.  A behaviour ends when the state is corrupt,   *)
(* so it holds in every state.                                             *)

Handled == {"erase", "unlist", "tell", "queue"}
Respawned == {"pop", "insert", "push", "tell"}

\* What the two threads have in hand
HandsOK ==
    /\ net.step \in Handled => net.obj \in Objects
    /\ net.step \in {"collect", "send"} => net.who \in Players
    /\ net.step = "send" => net.seen \subseteq listed
    /\ net.step = "erase" => net.obj \in objectSet /\ net.obj \in listed
    /\ rt.step \in Respawned => rt.obj \in Objects
    /\ rt.step = "push" => rt.obj \in objectSet

Eats(o, s) == net.obj = o /\ net.step = s
Returns(o, s) == rt.obj = o /\ rt.step = s

\* The place of one object
Placed(o) ==
    /\ o \in objectSet <=> o \notin queue /\ ~Eaten(o) /\ ~Returning(o)
    /\ o \in queue => ~Eaten(o) /\ ~Returning(o)
    /\ ~(Eaten(o) /\ Returning(o))
    /\ o \in listed <=> (o \in objectSet /\ ~Returns(o, "push")) \/ Eats(o, "unlist")

PlacedOK == \A o \in Objects : Placed(o)

\* The queue has a top unless it is empty, and the room's thread has seen it
TopOK ==
    /\ top = Nothing <=> queue = {}
    /\ top # Nothing => top \in queue
    /\ rt.step = "take" => top # Nothing
    /\ rt.step = "pop" => top = rt.obj /\ rt.obj \in queue

\* A client is only told of what it sees, knows it, or is about to
Knows(p) ==
    /\ told[p] \subseteq sight[p]
    /\ \/ net.who = p /\ net.step = "collect"
       \/ \A o \in sight[p] \cap listed :
             \/ o \in told[p]
             \/ Returns(o, "tell")
             \/ net.who = p /\ net.step = "send" /\ o \in net.seen
    /\ \A o \in told[p] : o \in listed \/ o \in crossed \/ Eats(o, "tell")

KnowsOK == \A p \in inGrid : Knows(p)

\* What is being created has not been destroyed since, or it is noted
CreatedOK ==
    \A o \in Objects :
        Returns(o, "tell") => o \in listed \/ o \in crossed \/ Eats(o, "tell")

IInv == TypeOK /\ HandsOK /\ PlacedOK /\ TopOK /\ KnowsOK /\ CreatedOK /\ SizesBounded

-----------------------------------------------------------------------------

\* The initial size is within the bound, and the income keeps it: EatObject
\* lets nobody gain more than a third of a size below the limits.
LEMMA GainBounded ==
    /\ InitialSize <= LargestSize
    /\ \A s, v \in Nat :
         s <= LargestSize /\ v <= s =>
           /\ s + Gain(s, Worth(v)) \in Nat /\ s + Gain(s, Worth(v)) <= LargestSize
           /\ s + Gain(s, FoodGain) \in Nat /\ s + Gain(s, FoodGain) <= LargestSize
           /\ s + Gain(s, 0) = s
<1>1. InitialSize <= LargestSize
  BY SizesAssumption DEF LargestSize
<1>2. ASSUME NEW s \in Nat, NEW v \in Nat, s <= LargestSize, v <= s
      PROVE  /\ s + Gain(s, Worth(v)) \in Nat /\ s + Gain(s, Worth(v)) <= LargestSize
             /\ s + Gain(s, FoodGain) \in Nat /\ s + Gain(s, FoodGain) <= LargestSize
             /\ s + Gain(s, 0) = s
  <2>1. CASE s >= StopIncome
    BY <2>1, <1>2, SizesAssumption DEF Gain
  <2>2. CASE s < StopIncome /\ s >= ReduceIncome
    BY <2>2, <1>2, SizesAssumption DEF Gain, Worth, LargestSize
  <2>3. CASE s < StopIncome /\ s < ReduceIncome
    BY <2>3, <1>2, SizesAssumption DEF Gain, Worth, LargestSize
  <2> QED BY <2>1, <2>2, <2>3, SizesAssumption
<1> QED BY <1>1, <1>2

-----------------------------------------------------------------------------
(* Every step keeps the invariant. *)

\* The types
LEMMA TypeStep == IInv /\ Next => TypeOK'
<1> SUFFICES ASSUME IInv, Next PROVE TypeOK'
  OBVIOUS
<1>1. ASSUME NEW p \in Players, WorldRequest(p) PROVE TypeOK'
  <2>1. sight' \in [Players -> Views] /\ told' \in [Players -> SUBSET Objects] /\ size' \in [Players -> Nat]
    BY <1>1, SizesAssumption DEF IInv, TypeOK, WorldRequest
  <2>2. net' \in Handler
    BY <1>1 DEF WorldRequest, Handler, Idle
  <2> QED BY <1>1, <2>1, <2>2 DEF IInv, TypeOK, Handler, Updater, Idle, grid, respawns, eaters, WorldRequest
<1>2. ASSUME NEW p \in Players, WorldRequestAgain(p) PROVE TypeOK'
  BY <1>2 DEF IInv, HandsOK, Handled, Respawned, TopOK, SizesBounded, TypeOK, Handler, Updater, Idle, grid, respawns, eaters, WorldRequestAgain
<1>3. ASSUME NEW p \in Players, HandleMove(p) PROVE TypeOK'
  BY <1>3 DEF IInv, HandsOK, Handled, Respawned, TopOK, SizesBounded, TypeOK, Handler, Updater, Idle, grid, respawns, eaters, HandleMove, MovePlayer, Discovers
<1>4. ASSUME NEW p \in Players, HandlePlayerExit(p) PROVE TypeOK'
  BY <1>4 DEF IInv, HandsOK, Handled, Respawned, TopOK, SizesBounded, TypeOK, Handler, Updater, Idle, grid, respawns, eaters, HandlePlayerExit
<1>5. ASSUME NEW p \in Players, NEW q \in Players, EatPlayer(p, q) PROVE TypeOK'
  BY <1>5, GainBounded DEF IInv, HandsOK, Handled, Respawned, TopOK, SizesBounded, TypeOK, Handler, Updater, Idle, grid, respawns, eaters, EatPlayer, Grow
<1>6. ASSUME NEW p \in Players, NEW o \in Objects, EatObject(p, o) PROVE TypeOK'
  <2>1. size' \in [Players -> Nat]
    BY <1>6, GainBounded, SizesAssumption DEF IInv, TypeOK, SizesBounded, EatObject, Grow
  <2>2. net' \in Handler
    BY <1>6 DEF EatObject, Handler, Idle
  <2> QED BY <1>6, <2>1, <2>2 DEF IInv, TypeOK, Handler, Updater, Idle, grid, respawns, eaters, EatObject
<1>7. CASE CollectObjects
  BY <1>7 DEF IInv, HandsOK, Handled, Respawned, TopOK, SizesBounded, TypeOK, Handler, Updater, Idle, grid, respawns, eaters, CollectObjects
<1>8. CASE SendWorld
  BY <1>8 DEF IInv, HandsOK, Handled, Respawned, TopOK, SizesBounded, TypeOK, Handler, Updater, Idle, grid, respawns, eaters, SendWorld
<1>9. CASE EraseObject
  BY <1>9 DEF IInv, HandsOK, Handled, Respawned, TopOK, SizesBounded, TypeOK, Handler, Updater, Idle, grid, respawns, eaters, EraseObject
<1>10. CASE UnlistObject
  BY <1>10 DEF IInv, HandsOK, Handled, Respawned, TopOK, SizesBounded, TypeOK, Handler, Updater, Idle, grid, respawns, eaters, UnlistObject
<1>11. CASE TellDestroyed
  BY <1>11 DEF IInv, HandsOK, Handled, Respawned, TopOK, SizesBounded, TypeOK, Handler, Updater, Idle, grid, respawns, eaters, TellDestroyed, Destroy, Near
<1>12. CASE QueueObject
  BY <1>12, TimesAssumption DEF IInv, HandsOK, Handled, Respawned, TopOK, SizesBounded, TypeOK, Handler, Updater, Idle, grid, respawns, eaters, QueueObject, Earlier
<1>13. ASSUME NEW p \in Players, UpdatePlayer(p) PROVE TypeOK'
  BY <1>13 DEF IInv, HandsOK, Handled, Respawned, TopOK, SizesBounded, TypeOK, Handler, Updater, Idle, grid, respawns, eaters, UpdatePlayer, MovePlayer, Discovers
<1>14. CASE EndPlayers
  BY <1>14 DEF IInv, HandsOK, Handled, Respawned, TopOK, SizesBounded, TypeOK, Handler, Updater, Idle, grid, respawns, eaters, EndPlayers
<1>15. CASE TestQueue
  BY <1>15 DEF IInv, HandsOK, Handled, Respawned, TopOK, SizesBounded, TypeOK, Handler, Updater, Idle, grid, respawns, eaters, TestQueue, Due
<1>16. CASE TakeTop
  BY <1>16 DEF IInv, HandsOK, Handled, Respawned, TopOK, SizesBounded, TypeOK, Handler, Updater, Idle, grid, respawns, eaters, TakeTop
<1>17. CASE PopTop
  BY <1>17 DEF IInv, HandsOK, Handled, Respawned, TopOK, SizesBounded, TypeOK, Handler, Updater, Idle, grid, respawns, eaters, PopTop, Earlier
<1>18. CASE InsertObject
  BY <1>18, TimesAssumption DEF IInv, HandsOK, Handled, Respawned, TopOK, SizesBounded, TypeOK, Handler, Updater, Idle, grid, respawns, eaters, InsertObject
<1>19. CASE PushObject
  BY <1>19 DEF IInv, HandsOK, Handled, Respawned, TopOK, SizesBounded, TypeOK, Handler, Updater, Idle, grid, respawns, eaters, PushObject
<1>20. CASE TellCreated
  BY <1>20 DEF IInv, HandsOK, Handled, Respawned, TopOK, SizesBounded, TypeOK, Handler, Updater, Idle, grid, respawns, eaters, TellCreated, Create, Near
<1>21. CASE DataRace
  BY <1>21 DEF IInv, HandsOK, Handled, Respawned, TopOK, SizesBounded, TypeOK, Handler, Updater, Idle, grid, respawns, eaters, DataRace
<1>22. CASE Tick
  BY <1>22, TimesAssumption DEF IInv, HandsOK, Handled, Respawned, TopOK, SizesBounded, TypeOK, Handler, Updater, Idle, grid, respawns, eaters, Tick
<1> QED BY <1>1, <1>2, <1>3, <1>4, <1>5, <1>6, <1>7, <1>8, <1>9, <1>10, <1>11, <1>12, <1>13, <1>14, <1>15, <1>16, <1>17, <1>18, <1>19, <1>20, <1>21, <1>22 DEF Next, Handlers, Handling, EatSteps, RoomThread, Respawning

\* What the threads have in hand
LEMMA HandsStep == IInv /\ Next => HandsOK'
<1> SUFFICES ASSUME IInv, Next PROVE HandsOK'
  OBVIOUS
<1>1. ASSUME NEW p \in Players, WorldRequest(p) PROVE HandsOK'
  BY <1>1 DEF IInv, HandsOK, TopOK, PlacedOK, Placed, Eaten, Returning, Eats, Returns, Handled, Respawned, TypeOK, Handler, Updater, Idle, grid, respawns, eaters, WorldRequest
<1>2. ASSUME NEW p \in Players, WorldRequestAgain(p) PROVE HandsOK'
  BY <1>2 DEF IInv, HandsOK, TopOK, PlacedOK, Placed, Eaten, Returning, Eats, Returns, Handled, Respawned, TypeOK, Handler, Updater, Idle, grid, respawns, eaters, WorldRequestAgain
<1>3. ASSUME NEW p \in Players, HandleMove(p) PROVE HandsOK'
  BY <1>3 DEF IInv, HandsOK, TopOK, PlacedOK, Placed, Eaten, Returning, Eats, Returns, Handled, Respawned, TypeOK, Handler, Updater, Idle, grid, respawns, eaters, HandleMove, MovePlayer, Discovers
<1>4. ASSUME NEW p \in Players, HandlePlayerExit(p) PROVE HandsOK'
  BY <1>4 DEF IInv, HandsOK, TopOK, PlacedOK, Placed, Eaten, Returning, Eats, Returns, Handled, Respawned, TypeOK, Handler, Updater, Idle, grid, respawns, eaters, HandlePlayerExit
<1>5. ASSUME NEW p \in Players, NEW q \in Players, EatPlayer(p, q) PROVE HandsOK'
  BY <1>5 DEF IInv, HandsOK, TopOK, PlacedOK, Placed, Eaten, Returning, Eats, Returns, Handled, Respawned, TypeOK, Handler, Updater, Idle, grid, respawns, eaters, EatPlayer, Grow
<1>6. ASSUME NEW p \in Players, NEW o \in Objects, EatObject(p, o) PROVE HandsOK'
  BY <1>6 DEF IInv, HandsOK, TopOK, PlacedOK, Placed, Eaten, Returning, Eats, Returns, Handled, Respawned, TypeOK, Handler, Updater, Idle, grid, respawns, eaters, EatObject, Grow
<1>7. CASE CollectObjects
  BY <1>7 DEF IInv, HandsOK, TopOK, PlacedOK, Placed, Eaten, Returning, Eats, Returns, Handled, Respawned, TypeOK, Handler, Updater, Idle, grid, respawns, eaters, CollectObjects
<1>8. CASE SendWorld
  BY <1>8 DEF IInv, HandsOK, TopOK, PlacedOK, Placed, Eaten, Returning, Eats, Returns, Handled, Respawned, TypeOK, Handler, Updater, Idle, grid, respawns, eaters, SendWorld
<1>9. CASE EraseObject
  BY <1>9 DEF IInv, HandsOK, TopOK, PlacedOK, Placed, Eaten, Returning, Eats, Returns, Handled, Respawned, TypeOK, Handler, Updater, Idle, grid, respawns, eaters, EraseObject
<1>10. CASE UnlistObject
  BY <1>10 DEF IInv, HandsOK, TopOK, PlacedOK, Placed, Eaten, Returning, Eats, Returns, Handled, Respawned, TypeOK, Handler, Updater, Idle, grid, respawns, eaters, UnlistObject
<1>11. CASE TellDestroyed
  BY <1>11 DEF IInv, HandsOK, TopOK, PlacedOK, Placed, Eaten, Returning, Eats, Returns, Handled, Respawned, TypeOK, Handler, Updater, Idle, grid, respawns, eaters, TellDestroyed, Destroy, Near
<1>12. CASE QueueObject
  BY <1>12 DEF IInv, HandsOK, TopOK, PlacedOK, Placed, Eaten, Returning, Eats, Returns, Handled, Respawned, TypeOK, Handler, Updater, Idle, grid, respawns, eaters, QueueObject, Earlier
<1>13. ASSUME NEW p \in Players, UpdatePlayer(p) PROVE HandsOK'
  BY <1>13 DEF IInv, HandsOK, TopOK, PlacedOK, Placed, Eaten, Returning, Eats, Returns, Handled, Respawned, TypeOK, Handler, Updater, Idle, grid, respawns, eaters, UpdatePlayer, MovePlayer, Discovers
<1>14. CASE EndPlayers
  BY <1>14 DEF IInv, HandsOK, TopOK, PlacedOK, Placed, Eaten, Returning, Eats, Returns, Handled, Respawned, TypeOK, Handler, Updater, Idle, grid, respawns, eaters, EndPlayers
<1>15. CASE TestQueue
  BY <1>15 DEF IInv, HandsOK, TopOK, PlacedOK, Placed, Eaten, Returning, Eats, Returns, Handled, Respawned, TypeOK, Handler, Updater, Idle, grid, respawns, eaters, TestQueue, Due
<1>16. CASE TakeTop
  BY <1>16 DEF IInv, HandsOK, TopOK, PlacedOK, Placed, Eaten, Returning, Eats, Returns, Handled, Respawned, TypeOK, Handler, Updater, Idle, grid, respawns, eaters, TakeTop
<1>17. CASE PopTop
  BY <1>17 DEF IInv, HandsOK, TopOK, PlacedOK, Placed, Eaten, Returning, Eats, Returns, Handled, Respawned, TypeOK, Handler, Updater, Idle, grid, respawns, eaters, PopTop, Earlier
<1>18. CASE InsertObject
  BY <1>18 DEF IInv, HandsOK, TopOK, PlacedOK, Placed, Eaten, Returning, Eats, Returns, Handled, Respawned, TypeOK, Handler, Updater, Idle, grid, respawns, eaters, InsertObject
<1>19. CASE PushObject
  BY <1>19 DEF IInv, HandsOK, TopOK, PlacedOK, Placed, Eaten, Returning, Eats, Returns, Handled, Respawned, TypeOK, Handler, Updater, Idle, grid, respawns, eaters, PushObject
<1>20. CASE TellCreated
  BY <1>20 DEF IInv, HandsOK, TopOK, PlacedOK, Placed, Eaten, Returning, Eats, Returns, Handled, Respawned, TypeOK, Handler, Updater, Idle, grid, respawns, eaters, TellCreated, Create, Near
<1>21. CASE DataRace
  BY <1>21 DEF IInv, HandsOK, TopOK, PlacedOK, Placed, Eaten, Returning, Eats, Returns, Handled, Respawned, TypeOK, Handler, Updater, Idle, grid, respawns, eaters, DataRace
<1>22. CASE Tick
  BY <1>22 DEF IInv, HandsOK, TopOK, PlacedOK, Placed, Eaten, Returning, Eats, Returns, Handled, Respawned, TypeOK, Handler, Updater, Idle, grid, respawns, eaters, Tick
<1> QED BY <1>1, <1>2, <1>3, <1>4, <1>5, <1>6, <1>7, <1>8, <1>9, <1>10, <1>11, <1>12, <1>13, <1>14, <1>15, <1>16, <1>17, <1>18, <1>19, <1>20, <1>21, <1>22 DEF Next, Handlers, Handling, EatSteps, RoomThread, Respawning

\* The places of the objects
LEMMA PlacesStep == IInv /\ Next => PlacedOK'
<1> SUFFICES ASSUME IInv, Next PROVE PlacedOK'
  OBVIOUS
<1>1. ASSUME NEW p \in Players, WorldRequest(p) PROVE PlacedOK'
  BY <1>1 DEF IInv, HandsOK, TopOK, PlacedOK, Placed, Eaten, Returning, Eats, Returns, Handled, Respawned, TypeOK, Handler, Updater, Idle, grid, respawns, eaters, WorldRequest
<1>2. ASSUME NEW p \in Players, WorldRequestAgain(p) PROVE PlacedOK'
  BY <1>2 DEF IInv, HandsOK, TopOK, PlacedOK, Placed, Eaten, Returning, Eats, Returns, Handled, Respawned, TypeOK, Handler, Updater, Idle, grid, respawns, eaters, WorldRequestAgain
<1>3. ASSUME NEW p \in Players, HandleMove(p) PROVE PlacedOK'
  BY <1>3 DEF IInv, HandsOK, TopOK, PlacedOK, Placed, Eaten, Returning, Eats, Returns, Handled, Respawned, TypeOK, Handler, Updater, Idle, grid, respawns, eaters, HandleMove, MovePlayer, Discovers
<1>4. ASSUME NEW p \in Players, HandlePlayerExit(p) PROVE PlacedOK'
  BY <1>4 DEF IInv, HandsOK, TopOK, PlacedOK, Placed, Eaten, Returning, Eats, Returns, Handled, Respawned, TypeOK, Handler, Updater, Idle, grid, respawns, eaters, HandlePlayerExit
<1>5. ASSUME NEW p \in Players, NEW q \in Players, EatPlayer(p, q) PROVE PlacedOK'
  BY <1>5 DEF IInv, HandsOK, TopOK, PlacedOK, Placed, Eaten, Returning, Eats, Returns, Handled, Respawned, TypeOK, Handler, Updater, Idle, grid, respawns, eaters, EatPlayer, Grow
<1>6. ASSUME NEW p \in Players, NEW o \in Objects, EatObject(p, o) PROVE PlacedOK'
  BY <1>6 DEF IInv, HandsOK, TopOK, PlacedOK, Placed, Eaten, Returning, Eats, Returns, Handled, Respawned, TypeOK, Handler, Updater, Idle, grid, respawns, eaters, EatObject, Grow
<1>7. CASE CollectObjects
  BY <1>7 DEF IInv, HandsOK, TopOK, PlacedOK, Placed, Eaten, Returning, Eats, Returns, Handled, Respawned, TypeOK, Handler, Updater, Idle, grid, respawns, eaters, CollectObjects
<1>8. CASE SendWorld
  BY <1>8 DEF IInv, HandsOK, TopOK, PlacedOK, Placed, Eaten, Returning, Eats, Returns, Handled, Respawned, TypeOK, Handler, Updater, Idle, grid, respawns, eaters, SendWorld
<1>9. CASE EraseObject
  BY <1>9 DEF IInv, HandsOK, TopOK, PlacedOK, Placed, Eaten, Returning, Eats, Returns, Handled, Respawned, TypeOK, Handler, Updater, Idle, grid, respawns, eaters, EraseObject
<1>10. CASE UnlistObject
  BY <1>10 DEF IInv, HandsOK, TopOK, PlacedOK, Placed, Eaten, Returning, Eats, Returns, Handled, Respawned, TypeOK, Handler, Updater, Idle, grid, respawns, eaters, UnlistObject
<1>11. CASE TellDestroyed
  BY <1>11 DEF IInv, HandsOK, TopOK, PlacedOK, Placed, Eaten, Returning, Eats, Returns, Handled, Respawned, TypeOK, Handler, Updater, Idle, grid, respawns, eaters, TellDestroyed, Destroy, Near
<1>12. CASE QueueObject
  BY <1>12 DEF IInv, HandsOK, TopOK, PlacedOK, Placed, Eaten, Returning, Eats, Returns, Handled, Respawned, TypeOK, Handler, Updater, Idle, grid, respawns, eaters, QueueObject, Earlier
<1>13. ASSUME NEW p \in Players, UpdatePlayer(p) PROVE PlacedOK'
  BY <1>13 DEF IInv, HandsOK, TopOK, PlacedOK, Placed, Eaten, Returning, Eats, Returns, Handled, Respawned, TypeOK, Handler, Updater, Idle, grid, respawns, eaters, UpdatePlayer, MovePlayer, Discovers
<1>14. CASE EndPlayers
  BY <1>14 DEF IInv, HandsOK, TopOK, PlacedOK, Placed, Eaten, Returning, Eats, Returns, Handled, Respawned, TypeOK, Handler, Updater, Idle, grid, respawns, eaters, EndPlayers
<1>15. CASE TestQueue
  BY <1>15 DEF IInv, HandsOK, TopOK, PlacedOK, Placed, Eaten, Returning, Eats, Returns, Handled, Respawned, TypeOK, Handler, Updater, Idle, grid, respawns, eaters, TestQueue, Due
<1>16. CASE TakeTop
  BY <1>16 DEF IInv, HandsOK, TopOK, PlacedOK, Placed, Eaten, Returning, Eats, Returns, Handled, Respawned, TypeOK, Handler, Updater, Idle, grid, respawns, eaters, TakeTop
<1>17. CASE PopTop
  BY <1>17 DEF IInv, HandsOK, TopOK, PlacedOK, Placed, Eaten, Returning, Eats, Returns, Handled, Respawned, TypeOK, Handler, Updater, Idle, grid, respawns, eaters, PopTop, Earlier
<1>18. CASE InsertObject
  BY <1>18 DEF IInv, HandsOK, TopOK, PlacedOK, Placed, Eaten, Returning, Eats, Returns, Handled, Respawned, TypeOK, Handler, Updater, Idle, grid, respawns, eaters, InsertObject
<1>19. CASE PushObject
  <2>1. PICK o \in Objects : o = rt.obj /\ o \in objectSet
    BY <1>19 DEF IInv, HandsOK, Respawned, PushObject
  <2>2. \A x \in Objects : Placed(x)
    BY DEF IInv, PlacedOK
  <2>3. rt' = [rt EXCEPT !.step = "tell"] /\ listed' = listed \cup {o} /\ UNCHANGED <<objectSet, queue, net>>
    BY <1>19, <2>1 DEF PushObject, respawns
  <2>4. rt.step = "push" /\ rt'.obj = o /\ rt'.step = "tell"
    BY <1>19, <2>1, <2>3 DEF IInv, TypeOK, Updater, PushObject
  <2>5. ASSUME NEW x \in Objects PROVE Placed(x)'
    BY <2>1, <2>2, <2>3, <2>4 DEF Placed, Eaten, Returning, Eats, Returns
  <2> QED BY <2>5 DEF PlacedOK
<1>20. CASE TellCreated
  BY <1>20 DEF IInv, HandsOK, TopOK, PlacedOK, Placed, Eaten, Returning, Eats, Returns, Handled, Respawned, TypeOK, Handler, Updater, Idle, grid, respawns, eaters, TellCreated, Create, Near
<1>21. CASE DataRace
  BY <1>21 DEF IInv, HandsOK, TopOK, PlacedOK, Placed, Eaten, Returning, Eats, Returns, Handled, Respawned, TypeOK, Handler, Updater, Idle, grid, respawns, eaters, DataRace
<1>22. CASE Tick
  BY <1>22 DEF IInv, HandsOK, TopOK, PlacedOK, Placed, Eaten, Returning, Eats, Returns, Handled, Respawned, TypeOK, Handler, Updater, Idle, grid, respawns, eaters, Tick
<1> QED BY <1>1, <1>2, <1>3, <1>4, <1>5, <1>6, <1>7, <1>8, <1>9, <1>10, <1>11, <1>12, <1>13, <1>14, <1>15, <1>16, <1>17, <1>18, <1>19, <1>20, <1>21, <1>22 DEF Next, Handlers, Handling, EatSteps, RoomThread, Respawning

\* The queue and its top
LEMMA TopStep == IInv /\ Next => TopOK'
<1> SUFFICES ASSUME IInv, Next PROVE TopOK'
  OBVIOUS
<1>1. ASSUME NEW p \in Players, WorldRequest(p) PROVE TopOK'
  BY <1>1, NamesAssumption, TimesAssumption DEF IInv, HandsOK, TopOK, PlacedOK, Placed, Eaten, Returning, Eats, Returns, Handled, Respawned, TypeOK, Handler, Updater, Idle, grid, respawns, eaters, WorldRequest
<1>2. ASSUME NEW p \in Players, WorldRequestAgain(p) PROVE TopOK'
  BY <1>2, NamesAssumption, TimesAssumption DEF IInv, HandsOK, TopOK, PlacedOK, Placed, Eaten, Returning, Eats, Returns, Handled, Respawned, TypeOK, Handler, Updater, Idle, grid, respawns, eaters, WorldRequestAgain
<1>3. ASSUME NEW p \in Players, HandleMove(p) PROVE TopOK'
  BY <1>3, NamesAssumption, TimesAssumption DEF IInv, HandsOK, TopOK, PlacedOK, Placed, Eaten, Returning, Eats, Returns, Handled, Respawned, TypeOK, Handler, Updater, Idle, grid, respawns, eaters, HandleMove, MovePlayer, Discovers
<1>4. ASSUME NEW p \in Players, HandlePlayerExit(p) PROVE TopOK'
  BY <1>4, NamesAssumption, TimesAssumption DEF IInv, HandsOK, TopOK, PlacedOK, Placed, Eaten, Returning, Eats, Returns, Handled, Respawned, TypeOK, Handler, Updater, Idle, grid, respawns, eaters, HandlePlayerExit
<1>5. ASSUME NEW p \in Players, NEW q \in Players, EatPlayer(p, q) PROVE TopOK'
  BY <1>5, NamesAssumption, TimesAssumption DEF IInv, HandsOK, TopOK, PlacedOK, Placed, Eaten, Returning, Eats, Returns, Handled, Respawned, TypeOK, Handler, Updater, Idle, grid, respawns, eaters, EatPlayer, Grow
<1>6. ASSUME NEW p \in Players, NEW o \in Objects, EatObject(p, o) PROVE TopOK'
  BY <1>6, NamesAssumption, TimesAssumption DEF IInv, HandsOK, TopOK, PlacedOK, Placed, Eaten, Returning, Eats, Returns, Handled, Respawned, TypeOK, Handler, Updater, Idle, grid, respawns, eaters, EatObject, Grow
<1>7. CASE CollectObjects
  BY <1>7, NamesAssumption, TimesAssumption DEF IInv, HandsOK, TopOK, PlacedOK, Placed, Eaten, Returning, Eats, Returns, Handled, Respawned, TypeOK, Handler, Updater, Idle, grid, respawns, eaters, CollectObjects
<1>8. CASE SendWorld
  BY <1>8, NamesAssumption, TimesAssumption DEF IInv, HandsOK, TopOK, PlacedOK, Placed, Eaten, Returning, Eats, Returns, Handled, Respawned, TypeOK, Handler, Updater, Idle, grid, respawns, eaters, SendWorld
<1>9. CASE EraseObject
  BY <1>9, NamesAssumption, TimesAssumption DEF IInv, HandsOK, TopOK, PlacedOK, Placed, Eaten, Returning, Eats, Returns, Handled, Respawned, TypeOK, Handler, Updater, Idle, grid, respawns, eaters, EraseObject
<1>10. CASE UnlistObject
  BY <1>10, NamesAssumption, TimesAssumption DEF IInv, HandsOK, TopOK, PlacedOK, Placed, Eaten, Returning, Eats, Returns, Handled, Respawned, TypeOK, Handler, Updater, Idle, grid, respawns, eaters, UnlistObject
<1>11. CASE TellDestroyed
  BY <1>11, NamesAssumption, TimesAssumption DEF IInv, HandsOK, TopOK, PlacedOK, Placed, Eaten, Returning, Eats, Returns, Handled, Respawned, TypeOK, Handler, Updater, Idle, grid, respawns, eaters, TellDestroyed, Destroy, Near
<1>12. CASE QueueObject
  BY <1>12, NamesAssumption, TimesAssumption DEF IInv, HandsOK, TopOK, PlacedOK, Placed, Eaten, Returning, Eats, Returns, Handled, Respawned, TypeOK, Handler, Updater, Idle, grid, respawns, eaters, QueueObject, Earlier
<1>13. ASSUME NEW p \in Players, UpdatePlayer(p) PROVE TopOK'
  BY <1>13, NamesAssumption, TimesAssumption DEF IInv, HandsOK, TopOK, PlacedOK, Placed, Eaten, Returning, Eats, Returns, Handled, Respawned, TypeOK, Handler, Updater, Idle, grid, respawns, eaters, UpdatePlayer, MovePlayer, Discovers
<1>14. CASE EndPlayers
  BY <1>14, NamesAssumption, TimesAssumption DEF IInv, HandsOK, TopOK, PlacedOK, Placed, Eaten, Returning, Eats, Returns, Handled, Respawned, TypeOK, Handler, Updater, Idle, grid, respawns, eaters, EndPlayers
<1>15. CASE TestQueue
  BY <1>15, NamesAssumption, TimesAssumption DEF IInv, HandsOK, TopOK, PlacedOK, Placed, Eaten, Returning, Eats, Returns, Handled, Respawned, TypeOK, Handler, Updater, Idle, grid, respawns, eaters, TestQueue, Due
<1>16. CASE TakeTop
  BY <1>16, NamesAssumption, TimesAssumption DEF IInv, HandsOK, TopOK, PlacedOK, Placed, Eaten, Returning, Eats, Returns, Handled, Respawned, TypeOK, Handler, Updater, Idle, grid, respawns, eaters, TakeTop
<1>17. CASE PopTop
  BY <1>17, NamesAssumption, TimesAssumption DEF IInv, HandsOK, TopOK, PlacedOK, Placed, Eaten, Returning, Eats, Returns, Handled, Respawned, TypeOK, Handler, Updater, Idle, grid, respawns, eaters, PopTop, Earlier
<1>18. CASE InsertObject
  BY <1>18, NamesAssumption, TimesAssumption DEF IInv, HandsOK, TopOK, PlacedOK, Placed, Eaten, Returning, Eats, Returns, Handled, Respawned, TypeOK, Handler, Updater, Idle, grid, respawns, eaters, InsertObject
<1>19. CASE PushObject
  BY <1>19, NamesAssumption, TimesAssumption DEF IInv, HandsOK, TopOK, PlacedOK, Placed, Eaten, Returning, Eats, Returns, Handled, Respawned, TypeOK, Handler, Updater, Idle, grid, respawns, eaters, PushObject
<1>20. CASE TellCreated
  BY <1>20, NamesAssumption, TimesAssumption DEF IInv, HandsOK, TopOK, PlacedOK, Placed, Eaten, Returning, Eats, Returns, Handled, Respawned, TypeOK, Handler, Updater, Idle, grid, respawns, eaters, TellCreated, Create, Near
<1>21. CASE DataRace
  BY <1>21, NamesAssumption, TimesAssumption DEF IInv, HandsOK, TopOK, PlacedOK, Placed, Eaten, Returning, Eats, Returns, Handled, Respawned, TypeOK, Handler, Updater, Idle, grid, respawns, eaters, DataRace
<1>22. CASE Tick
  BY <1>22, NamesAssumption, TimesAssumption DEF IInv, HandsOK, TopOK, PlacedOK, Placed, Eaten, Returning, Eats, Returns, Handled, Respawned, TypeOK, Handler, Updater, Idle, grid, respawns, eaters, Tick
<1> QED BY <1>1, <1>2, <1>3, <1>4, <1>5, <1>6, <1>7, <1>8, <1>9, <1>10, <1>11, <1>12, <1>13, <1>14, <1>15, <1>16, <1>17, <1>18, <1>19, <1>20, <1>21, <1>22 DEF Next, Handlers, Handling, EatSteps, RoomThread, Respawning

\* What the clients know
LEMMA KnowsStep == IInv /\ Next => KnowsOK' /\ CreatedOK'
<1> SUFFICES ASSUME IInv, Next PROVE KnowsOK' /\ CreatedOK'
  OBVIOUS
<1>1. ASSUME NEW p \in Players, WorldRequest(p) PROVE (KnowsOK /\ CreatedOK)'
  BY <1>1 DEF IInv, HandsOK, KnowsOK, Knows, CreatedOK, PlacedOK, Placed, Eaten, Returning, Eats, Returns, Handled, Respawned, TypeOK, Handler, Updater, Idle, grid, respawns, eaters, WorldRequest
<1>2. ASSUME NEW p \in Players, WorldRequestAgain(p) PROVE (KnowsOK /\ CreatedOK)'
  BY <1>2 DEF IInv, HandsOK, KnowsOK, Knows, CreatedOK, PlacedOK, Placed, Eaten, Returning, Eats, Returns, Handled, Respawned, TypeOK, Handler, Updater, Idle, grid, respawns, eaters, WorldRequestAgain
<1>3. ASSUME NEW p \in Players, HandleMove(p) PROVE (KnowsOK /\ CreatedOK)'
  BY <1>3 DEF IInv, HandsOK, KnowsOK, Knows, CreatedOK, PlacedOK, Placed, Eaten, Returning, Eats, Returns, Handled, Respawned, TypeOK, Handler, Updater, Idle, grid, respawns, eaters, HandleMove, MovePlayer, Discovers
<1>4. ASSUME NEW p \in Players, HandlePlayerExit(p) PROVE (KnowsOK /\ CreatedOK)'
  BY <1>4 DEF IInv, HandsOK, KnowsOK, Knows, CreatedOK, PlacedOK, Placed, Eaten, Returning, Eats, Returns, Handled, Respawned, TypeOK, Handler, Updater, Idle, grid, respawns, eaters, HandlePlayerExit
<1>5. ASSUME NEW p \in Players, NEW q \in Players, EatPlayer(p, q) PROVE (KnowsOK /\ CreatedOK)'
  BY <1>5 DEF IInv, HandsOK, KnowsOK, Knows, CreatedOK, PlacedOK, Placed, Eaten, Returning, Eats, Returns, Handled, Respawned, TypeOK, Handler, Updater, Idle, grid, respawns, eaters, EatPlayer, Grow
<1>6. ASSUME NEW p \in Players, NEW o \in Objects, EatObject(p, o) PROVE (KnowsOK /\ CreatedOK)'
  BY <1>6 DEF IInv, HandsOK, KnowsOK, Knows, CreatedOK, PlacedOK, Placed, Eaten, Returning, Eats, Returns, Handled, Respawned, TypeOK, Handler, Updater, Idle, grid, respawns, eaters, EatObject, Grow
<1>7. CASE CollectObjects
  BY <1>7 DEF IInv, HandsOK, KnowsOK, Knows, CreatedOK, PlacedOK, Placed, Eaten, Returning, Eats, Returns, Handled, Respawned, TypeOK, Handler, Updater, Idle, grid, respawns, eaters, CollectObjects
<1>8. CASE SendWorld
  BY <1>8 DEF IInv, HandsOK, KnowsOK, Knows, CreatedOK, PlacedOK, Placed, Eaten, Returning, Eats, Returns, Handled, Respawned, TypeOK, Handler, Updater, Idle, grid, respawns, eaters, SendWorld
<1>9. CASE EraseObject
  BY <1>9 DEF IInv, HandsOK, KnowsOK, Knows, CreatedOK, PlacedOK, Placed, Eaten, Returning, Eats, Returns, Handled, Respawned, TypeOK, Handler, Updater, Idle, grid, respawns, eaters, EraseObject
<1>10. CASE UnlistObject
  BY <1>10 DEF IInv, HandsOK, KnowsOK, Knows, CreatedOK, PlacedOK, Placed, Eaten, Returning, Eats, Returns, Handled, Respawned, TypeOK, Handler, Updater, Idle, grid, respawns, eaters, UnlistObject
<1>11. CASE TellDestroyed
  <2>1. net.step = "tell" /\ net'.step = "queue" /\ net.obj \in Objects /\ net'.who = net.who
    BY <1>11 DEF IInv, HandsOK, Handled, TellDestroyed, TypeOK, Handler
  <2>2. net.obj \notin listed
    BY <2>1 DEF IInv, PlacedOK, Placed, Eaten, Eats
  <2>3. ASSUME NEW p \in inGrid PROVE told'[p] = told[p] \ {net.obj}
    BY <1>11, <2>3 DEF IInv, TypeOK, KnowsOK, Knows, TellDestroyed, Destroy, Near
  <2>4. UNCHANGED <<listed, inGrid, sight, rt>> /\ crossed \subseteq crossed' /\ (Returns(net.obj, "tell") => net.obj \in crossed')
    BY <1>11, <2>1 DEF TellDestroyed, grid, eaters, Returns
  <2>5. ASSUME NEW p \in inGrid PROVE Knows(p)'
    BY <2>1, <2>2, <2>3, <2>4, <2>5 DEF IInv, KnowsOK, Knows, Eats, Returns
  <2>6. CreatedOK'
    BY <2>1, <2>2, <2>4 DEF IInv, CreatedOK, Eats, Returns
  <2> QED BY <2>4, <2>5, <2>6 DEF KnowsOK
<1>12. CASE QueueObject
  BY <1>12 DEF IInv, HandsOK, KnowsOK, Knows, CreatedOK, PlacedOK, Placed, Eaten, Returning, Eats, Returns, Handled, Respawned, TypeOK, Handler, Updater, Idle, grid, respawns, eaters, QueueObject, Earlier
<1>13. ASSUME NEW p \in Players, UpdatePlayer(p) PROVE (KnowsOK /\ CreatedOK)'
  BY <1>13 DEF IInv, HandsOK, KnowsOK, Knows, CreatedOK, PlacedOK, Placed, Eaten, Returning, Eats, Returns, Handled, Respawned, TypeOK, Handler, Updater, Idle, grid, respawns, eaters, UpdatePlayer, MovePlayer, Discovers
<1>14. CASE EndPlayers
  BY <1>14 DEF IInv, HandsOK, KnowsOK, Knows, CreatedOK, PlacedOK, Placed, Eaten, Returning, Eats, Returns, Handled, Respawned, TypeOK, Handler, Updater, Idle, grid, respawns, eaters, EndPlayers
<1>15. CASE TestQueue
  BY <1>15 DEF IInv, HandsOK, KnowsOK, Knows, CreatedOK, PlacedOK, Placed, Eaten, Returning, Eats, Returns, Handled, Respawned, TypeOK, Handler, Updater, Idle, grid, respawns, eaters, TestQueue, Due
<1>16. CASE TakeTop
  BY <1>16 DEF IInv, HandsOK, KnowsOK, Knows, CreatedOK, PlacedOK, Placed, Eaten, Returning, Eats, Returns, Handled, Respawned, TypeOK, Handler, Updater, Idle, grid, respawns, eaters, TakeTop
<1>17. CASE PopTop
  BY <1>17 DEF IInv, HandsOK, KnowsOK, Knows, CreatedOK, PlacedOK, Placed, Eaten, Returning, Eats, Returns, Handled, Respawned, TypeOK, Handler, Updater, Idle, grid, respawns, eaters, PopTop, Earlier
<1>18. CASE InsertObject
  BY <1>18 DEF IInv, HandsOK, KnowsOK, Knows, CreatedOK, PlacedOK, Placed, Eaten, Returning, Eats, Returns, Handled, Respawned, TypeOK, Handler, Updater, Idle, grid, respawns, eaters, InsertObject
<1>19. CASE PushObject
  BY <1>19 DEF IInv, HandsOK, KnowsOK, Knows, CreatedOK, PlacedOK, Placed, Eaten, Returning, Eats, Returns, Handled, Respawned, TypeOK, Handler, Updater, Idle, grid, respawns, eaters, PushObject
<1>20. CASE TellCreated
  BY <1>20 DEF IInv, HandsOK, KnowsOK, Knows, CreatedOK, PlacedOK, Placed, Eaten, Returning, Eats, Returns, Handled, Respawned, TypeOK, Handler, Updater, Idle, grid, respawns, eaters, TellCreated, Create, Near
<1>21. CASE DataRace
  BY <1>21 DEF IInv, HandsOK, KnowsOK, Knows, CreatedOK, PlacedOK, Placed, Eaten, Returning, Eats, Returns, Handled, Respawned, TypeOK, Handler, Updater, Idle, grid, respawns, eaters, DataRace
<1>22. CASE Tick
  BY <1>22 DEF IInv, HandsOK, KnowsOK, Knows, CreatedOK, PlacedOK, Placed, Eaten, Returning, Eats, Returns, Handled, Respawned, TypeOK, Handler, Updater, Idle, grid, respawns, eaters, Tick
<1> QED BY <1>1, <1>2, <1>3, <1>4, <1>5, <1>6, <1>7, <1>8, <1>9, <1>10, <1>11, <1>12, <1>13, <1>14, <1>15, <1>16, <1>17, <1>18, <1>19, <1>20, <1>21, <1>22 DEF Next, Handlers, Handling, EatSteps, RoomThread, Respawning

\* The sizes
LEMMA SizesStep == IInv /\ Next => SizesBounded'
<1> SUFFICES ASSUME IInv, Next PROVE SizesBounded'
  OBVIOUS
<1>1. ASSUME NEW p \in Players, WorldRequest(p) PROVE SizesBounded'
  BY <1>1, GainBounded DEF IInv, SizesBounded, TypeOK, Handler, Updater, Idle, grid, respawns, eaters, WorldRequest
<1>2. ASSUME NEW p \in Players, WorldRequestAgain(p) PROVE SizesBounded'
  BY <1>2, GainBounded DEF IInv, SizesBounded, TypeOK, Handler, Updater, Idle, grid, respawns, eaters, WorldRequestAgain
<1>3. ASSUME NEW p \in Players, HandleMove(p) PROVE SizesBounded'
  BY <1>3, GainBounded DEF IInv, SizesBounded, TypeOK, Handler, Updater, Idle, grid, respawns, eaters, HandleMove, MovePlayer, Discovers
<1>4. ASSUME NEW p \in Players, HandlePlayerExit(p) PROVE SizesBounded'
  BY <1>4, GainBounded DEF IInv, SizesBounded, TypeOK, Handler, Updater, Idle, grid, respawns, eaters, HandlePlayerExit
<1>5. ASSUME NEW p \in Players, NEW q \in Players, EatPlayer(p, q) PROVE SizesBounded'
  BY <1>5, GainBounded DEF IInv, SizesBounded, TypeOK, Handler, Updater, Idle, grid, respawns, eaters, EatPlayer, Grow
<1>6. ASSUME NEW p \in Players, NEW o \in Objects, EatObject(p, o) PROVE SizesBounded'
  BY <1>6, GainBounded DEF IInv, SizesBounded, TypeOK, Handler, Updater, Idle, grid, respawns, eaters, EatObject, Grow
<1>7. CASE CollectObjects
  BY <1>7, GainBounded DEF IInv, SizesBounded, TypeOK, Handler, Updater, Idle, grid, respawns, eaters, CollectObjects
<1>8. CASE SendWorld
  BY <1>8, GainBounded DEF IInv, SizesBounded, TypeOK, Handler, Updater, Idle, grid, respawns, eaters, SendWorld
<1>9. CASE EraseObject
  BY <1>9, GainBounded DEF IInv, SizesBounded, TypeOK, Handler, Updater, Idle, grid, respawns, eaters, EraseObject
<1>10. CASE UnlistObject
  BY <1>10, GainBounded DEF IInv, SizesBounded, TypeOK, Handler, Updater, Idle, grid, respawns, eaters, UnlistObject
<1>11. CASE TellDestroyed
  BY <1>11, GainBounded DEF IInv, SizesBounded, TypeOK, Handler, Updater, Idle, grid, respawns, eaters, TellDestroyed, Destroy, Near
<1>12. CASE QueueObject
  BY <1>12, GainBounded DEF IInv, SizesBounded, TypeOK, Handler, Updater, Idle, grid, respawns, eaters, QueueObject, Earlier
<1>13. ASSUME NEW p \in Players, UpdatePlayer(p) PROVE SizesBounded'
  BY <1>13, GainBounded DEF IInv, SizesBounded, TypeOK, Handler, Updater, Idle, grid, respawns, eaters, UpdatePlayer, MovePlayer, Discovers
<1>14. CASE EndPlayers
  BY <1>14, GainBounded DEF IInv, SizesBounded, TypeOK, Handler, Updater, Idle, grid, respawns, eaters, EndPlayers
<1>15. CASE TestQueue
  BY <1>15, GainBounded DEF IInv, SizesBounded, TypeOK, Handler, Updater, Idle, grid, respawns, eaters, TestQueue, Due
<1>16. CASE TakeTop
  BY <1>16, GainBounded DEF IInv, SizesBounded, TypeOK, Handler, Updater, Idle, grid, respawns, eaters, TakeTop
<1>17. CASE PopTop
  BY <1>17, GainBounded DEF IInv, SizesBounded, TypeOK, Handler, Updater, Idle, grid, respawns, eaters, PopTop, Earlier
<1>18. CASE InsertObject
  BY <1>18, GainBounded DEF IInv, SizesBounded, TypeOK, Handler, Updater, Idle, grid, respawns, eaters, InsertObject
<1>19. CASE PushObject
  BY <1>19, GainBounded DEF IInv, SizesBounded, TypeOK, Handler, Updater, Idle, grid, respawns, eaters, PushObject
<1>20. CASE TellCreated
  BY <1>20, GainBounded DEF IInv, SizesBounded, TypeOK, Handler, Updater, Idle, grid, respawns, eaters, TellCreated, Create, Near
<1>21. CASE DataRace
  BY <1>21, GainBounded DEF IInv, SizesBounded, TypeOK, Handler, Updater, Idle, grid, respawns, eaters, DataRace
<1>22. CASE Tick
  BY <1>22, GainBounded DEF IInv, SizesBounded, TypeOK, Handler, Updater, Idle, grid, respawns, eaters, Tick
<1> QED BY <1>1, <1>2, <1>3, <1>4, <1>5, <1>6, <1>7, <1>8, <1>9, <1>10, <1>11, <1>12, <1>13, <1>14, <1>15, <1>16, <1>17, <1>18, <1>19, <1>20, <1>21, <1>22 DEF Next, Handlers, Handling, EatSteps, RoomThread, Respawning

\* The initial states have it
LEMMA InitInv == Init => IInv
<1> SUFFICES ASSUME Init PROVE IInv
  OBVIOUS
<1>1. TypeOK
  <2>1. net \in Handler /\ rt \in Updater
    BY DEF Init, Handler, Updater, Idle
  <2>2. size \in [Players -> Nat] /\ left \in [Objects -> (-MaxLate) .. Delay]
    BY TimesAssumption, SizesAssumption DEF Init
  <2> QED BY <2>1, <2>2 DEF Init, TypeOK
<1>2. HandsOK /\ PlacedOK /\ TopOK
  BY DEF Init, Idle, HandsOK, Handled, Respawned, PlacedOK, Placed, Eaten, Returning, Eats, Returns, TopOK
<1>3. KnowsOK /\ CreatedOK /\ SizesBounded
  BY GainBounded DEF Init, Idle, KnowsOK, CreatedOK, Returns, SizesBounded
<1> QED BY <1>1, <1>2, <1>3 DEF IInv

\* The inductive invariant
THEOREM Invariance == Spec => []IInv
<1>1. IInv /\ UNCHANGED vars => IInv'
  BY DEF IInv, vars, TypeOK, HandsOK, PlacedOK, Placed, Eaten, Returning, Eats, Returns, TopOK, KnowsOK,
         Knows, CreatedOK, SizesBounded, grid, respawns, eaters
<1>2. IInv /\ [Next]_vars => IInv'
  BY <1>1, TypeStep, HandsStep, PlacesStep, TopStep, KnowsStep, SizesStep DEF IInv
<1> QED BY InitInv, <1>2, PTL DEF Spec

-----------------------------------------------------------------------------
(* The properties of the runs. *)

\* Every variable keeps its type
THEOREM TypeCorrect == Spec => []TypeOK
BY Invariance, PTL DEF IInv

\* Eating and respawning neither lose an object nor have it at two places
THEOREM FoodIsConserved == Spec => []FoodConserved
<1>1. IInv => FoodConserved
  BY DEF IInv, PlacedOK, Placed, FoodConserved, Eats, Returns
<1> QED BY <1>1, Invariance, PTL

\* The room's thread removes from the queue what it has read at its top
THEOREM TopIsPopped == Spec => []PopsWhatItTook
<1>1. IInv => PopsWhatItTook
  BY DEF IInv, TopOK, PopsWhatItTook
<1> QED BY <1>1, Invariance, PTL

\* Whatever a player in the grid sees, its client has been told of
THEOREM FoodIsKnown == Spec => []FoodKnown
<1>1. IInv => FoodKnown
  BY DEF IInv, KnowsOK, Knows, FoodKnown, Returns
<1> QED BY <1>1, Invariance, PTL

\* A client keeps what is gone only where a creation overtook a destruction
THEOREM GhostsCrossed == Spec => []NoGhostFood
<1>1. IInv => NoGhostFood
  BY DEF IInv, KnowsOK, Knows, NoGhostFood, Eats
<1> QED BY <1>1, Invariance, PTL

\* No player outgrows the limits of the income
THEOREM SizesAreBounded == Spec => []SizesBounded
BY Invariance, PTL DEF IInv

=============================================================================
