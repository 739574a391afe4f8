------------------------------- MODULE Rounds -------------------------------
(***************************************************************************)
(* The rounds of one room's thread (Room::Run): the clock that wraps, the  *)
(* time a room has been empty, the end of an empty room, and the walk over *)
(* m_playerList, to which the network thread adds and from which it erases *)
(* without a lock while the walk goes on.                                  *)
(*                                                                         *)
(* Time is in milliseconds.  The clock is what getMSTime returns, the wall *)
(* clock of gettimeofday, which wraps and may be set to any other time; the *)
(* ages are history, the true times that the clock stands for.             *)
(***************************************************************************)
EXTENDS Naturals, Sequences, SequencesExt

CONSTANTS
    Players,
    End,            \* the end of m_playerList
    Freed,          \* a list node that has been erased
    Capacity,       \* m_capacity
    Wrap,           \* 2^32
    Shutdown,       \* ROOM_EMPTY_SHUTDOWN * 1000
    MaxRound,       \* bound: the length of a round
    MaxSettings     \* bound: how often the clock is set

ASSUME NamesAssumption == End \notin Players /\ Freed \notin Players /\ End # Freed
ASSUME TimesAssumption ==
    /\ Wrap \in Nat /\ Shutdown \in Nat \ {0} /\ MaxRound \in Nat \ {0} /\ Capacity \in Nat
    /\ MaxSettings \in Nat
    /\ Shutdown + 2 * MaxRound + 1 < Wrap

VARIABLES
    isDefault,      \* m_isDefault
    playerList,     \* m_playerList
    clock,          \* getMSTime()
    emptyState,     \* m_emptyStateTime, 0 for not empty
    lastUpdate,     \* m_lastUpdateTime
    delay,          \* of the round
    step,           \* where the thread is in Room::Run
    at,             \* the node the walk is at, Freed if it has been erased
    after,          \* the node that followed an erased one
    corrupt,        \* the walk has gone on from memory that was reused
    updateAge,      \* history: the time since m_lastUpdateTime was set
    emptyFor,       \* history: the time since the thread last saw a player, up to Shutdown
    settings,       \* history: how often the clock has been set
    updateSet,      \* history: it has been set since m_lastUpdateTime was
    emptySet,       \* history: it has been set since m_emptyStateTime was
    newcomers,      \* history: who has been added since the thread last looked
    stayers,        \* history: who has been in the list since the walk began
    visits          \* history: how often the walk has updated each player, up to 2

clocks == <<clock, emptyState, lastUpdate, delay>>
walk == <<at, after, stayers, visits>>
set == <<settings, updateSet, emptySet>>
ages == <<updateAge, emptyFor, set>>
vars == <<isDefault, playerList, clocks, step, walk, corrupt, ages, newcomers>>

Time == 0 .. Wrap - 1

Members == ToSet(playerList)

TypeOK ==
    /\ isDefault \in BOOLEAN /\ corrupt \in BOOLEAN
    /\ Members \subseteq Players /\ Len(playerList) <= Capacity
    /\ clock \in Time /\ emptyState \in Time /\ lastUpdate \in Time /\ delay \in Time
    /\ step \in {"check", "look", "reset", "delay", "begin", "update", "advance", "stamp", "ended"}
    /\ at \in Players \cup {End, Freed} /\ after \in Players \cup {End, Freed}
    /\ updateAge \in 0 .. MaxRound /\ emptyFor \in 0 .. Shutdown
    /\ settings \in 0 .. MaxSettings /\ updateSet \in BOOLEAN /\ emptySet \in BOOLEAN
    /\ newcomers \subseteq Players /\ stayers \subseteq Players
    /\ visits \in [Players -> 0 .. 2]

\* The room has just been created, at any time of the clock
Init ==
    /\ isDefault \in BOOLEAN /\ playerList = <<>>
    /\ clock \in Time /\ emptyState = 0 /\ lastUpdate = clock /\ delay = 0
    /\ step = "check" /\ at = End /\ after = End /\ corrupt = FALSE
    /\ updateAge = 0 /\ emptyFor = 0 /\ newcomers = {}
    /\ settings = 0 /\ updateSet = FALSE /\ emptySet = FALSE
    /\ stayers = {} /\ visits = [p \in Players |-> 0]

-----------------------------------------------------------------------------
(* The clock. *)

\* Mutant: always the difference across a wrap
DiffUnchecked(old, new) == (Wrap - 1 - old) + new

\* Mutant: the difference without its sign
DiffAbsolute(old, new) == IF old > new THEN old - new ELSE new - old

\* getMSTimeDiff, which is one short if the clock has wrapped in between
Diff(old, new) == IF old > new THEN (Wrap - 1 - old) + new ELSE new - old

\* A millisecond passes
Tick ==
    /\ step # "ended" /\ updateAge < MaxRound
    /\ clock' = (clock + 1) % Wrap
    /\ updateAge' = updateAge + 1
    /\ emptyFor' = IF emptyFor < Shutdown THEN emptyFor + 1 ELSE emptyFor
    /\ UNCHANGED <<isDefault, playerList, emptyState, lastUpdate, delay, step, walk, corrupt, set, newcomers>>

\* The wall clock is set, back or ahead
SetClock ==
    /\ step # "ended" /\ settings < MaxSettings
    /\ clock' \in Time
    /\ settings' = settings + 1 /\ updateSet' = TRUE /\ emptySet' = TRUE
    /\ UNCHANGED <<isDefault, playerList, emptyState, lastUpdate, delay, step, walk, corrupt,
                   updateAge, emptyFor, newcomers>>

-----------------------------------------------------------------------------
(* The room's thread: Room::Run. *)

ToBeEnded == ~isDefault /\ emptyState # 0 /\ Diff(emptyState, clock) >= Shutdown

\* DestroyRoom, if the room has been empty for long
CheckEmpty ==
    /\ step = "check"
    /\ step' = IF ToBeEnded THEN "ended" ELSE "look"
    /\ UNCHANGED <<isDefault, playerList, clocks, walk, corrupt, ages, newcomers>>

\* Mutant: every look at an empty room sets the time anew
StampAgain == playerList = <<>>

\* The room has become empty
BecameEmpty == emptyState = 0 /\ playerList = <<>>

LookForPlayers ==
    /\ step = "look" /\ step' = "reset"
    /\ IF ~isDefault /\ BecameEmpty THEN emptyState' = clock /\ emptySet' = FALSE
       ELSE UNCHANGED <<emptyState, emptySet>>
    /\ UNCHANGED <<isDefault, playerList, clock, lastUpdate, delay, walk, corrupt,
                   updateAge, emptyFor, settings, updateSet, newcomers>>

\* Mutant: the time an empty room got is not taken back
NeverReset == FALSE

\* The room is no longer empty
NotEmpty == emptyState # 0 /\ playerList # <<>>

ResetEmpty ==
    /\ step = "reset" /\ step' = "delay"
    /\ emptyState' = IF ~isDefault /\ NotEmpty THEN 0 ELSE emptyState
    /\ emptyFor' = IF playerList # <<>> THEN 0 ELSE emptyFor
    /\ newcomers' = {}
    /\ UNCHANGED <<isDefault, playerList, clock, lastUpdate, delay, walk, corrupt, updateAge, set>>

ComputeDelay ==
    /\ step = "delay" /\ step' = "begin"
    /\ delay' = Diff(lastUpdate, clock)
    /\ UNCHANGED <<isDefault, playerList, clock, emptyState, lastUpdate, walk, corrupt, ages, newcomers>>

\* Update: itr = begin()
BeginWalk ==
    /\ step = "begin"
    /\ at' = IF playerList = <<>> THEN End ELSE Head(playerList)
    /\ step' = IF at' = End THEN "stamp" ELSE "update"
    /\ after' = End
    /\ stayers' = Members /\ visits' = [p \in Players |-> 0]
    /\ UNCHANGED <<isDefault, playerList, clocks, corrupt, ages, newcomers>>

\* (*itr)->Update(diff).  An erased node that has not been reused still has its
\* player.
UpdatePlayer ==
    /\ step = "update" /\ step' = "advance"
    /\ visits' = IF at = Freed THEN visits ELSE [visits EXCEPT ![at] = IF @ < 2 THEN @ + 1 ELSE 2]
    /\ UNCHANGED <<isDefault, playerList, clocks, at, after, stayers, corrupt, ages, newcomers>>

\* The place of p in the list
Place(p) == CHOOSE i \in DOMAIN playerList : playerList[i] = p

\* Mutant: the node after next
SecondNext(p) ==
    IF Place(p) + 1 >= Len(playerList) THEN End ELSE playerList[Place(p) + 2]

\* The node after that of p
NextNode(p) == IF Place(p) = Len(playerList) THEN End ELSE playerList[Place(p) + 1]

\* ++itr, from a node in the list or from the memory of one that was
Advance ==
    /\ step = "advance" /\ ~(at = Freed /\ after = Freed)
    /\ at' = IF at = Freed THEN after ELSE NextNode(at)
    /\ after' = End
    /\ step' = IF at' = End THEN "stamp" ELSE "update"
    /\ UNCHANGED <<isDefault, playerList, clocks, stayers, visits, corrupt, ages, newcomers>>

\* The memory of the erased node, or its player, has been reused: nothing is
\* known of what comes after it
UseReused ==
    /\ step \in {"update", "advance"} /\ at = Freed
    /\ corrupt' = TRUE
    /\ UNCHANGED <<isDefault, playerList, clocks, step, walk, ages, newcomers>>

\* m_lastUpdateTime = getMSTime(), and the sleep; the variables of the round are
\* not used again
StampUpdate ==
    /\ step = "stamp" /\ step' = "check"
    /\ lastUpdate' = clock /\ updateAge' = 0 /\ updateSet' = FALSE
    /\ delay' = 0 /\ stayers' = {} /\ visits' = [p \in Players |-> 0]
    /\ UNCHANGED <<isDefault, playerList, clock, emptyState, at, after, corrupt, emptyFor,
                   settings, emptySet, newcomers>>

RoomThread ==
    \/ CheckEmpty \/ LookForPlayers \/ ResetEmpty \/ ComputeDelay
    \/ BeginWalk \/ UpdatePlayer \/ Advance \/ UseReused \/ StampUpdate

-----------------------------------------------------------------------------
(* The network thread. *)

\* The room is not full
HasRoom == Len(playerList) < Capacity

\* AddPlayer.  A handler may have got the pointer to the room before it ended.
AddPlayer(p) ==
    /\ p \notin Members /\ HasRoom
    /\ playerList' = Append(playerList, p)
    /\ newcomers' = newcomers \cup {p}
    /\ UNCHANGED <<isDefault, clocks, step, walk, corrupt, ages>>

\* RemovePlayer: the node is erased, be it the one the walk is at
RemovePlayer(p) ==
    /\ p \in Members
    /\ playerList' = RemoveAt(playerList, Place(p))
    /\ IF step \in {"update", "advance"} /\ at = p THEN at' = Freed /\ after' = NextNode(p)
       ELSE at' = at /\ after' = IF at = Freed /\ after = p THEN Freed ELSE after
    /\ newcomers' = newcomers \ {p} /\ stayers' = stayers \ {p}
    /\ UNCHANGED <<isDefault, clocks, step, visits, corrupt, ages>>

NetworkThread == \E p \in Players : AddPlayer(p) \/ RemovePlayer(p)

-----------------------------------------------------------------------------

Next == ~corrupt /\ (Tick \/ SetClock \/ RoomThread \/ NetworkThread)

Spec == Init /\ [][Next]_vars

\* The thread is a loop with a sleep, and time passes
FairSpec == Spec /\ WF_vars(~corrupt /\ RoomThread) /\ WF_vars(~corrupt /\ Tick)

-----------------------------------------------------------------------------
(* Safety. *)

\* A room ends only when no look of its thread has seen a player for
\* ROOM_EMPTY_SHUTDOWN seconds, also when the clock wraps in that time; unless it
\* has been set since the room was found empty: then the difference may be any
\* time.
EndsAfterEmptiness == step = "ended" => ~isDefault /\ (emptyFor >= Shutdown \/ emptySet)

\* Whoever is in a room when it ends, and is left without a room by ~Room, has
\* joined it since the thread last looked at the list.
StrandedJoinedLate == step = "ended" => Members \subseteq newcomers

\* A walk that ends has updated every player who stayed in the room once,
\* whoever came and left meanwhile, and if it was the player it was at.
EveryoneUpdated ==
    step = "stamp" /\ ~corrupt => \A p \in stayers : visits[p] = 1

\* Players are moved by the time that has passed since the last round, less the
\* millisecond that is lost when the clock wraps; a clock that is set spoils this
\* for the round in which it is, and for no later one.
DelayIsTime ==
    [][step = "delay" /\ step' = "begin" /\ ~updateSet =>
         delay' = IF clock < lastUpdate THEN updateAge - 1 ELSE updateAge]_vars

-----------------------------------------------------------------------------
(* Liveness. *)

\* A room that stays empty ends, even if the clock is 0, which stands for "not
\* empty", when its thread finds it empty, and even if the clock is set some times
EmptyRoomEnds == <>[](playerList = <<>> /\ ~isDefault) => <>(step = "ended" \/ corrupt)

=============================================================================
