# Verification of the agar.io game server

This directory holds TLA+ specifications of the server under `src/`, TLC configurations that model-check them
on small instances, and proofs of their main properties for the TLA+ proof system (TLAPS). The specifications
are written from the C++ code; every property names the code it is about. `PROJECT.json` maps each definition
to the source lines it models.

    tlc -workers 2 -config World.cfg MCWorld.tla      # a run: one configuration, one MC module
    tlapm World_proofs.tla                            # the proofs of a module

## 1. The system

The server is one process with a main thread (console), one network thread, and one thread for every room.
There are two locks: `roomlist_mtx` over the room map and, in each room, `cellMapLock` over the grid. Nothing
else is locked.

| Component | State | Operations | Interacts with |
|---|---|---|---|
| Application (`System/Application.cpp`) | running flag of the console | `exit` and SIGINT shut network, then game, down | Network, Gameplay: joins their threads |
| Network (`Network/Network.cpp`) | `m_clients`: records (session, player), `m_isRunning` | accept, one turn per client and pass: kick, time out, read, remove; look up sessions by id or key; exchange two records | calls sessions and `Room::RemovePlayer`; room threads send through it |
| Session (`Network/Session.cpp`) | connection state auth/lobby/game, expiry mark, timeout, violations, session key, ping | `HandlePacket`, `Kick`, violations, `Update` (ping) | handlers in the network thread, `Update` in the room's thread |
| Packet handlers (`Network/PacketHandlers.cpp`) | none of their own | login, register, restore, join, create, exit, world request, movement, eat, pong, statistics | everything |
| Gameplay (`Gameplay/Gameplay.cpp`) | `m_rooms`, `m_lastRoomId` | create, find, destroy rooms, shutdown | started from handlers, ended from room threads and main |
| Room (`Gameplay/Room.cpp`) | player list, cell map, respawn queue, flags, empty-room time | its thread's loop; add, remove, place, relocate, eat; food | handlers and its own thread |
| Player, WorldObject, entities | position, room id, size, dead, moving | `Update`, `Relocate`, size, speed | Room |
| Grid searchers (`Gameplay/GridSearchers.cpp`) | none | walk the near cells of a position, or the cells that come and go with a move | Room |
| GamePacket (`Network/GamePacket.cpp`) | buffer, size, read and write position | read, write, write at a position, throw at the end | handlers, rooms; Network sends and receives it as a frame |
| Storage (`System/Storage.cpp`) | users table | schema check and migration, load, store | login, register |
| Config, Log, Helpers | settings | parse, print, clock differences | all |

What is hard here, and what makes each part correct:

* **Session restore.** A player whose connection is lost is kept for a while and may be taken over by a new
  connection. Four pointers and two records are exchanged, possibly twice, crosswise, or between a session and
  itself. Correct: record, session and player stay paired; a takeover keeps account and room and kicks the old
  session; a kicked session handles nothing more.
* **Player lists.** `RemovePlayer` looks its player up by account id. Correct: lists and room ids agree, and a
  list never holds a deleted player. The id of a player in a room must therefore not change. A round that
  walks the list without a lock can be at work with what is being deleted; no later one may meet it.
* **Loss of clients.** It is seen by `recv`, by a ping in the room's thread, or not at all. Correct: a lost
  client leaves in the end.
* **Ends of rooms.** A room's thread ends an empty room and deletes it while handlers look rooms up, join and
  leave. Correct: whoever finds a room finds a live one, and a room is deleted under nobody.
* **Shutdown.** The main thread joins all others with the room list locked. Correct: `exit` ends the process.
* **The grid and what clients know.** Positions are written by two threads before the grid is changed under
  the lock; placing and removing do not take the lock. Clients are only told of changes. Correct: a player is
  in the one cell of its position, and a client knows exactly whom it has to know.
* **Food.** The network thread has an object eaten in several steps while the room's thread respawns others.
  Correct: no object is lost or doubled, clients know the objects they see, what is eaten comes back, and
  sizes stay bounded.
* **Rounds.** A room's thread walks its player list while the other thread changes it, and measures times on a
  clock that wraps and can be set. Correct: whoever stays is updated once a round; a room ends only if it has
  been empty, unless the clock was set meanwhile.
* **The users table.** It is migrated by single statements whose results nobody looks at, and looked up with
  names nobody has tested. Correct: confirmed accounts are kept, names stay unique, the structure settles,
  until a login's name runs as a statement of its own.
* **Frames on a stream.** Sockets do not block, one `send` and two `recv` handle a packet, and nothing is kept
  between turns. Correct: what is understood was said, whole and in order, until a packet is cut or a client
  disconnected.

The hazards are listed with their lines in `PROJECT.json`, each with the properties that cover it.

## 2. The modules

### Sessions, Presence (with MCSessions, Sessions_proofs, Membership_proofs)

The network thread's pass over the clients, the session state machine and its handlers, and the player lists
of the rooms with the part of the rooms' threads that touches sessions and lists.

A connection is a number in the order of acceptance; the same number names the record, session and player its
arrival creates. `recPlayer`, `sess[_].player` and `plr[_].session` are the three pointers. `cursor` is the
iterator of `UpdateClients`; a step of `NetworkThread` is one client's turn (the send of a packet, the handler
and all it calls included), a step of `RoomUpdater(r)` one round of `Room::Run`.

* `UpdateClient`: `RemoveExpired`, `SkipTimedOut`, `KickTimedOut`, `NothingRead`, `StartTimeout`,
  `RemoveBroken`, `RemoveMalformed` are the branches of `UpdateClients`. `RecvError` keeps `errno` as a
  variable, because an orderly close makes `recv` return 0 and leaves `errno` as it was.
* `HandlePacket`: one action for each handler with an effect; `HandleWithoutEffect` stands for those whose
  effect is in other modules and for refusals.
* `RemoveClient`, `EraseEntry`, `LeaveRoom`: leaving, with the search by id. `m_id` starts with any value
  (`NewPlayer(c, garbage)`), as the constructor leaves it.
* `RoomRound`, `EndRoom`, `DeleteRoom`: pings, the end of an empty room, `~Room`.
* `caught`: a round walks the list and updates sessions without a lock (`Room.cpp:124-125`), so the network
  thread can delete a player, its session or a list's entry while a round is at work with it. `RemoveClient`
  and `HandlePlayerExit` therefore may catch a room (`Catches`), and the round of a caught room dies or ends
  like any other. Which rooms can be at work with a client that goes is taken generously: all that have
  players (`AtWork`), because a restore during the update of a session gives that session a player of another
  room.
* `HandleRegisterRequest`, `HandleRegisterTaken`: registration looks the name up, stores the user, and looks
  it up again (`PacketHandlers.cpp:163-191`). With `LookupsFail` either lookup may fail: the user is stored
  and the session stays outside, or the session gets the account there was, and nobody is kicked.
* `Die`: a null room, a deleted player, an uncaught exception end the model; what comes after is unknown.
* Environment: connections end in four ways, a pending reset is consumed by a `send`, times pass.

`Presence` is the service this is to clients, without records, sessions, players, lists or pointers: which
connections act for which account, who is in which room, who is kicked, which rooms are open and which
accounts registered. `TakeOver(c, d)` exchanges what two connections act for and where they are, in one step,
and `LogIn`, `Enter`, `Create`, `Exit`, `Leave` and the end of a room (`Close`, then `Clear`) are one step
each. `Sessions` implements it (`ImplementsPresence`): a connection acts for the id of its record's player
(`Account`), it is in the rooms whose lists that player is in (`Present`), and it is kicked if its session is
expired. Where the code can go wrong is part of `Presence`: the process dies only of a packet, of a connection
that leaves from a room that was ended and is not deleted yet, or of a room that was caught at work with a
connection as it went (`Die`); and the lists go astray only while two connections of one account are in one
room (`GoAstray`), after which nothing is promised. `LogIn`, `Register` and `RegisterTaken` (a lookup has
failed) take a connection that is nowhere, and `LogIn` kicks one other holder of the account, not all of them,
as the run *login* shows.

### RoomThreads (with MCRoomThreads, RoomThreads_proofs)

The threads themselves, at the grain at which they meet: taking `roomlist_mtx`, testing a flag, joining, and
using a room's pointer after the mutex is released. `main` is the place of `Gameplay::Shutdown` and
`Network::Shutdown`, `net` that of the network thread, `thread[r]` that of room `r`, from `unborn` to
`deleted`. Flags are set by the threads themselves when they start, as in `Room::Run` and `Network::Run`. In
`Sessions` a handler is one step and so cannot meet a room that ends in its middle; here it can.

### Visibility (proved about in World_proofs)

The areas of the grid the searchers walk, as pure operators: `Near` skips coordinates outside the grid,
`Window` clamps four borders, `DestroyArea` and `CreateArea` are the differences the search with two windows
walks. They are compared with each other by proof, for every grid and offset.

### World (with MCWorld, World_proofs)

The players of one room: position, cells, death, movement, and `told[q]`, the players whose last message to
`q`'s client created them there. Two threads act: the handlers, and the room's thread moving players. A call
of `Relocate` takes four steps, because the position is read, written, clamped, and applied to the grid under
the lock at different times; placing a player takes six. `Unlocked` is the data race of two changes of one
cell's list, which may do no harm or any: the model ends with `corrupt` in the second case. `Touched` are the
cells the room's thread may be at: those of its move, and between two moves any, since it tells the players
near a respawned object of it (`Room.cpp:294`).

The history variables `raced` and `misplaced` record players that two threads have worked on at once, and
players placed while in the grid or moved while not in it (a second world request; a movement packet before
the first or after a death). The code does not prevent either, and the properties do not hold for such
players; they are stated for the clean ones, and for clean players together with others that are not. What a
race can do is named in section 3.

### Food (with MCFood, Food_proofs)

The objects of one room. An object never moves, so the module keeps for each player the set of objects in its
near cells (`sight`) in place of the cells; that the searches visit just those, and discover just those that
come near, is proved in `World_proofs`. A handler that eats is five steps: `EatObject` (size), `EraseObject`
(`m_objectSet`), `UnlistObject` (the cell), `TellDestroyed`, `QueueObject`; the room's thread respawns in six:
`TestQueue`, `TakeTop`, `PopTop`, `InsertObject`, `PushObject`, `TellCreated`. `top` is a variable of its own
because `top()` and `pop()` are two calls: with equal times the queue may have any of them on top. Time is
what is left to each object's `m_respawnTime`. `Conflict` lists where the two threads use one container
without a lock; `DataRace` is the outcome in which they overlap, after which nothing is claimed, and the steps
one after the other are the other outcome. `crossed` is history: objects whose destruction was sent before
their creation.

### Rounds (with MCRounds, Rounds_proofs)

One room's thread, statement by statement: `CheckEmpty`, `LookForPlayers`, `ResetEmpty`, `ComputeDelay`, the
walk (`BeginWalk`, `UpdatePlayer`, `Advance`), `StampUpdate`. `clock` is the 32-bit `getMSTime`, `Diff` the
code's `getMSTimeDiff`; `updateAge` and `emptyFor` are the true times beside it. `getMSTime` is
`gettimeofday`, a wall clock: besides advancing (`Tick`) it may be set, back or ahead, to any time
(`SetClock`). The difference is then anything up to 49 days, an empty room can end at once, and players are
moved by it; `emptySet` and `updateSet` remember that the clock was set since a time was taken, and the
properties say that this is all it can spoil. The network thread adds and erases players between any two of
these. When it erases the node the walk is at, the walk stands on freed memory (`Freed`): as long as nothing
reuses it, the node still leads to the one that followed (`after`), unless that has been erased, too.
`UseReused` is the other outcome, which ends the behaviour. A handler that got the room before it ended may
still add a player to it.

### Storage, Accounts (with MCStorage, Storage_proofs)

`Storage` is the users table through starts of different versions of the program. `pc` is the statement the
process is at; every statement is committed by itself and may fail (`StatementFails`; the code goes on with
the next), and the process may stop anywhere (`Stop`). A statement that is not possible changes nothing:
renaming when `users__old` is there, copying when an id or a column is in the way. A version is the set of
columns it has beyond id, username and password. `RegisterMisled` is a registration whose lookup failed:
`GetUserByUsername` returns `nullptr` for that as for an unknown user. It also formats the name into the text
of its query (`Storage.cpp:187`), and `sqlite3_exec` runs every statement of a text
(`sqlite3_wrapper.cpp:140`). Registration tests names first (`IsValidUsername`, `PacketHandlers.cpp:157`), a
login does not (`PacketHandlers.cpp:43-55`): `LookupRuns` is a login whose name ends the query and goes on
with statements of its own. Nothing is known of the table then, and the model ends in `pc = "unknown"`. What
is shown of the table is about the program's own statements. `Accounts` is what login and registration expect,
a growing set of accounts with new names and ids; `Storage` implements it (`ImplementsAccounts`) with the rows
of `users` and, between renaming and copy, `users__old`, of all names that are neither `atRisk` nor `doubled`;
a name that ran as statements gives up all.

### GamePacket, Outgoing, Incoming, Packets, Channel (with MCPackets, Packets_proofs)

`GamePacket` is the buffer as operators: `Write` keeps the surplus zero behind the contents that the code
counts in the size, with size and positions modulo `SizeRange` (65536), so that a packet with too many blocks
overwrites its own beginning; `WriteAt` patches a counter, `ReadString` looks behind the buffer if there is no
terminating zero. A byte is a tuple that names its field, so that a byte read in the wrong place is noticed.
What a loop over fields, blocks or groups has done is a function of how many it has done (`ReadTo`,
`FieldsTo`, `BlocksTo`, `GroupsTo`).

`Outgoing` builds packets as rooms and handlers do, in fields and counted groups of blocks, and sends each
with one `send`, which takes all of a frame, a part or nothing; a client decodes frames. `Incoming` is the
other way: a client says what handlers read, or something longer, shorter or too large; bytes arrive in any
pieces, also between the two `recv` of a turn (`ReceiveHeader`, `ReceiveContents`); the removals are the
code's two "malformed" branches. `Channel` is what both promise: messages arrive whole and in order; it may
close, and it may be cut, and after the messages before the cut nothing is promised. Each module refines it,
with the messages said and not yet understood as the queue. `Packets` puts both directions side by side for
one connection.

Two assumptions on the layouts are facts of the code that the proofs showed to be needed. No handler reads a
text last (`ClientLayoutsAssumption`; the reads are at PacketHandlers.cpp:43-45, 140-142, 215-216, 289,
316-317, 356-358, 399, 436-438, 463-465, 491-492, 505, 525-526): a packet cut within a last text could be
taken for a whole one, with a shorter text, if the byte behind the buffer happens to be zero, because nothing
would be read after it. And no packet declares a size larger than what is written to it (`SizesAssumption`;
PacketHandlers.cpp:48, 145, 297, Room.cpp:592), because `SendPacket` takes the size for the number of bytes to
send.

### How they compose

`Rounds` and `Food` open up the room's round that `Sessions` takes as one step: its walk, and its respawns.
`Sessions` sees of `Storage` the set of user ids and that a lookup may fail, with the names of logins being
names (what one that runs as statements leaves of the table is unknown to both), and of `Incoming` that a
packet is handled, malformed, or too short. `World` extends `Visibility`. `Sessions`, `RoomThreads` and
`World` are three views of the same threads at three grains, with the network thread in common: `Sessions` has
whole handlers, `RoomThreads` the lock and the life of rooms and threads, `World` the steps inside the
handlers that touch the grid. What one leaves out is a nondeterministic choice in another: `UseRoom` of
`RoomThreads` is any handler of `Sessions` or `World`.

## 3. The runs

| Run | Module, cfg | Shows |
|---|---|---|
| takeover | MCSessions, SessionsTakeover | types, `Pairing`, `RestoresAreTakeovers`, `IdFixedInRoom`, `KickIsFinal` |
| rooms | MCSessions, SessionsRooms | `MembershipExact`, `OutsideGameNoRoom`, `FaultCauses` with rooms created and ended, and lookups that fail; and that Sessions implements Presence |
| live | MCSessions, SessionsLive | `TimedOutLeaves`, `LostPlayerLeaves` under fairness |
| threads | MCRoomThreads, RoomThreads | `ListedRoomsLive`, `StoppedAfterExit`, `SettledStays`, and `HangCauses` under fairness |
| world | MCWorld, World | `GridExact`, `ToldComplete`, `ToldOnlyMembers` |
| food | MCFood, Food | `FoodConserved`, `PopsWhatItTook`, `FoodKnown`, `NoGhostFood`, `SizesBounded`, and `FoodComesBack` under fairness |
| rounds | MCRounds, Rounds | `EndsAfterEmptiness`, `StrandedJoinedLate`, `EveryoneUpdated`, `DelayIsTime`, and `EmptyRoomEnds` under fairness |
| storage | MCStorage, Storage | `NamesUnique`, `AccountsKept`, `StructureSettles`, and that Storage implements Accounts |
| packets | MCPackets, Packets | `SendsImplementChannel`, `ReadsImplementChannel`: Outgoing and Incoming implement Channel |
| login | MCSessions, SessionsLogin | violation of `LoginKicksOthers` |
| closed_client | MCSessions, SessionsClosed | violation of `ClosedClientLeaves` |
| exit | MCRoomThreads, RoomThreadsExit | violation of `ExitTerminates` |

All runs turn deadlock checking off: the models may stop where a bound is reached, a process has died, two
accesses have overlapped, a room has ended, all packets have been sent, a login's name has run as statements,
or Shutdown has returned. What the server's own deadlock does is asked by `ExitTerminates` and `HangCauses`.

**Bounds.** `takeover` has three connections of one account with one key: a restore involves at most three
sessions (the new one, the one with the key, the one with the id), and one account and one key are the worst
case for lookups by id and key. No connection breaks there, and no lookup fails; `rooms` has two connections,
a second room that is created, ended and deleted, and an account that does not exist yet, which the failing
lookups let both connections register: so both can be in one room for one account, a wrong entry is erased, a
deleted player is met in a list, and each cause of `FaultCauses` occurs with and without the others. What a takeover is to a client needs two connections there; the refinement for more is proved.
`MaxViolations` is 1 where the code has 3: the counter reaches its limit and is decreased at zero. `live` has
one room, since the ping is the same in every room, and connections that close, which `recv` does not report,
or are reset, which a send may hide. `threads` has three rooms: the default one, which never ends itself, and
two that do, so that Shutdown's iteration meets a room that is there, one that ends, and one that was never
created. `world` has a grid of three by two cells with offset 1: cells that are near and cells that are not,
in one dimension and not in the other, with both borders clamped; two players suffice because every property
is about one player or a pair, and a step reads and writes only cells and one mover's `told` entries (the
proofs drop all these bounds). Its constraint `CleanOnly` stops a behaviour once a player is unclean: the
invariants say nothing about that player, and the proofs cover clean players that meet unclean ones. `food`
has one object that feeds and one that does not, each seen from one of two places, and two players who can eat
both and each other; `Delay` 1 and `MaxLate` 0 let an object be due, not yet due, and due together with the
other, and the limits of the income (3, 4, 5) are apart by one, so that every size between them occurs.
`rounds` has two players in a room for two, who can leave and come back in one walk, before the node the walk
is at, at it or behind; the clock has six values, so that it wraps, and is 0, at any point of a room's life,
and the shutdown time of two is longer than a round. It is set at most once (`MaxSettings`; the proofs have
any number), at any point and to any time. `storage` has two names and two ids, three versions between which a
column is added, dropped, or one added and another dropped, and no bound on starts, stops and failures.
`packets` has three packets, in one direction at a time since nothing is shared, so that one can be lost or
cut between others. Their layouts are the code's, shortened where a block repeats the same kind of field: one
with a declared size, one with a text, one with two counted groups of up to two blocks, the second of which
begins where the first ended; texts may be empty. Sizes wrap at 16 in place of 65536, which the third layout
exceeds when its groups are full and the others do not reach, so that packets that fit and packets that wrap
follow each other. `send` cuts in the header or in the contents. The largest packet accepted has 9 bytes in
place of 1023, and no well-formed one is larger. The counters of connections and rooms are capped by `MaxConn`
and `MaxRooms` in the guards of `AcceptConnection` and of the two `CreateRoom` actions; `MaxLate`, `MaxRound`
`MaxId` and `MaxSettings` bound lateness, rounds, ids and settings of the clock; nothing else is cut.

**Fairness.** `Sessions`: weak fairness of the network thread and of each room's thread (they are loops with a
sleep, and every branch of a pass ends), and of the two clocks that bound a timeout and a ping. Nothing is
assumed of clients, of the empty-room clock, or of a `send` consuming an error. `RoomThreads`: weak fairness
of every thread; the main thread only after the command `exit`, which need not be given. `Food` and `Rounds`:
weak fairness of what a thread has begun and of time, nothing of what clients ask for; a round's steps follow
each other without waiting. Weak fairness is enough for the mutex because a thread that waits for
`roomlist_mtx` either waits for Shutdown, which keeps it, or takes it in one step.

**What the failing runs show.** Each states what a comment of the source says, and the code does otherwise:

* *login*: the login handler kicks the first session with the account's id only; when that one has been kicked
  before and is not removed yet, a second logged-in session stays (`PacketHandlers.cpp:78`).
* *closed_client*: a client that closes its connection in the lobby is never removed, because `recv` returning
  0 is judged by a stale `errno` (`Network.cpp:346, 371`).
* *exit*: `Gameplay::Shutdown` joins a room's thread while it holds the mutex this thread needs to move a
  player (`Gameplay.cpp:33-38`). `HangCauses` shows that beside this only a flag that a starting thread sets
  again, and the use of a deleted room, can keep `exit` from ending.

**Defects the passing runs are stated around.** The models contain them, and the properties say how far they
reach:

* A round of a room does not lock its list against the network thread, which deletes players, sessions and
  entries of the list (`Room.cpp:124-125`, `Network.cpp:402-409`, `Room.cpp:231`): a round that is at work
  with one uses freed memory. `FaultCauses` says that beside such a round only the erasing of a wrong entry
  leads to one, and `ImplementsPresence` that a round which gets by leaves no trace.
* A registration whose first lookup fails logs in to the account there was, without its password, and one
  whose second lookup fails has stored the user it refuses (`PacketHandlers.cpp:163-184`; `RegisterTaken` and
  `Register` in `Presence`).
* The name of a login is run as part of a text of statements (`PacketHandlers.cpp:55`, `Storage.cpp:187`), so
  it can change or remove users; `NamesUnique`, `AccountsKept` and `ImplementsAccounts` end there.
* Repeated world requests list a player in cells without limit (`Room.cpp:261`), and each entry is a block of
  the packets built from the cell; a packet over 65535 bytes wraps and overwrites its beginning
  (`GamePacket.cpp:128-133`). `SendsImplementChannel` holds until then.
* A player removed while the room's thread moves it stays in a cell's list, deleted: it is looked for in the
  cell of its position, which `Relocate` writes before it changes the cells (`Room.cpp:215-218`,
  `WorldObject.cpp:67, 92`). `GridExact` excepts such players (`raced`).
* A well-formed packet whose bytes arrive in two pieces has its client disconnected as "malformed"
  (`Network.cpp:302`, `RemoveForHeader` and `RemoveForContents` in `Incoming`), without the timeout in which
  the session can be restored.
* A packet that `send` takes only in part puts the stream out of step for good (`Network.cpp:443`); the
  channel's cut.
* A room can be ended with players in it, who are then in game without a room: the time stamp that decides it
  is older than the list (`Room.cpp:152`). `StrandedJoinedLate` says that only those who joined since the
  thread's last look can be hit.
* `GamePacket` throws a pointer (`GamePacket.cpp:42, 56, 70`), `HandlePacket` catches a reference
  (`Session.cpp:84`): a packet shorter than its handler reads ends the process (`ShortPacket` in `Sessions`).
* A migration that is stopped, or one of whose statements fails, between the renaming and the copy loses the
  users in `users__old` at the next start or at the dropping. So does one that drops columns and has failed to
  add one before: the copy does not find the column (`Storage.cpp:87, 117`). `AccountsKept` says that only
  names in the table at these two moments are lost. `Storage::Init` returns true in any case, although
  `Application.cpp:54` tests it.
* A failed lookup at a registration makes a second user of one name; `NamesUnique` says that nothing else does
  but a name run as statements.
* `getMSTimeDiff` is one short at a wrap (`Helpers.h:27` has `0xFFFFFFFF - old + new`), and no more:
  `DelayIsTime`.
* The clock of the rounds is a wall clock (`Helpers.h:17`): set back, it lets an empty room end at once and
  moves players by 49 days in one round. `EndsAfterEmptiness` and `DelayIsTime` say how far this reaches.
* An object eaten between its respawn and the sending of its creation stays on the clients' screens
  (`crossed`).
* `ResetAttributes` ("Resets player attributes to initial state", `Player.h`) leaves the speed of the life
  before.
* A player can eat itself: it finds itself in its own cell (`PacketHandlers.cpp:530`).

## 4. The proofs

The proofs hold for every value of the constants, under the named assumptions of the modules only: numbers of
connections, rooms and violations are natural and not zero where the code's are not; `NoId`, `NoKey`, `Nobody`
and `Outside` are not among what they stand apart from; the grid has a cell.

**Sessions_proofs.** `Pairing` is not inductive alone. The invariant `IInv` adds that records hold players of
accepted connections (so that a new connection's objects are not referred to yet), that a session with the
maximum of violations is expired (so that the counter is never raised over it), and `AuthNoRoom`, that a
session that may still log in has a player in no room: login and registration write `m_id`, and
`IdFixedInRoom` needs that they never do so for a player in a room. From `IInv` follow `TypeOK`, `Pairing`,
and for every step the action properties `KickIsFinal`, `RestoresAreTakeovers`, `IdFixedInRoom`; the proof
goes through the actions once and shows invariant and action properties together.

**Membership_proofs.** `RInv` follows the rooms and their lists: room ids are given in order, the rooms in
`m_rooms` are those whose threads run, and a room nobody created has no players (`RoomsInOrder`); while no
wrong entry was erased, every list is without repetitions the players with its id, also when the process dies
(`Exact`); and as long as no room was ended, a session in game has a player in a room (`InGameInRoom`). That
erasing by id takes the own player out needs `Exact` and the choice of the first entry; that a null room has
its cause needs `InGameInRoom`. It holds on top of `IInv`, and gives `MembershipExact`, `OutsideGameNoRoom`
and `FaultCauses`. The last is part of `RInv`: a list without a wrong entry has no deleted player in it
(`Exact`), so that only a round that was caught can be left to meet one.

From both invariants follows that `Sessions` implements `Presence` (`SessionsImplementPresence`). While
nothing went wrong, `Exact` lets the lists be forgotten: a connection is in the room its player has the id of
(`SeenInRooms`). Then each handler is looked at once (the lemmas named `...Seen`), through what it changes in
ids and room ids. A room that is not full has fewer connections in it than `Capacity` because each has an
entry of its own (`NotMoreThanEntries`). That a leaving connection cannot miss its own entry, unless another
one with its id is in the list before it, is `RemoveSeen` and `AstraySeen`; that the code dies only where
`Presence` may is `DyingSeen` and `RemoveSeen`.

**World_proofs.** First the areas of `Visibility`: `BorderLemma` compares, in one dimension, clamping with
skipping. From it: the window is the near area, a move destroys exactly `Near(old) \ Near(new)` and creates
exactly `Near(new) \ Near(old)`, and sight is mutual. `IInv` of `World` then has three parts. `GridInv` says
for every stage of a player's work where it is listed and which thread may work on it: for instance, a player
whose first world is being built is not moving, so that the room's thread cannot start to move it (`Alone`,
`Placed`); a player being relocated is in the cell of its old position (`Relocated`). `MembersInv` extends
`ToldOnlyMembers` to the player blocks that have been collected and not sent. `ToldInv` extends `ToldComplete`
to pairs one of whom is being worked on: `Due` says from which step on a client has to know, `SeenBy` counts
what it is about to be sent. The step of a move uses the theorems about areas and that a player is in one cell
at most.

**RoomThreads_proofs.** `IInv` adds to the invariants: a running room is listed with an id already given out,
only Shutdown takes the flag from a room in its loop, and Shutdown holds the mutex and has ended all rooms
with smaller ids. The last needs that the network thread, the only creator of rooms, has been joined before.
`SettledStays` follows for every step.

**Food_proofs.** `IInv` says what each thread has in hand (`HandsOK`), the one place of every object
(`PlacedOK`), that the queue has a top exactly if it is not empty and that the top taken is still the top
(`TopOK`: a push has the full delay left and no other object has more), and what a client knows or is about to
be told (`KnowsOK`, `CreatedOK`). `GainBounded` is the arithmetic of sizes: it needs that the limits of the
income stand to each other as the code's do (`SizesAssumption`: 120 and 1200, gains of 2).

**Rounds_proofs.** `WalkOK` is the heart: the walk at player `p` has updated just the stayers before `p`, and
one at an erased node those before the node that followed. That erasing keeps the order of the others, and
adding their places, is proved of sequences first (`RemoveFacts`, `AppendFacts`). `ClockOK` relates the clock
to the time that passed, `EmptyOK` the stamp to the time without players, each as long as the clock was not
set since its time was taken: what the thread computes then is never more.

**Storage_proofs.** The invariant says which tables exist at which statement and where the row of an account
that is not at risk is: in `users`, or still in `users__old`, between renaming and copy. The refinement
follows step by step: a start, and every statement of a migration, changes neither the safe rows nor the names
given up; a cut, or a failure that will make the copy fail, gives up names; a registration adds a row whose
name and id are new; a name run as statements gives up all names.

**Packets_proofs.** Both directions implement `Channel`, for all layouts, any number of fields, blocks, groups
and packets, texts of any length, any `SizeRange` at which sizes wrap, and any way `recv` and `send` divide a
frame. The fact both sides share is `Laid`: a stream is one frame after the other, each one of the forms its
message may have.

* The buffer. `Built` says what a packet under construction contains: the bytes written, the surplus zero, a
  size that counts both. Writing extends it (`WriteBuilt`), and patching a counter in its middle replaces four
  bytes and leaves the rest (`WriteAtBuilt`); so what a handler builds is the bytes its message should have
  (`BuildBuilt`). Reading undoes it: fields one after the other (`ReadToFacts`), blocks of a group and groups
  of a packet (`UnderstoodBack`). All this is of packets whose size fits (`SizeFits`); of one that wraps only
  is needed that the memory is as long as its size says (so that `SendPacket` sends that many bytes), whatever
  they are. `ReadToFacts` holds of whatever lies at the fields' place and so also covers contents that are too
  short: then the last number cannot be read, which is what `ClientLayoutsAssumption` is for.
* `Incoming`. `InInv`: the header kept from an earlier turn, followed by the stream, is the frames of the
  messages said and not handled. `FirstFrame` gets from there to what the two `recv` return: a header of the
  first of those messages, and its contents. After a removal or the end of the process nothing is claimed.
* `Outgoing`. `OutInv`: the bytes not decoded begin with the frames of the messages sent and not heard, and
  end there unless a packet was cut or too large for its size. What a client decodes after the cut does not
  disturb what it decoded before (`DecodesMore`).
* Induction. The loops over fields, blocks and groups are recursive functions, and the proofs about them go by
  induction over a set: the numbers a claim holds for contain 0 and the successors of their members, so they
  are all (`Induction`, `InductionTo`, from the least member of a set of naturals, `LeastNatural`). That a
  recursive function has its defining property is proved with it as well (the lemmas named `...Def`).

`InInvStep` and `OutInvStep` are about the steps of one direction without the bound of `Packets` that a
behaviour has packets in one direction only, so the theorems do not depend on it.

**Only model-checked** is liveness: `TimedOutLeaves`, `LostPlayerLeaves`, `HangCauses`, `FoodComesBack` and
`EmptyRoomEnds` need fairness, which is defined with ENABLED, and the prover does not handle that. All other
properties of the passing runs are proved. The three runs that find a violation are counterexamples, and stay
with TLC.

## 5. Not modelled

* What two unlocked accesses to one container do when they overlap: any outcome is possible, and `World`,
  `Food` and `Rounds` end there. What they show is that everything short of an overlap is harmless.
* A second SIGINT during Shutdown, and SIGINT before `Application::Init` has ended.
* Positions that are not numbers (a movement packet can carry one): a position is a cell or outside.
* The speed of players and the positions within a cell: arithmetic of floats, which no property tells apart.
* What a client makes of a stream that is out of step after a cut: `Outgoing` lets it decode what still looks
  like a frame.
* What a use of freed memory does if it does not end the process, and what statements in a login's name do to
  the table: both end their models.
* Passwords, and name and version checks: choices of the environment.
* Configuration, logging, statistics, the byte counters, the SQLite wrapper and the vendored SQLite and SHA-1:
  input, output, or not this program's code.

## 6. Plan

Done are 1 to 10.

1. `Sessions`: sessions, restores, player lists, and the proofs of its invariant and action properties.
2. `RoomThreads`: threads, mutex, flags, shutdown, with the proofs of its safety.
3. `Visibility`: the searchers' areas, proved for every grid.
4. `World`: grid and knowledge of clients under two threads, with proofs of all its properties.
5. `Food`: eating and respawn between two threads, sizes, with proofs of all its safety properties.
6. `Rounds`: the walk over the player list, the empty room's end, the clock's wrap, with proofs.
7. `Storage` and `Accounts`: the migration with stops and failures, and its refinement, with proofs.
8. `Membership_proofs`: the inductive invariant of the player lists of `Sessions`.
9. `GamePacket`, `Outgoing`, `Incoming`, `Packets`: the buffer and the frames of both directions, and their
   refinement of `Channel`, with proofs.
10. `Presence`: the abstract session service, with the takeover as one step, and the proof that `Sessions`
    implements it.
