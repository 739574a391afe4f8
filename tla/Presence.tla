------------------------------ MODULE Presence ------------------------------
(***************************************************************************)
(* What the session layer is for, as a client sees it: connections that    *)
(* act for accounts, rooms with connections in them, and sessions that are *)
(* taken over in one step.  There are no records, sessions, players, lists *)
(* or room ids here, and no pointer between any two of them.               *)
(*                                                                         *)
(* The service is dependable until the process dies or a room's list has   *)
(* gone astray; when that can happen is part of the promise.               *)
(***************************************************************************)
EXTENDS Naturals, FiniteSets

CONSTANTS Conns, Rooms, DefaultRoom, Accounts, Ids, InitUsers, Capacity

VARIABLES
    account,        \* for each connection online, the id it acts for
    present,        \* for each room, the connections in it
    kicked,         \* connections that are cut at their next turn
    open,           \* rooms that can be entered
    caught,         \* rooms that were at work with a connection as it went
    registered,     \* accounts one can log in to
    status          \* "up", "astray" or "dead"

vars == <<account, present, kicked, open, caught, registered, status>>

Init ==
    /\ account = [c \in {} |-> c]
    /\ present = [r \in Rooms |-> {}]
    /\ kicked = {}
    /\ open = {DefaultRoom}
    /\ caught = {}
    /\ registered = InitUsers
    /\ status = "up"

Online == DOMAIN account
Acts(c) == c \in Online \ kicked
Nowhere(c) == \A r \in Rooms : c \notin present[r]
Playing(c) == \E r \in open : c \in present[r]
Holders(i) == {d \in Online : account[d] = i}

\* At most one of the rooms is at work with what goes
Catches(rooms) == caught' \in {caught} \cup {caught \cup {r} : r \in rooms}

\* A connection is accepted; until it logs in its id is whatever memory held
Arrive(c) ==
    /\ c \notin Online
    /\ \E i \in Ids : account' = [d \in Online \cup {c} |-> IF d = c THEN i ELSE account[d]]
    /\ UNCHANGED <<present, kicked, open, caught, registered, status>>

\* Whoever holds the account is kicked, or else, if that one is playing, the
\* newcomer, which is offered to take it over
LogIn(c, i) ==
    /\ Acts(c) /\ Nowhere(c) /\ i \in registered
    /\ account' = [account EXCEPT ![c] = i]
    /\ \/ Holders(i) = {} /\ UNCHANGED kicked
       \/ \E d \in Holders(i) : \/ kicked' = kicked \cup {d}
                                \/ Playing(d) /\ kicked' = kicked \cup {c}
    /\ UNCHANGED <<present, open, caught, registered, status>>

\* The account is created, but the connection may not get to know of it.
Register(c, i) ==
    /\ Acts(c) /\ Nowhere(c) /\ i \in Accounts \ registered
    /\ account' = [account EXCEPT ![c] = i] \/ UNCHANGED account
    /\ registered' = registered \cup {i}
    /\ UNCHANGED <<present, kicked, open, caught, status>>

\* A failing database lets a connection register what is registered: it acts for
\* the account, and nobody is kicked.
RegisterTaken(c, i) ==
    /\ Acts(c) /\ Nowhere(c) /\ i \in registered
    /\ account' = [account EXCEPT ![c] = i]
    /\ UNCHANGED <<present, kicked, open, caught, registered, status>>

\* Connections c and d exchange what they act for and where they are, at
\* once, and d is kicked
Exchanged(c, d, e) == IF e = c THEN d ELSE IF e = d THEN c ELSE e

TakeOver(c, d) ==
    /\ Acts(c) /\ d \in Online
    /\ account' = [e \in Online |-> account[Exchanged(c, d, e)]]
    /\ present' = [r \in Rooms |-> {e \in Online : Exchanged(c, d, e) \in present[r]}]
    /\ kicked' = kicked \cup {d}
    /\ UNCHANGED <<open, caught, registered, status>>

Enter(c, r) ==
    /\ Acts(c) /\ Nowhere(c) /\ r \in open /\ Cardinality(present[r]) < Capacity
    /\ present' = [present EXCEPT ![r] = @ \cup {c}]
    /\ UNCHANGED <<account, kicked, open, caught, registered, status>>

\* A room is created with its creator in it
Create(c, r) ==
    /\ Acts(c) /\ Nowhere(c) /\ r \notin open /\ present[r] = {}
    /\ open' = open \cup {r}
    /\ present' = [present EXCEPT ![r] = {c}]
    /\ UNCHANGED <<account, kicked, caught, registered, status>>

Exit(c, r) ==
    /\ Acts(c) /\ r \in open /\ c \in present[r]
    /\ present' = [present EXCEPT ![r] = @ \ {c}]
    /\ Catches({r})
    /\ UNCHANGED <<account, kicked, open, registered, status>>

Kick(c) ==
    /\ Acts(c)
    /\ kicked' = kicked \cup {c}
    /\ UNCHANGED <<account, present, open, caught, registered, status>>

\* A connection goes, from nowhere or from a room that is open.  Any room may be
\* at work with it, which can have been taken over just now.
Leave(c) ==
    /\ c \in Online /\ (Nowhere(c) \/ Playing(c))
    /\ account' = [d \in Online \ {c} |-> account[d]]
    /\ present' = [r \in Rooms |-> present[r] \ {c}]
    /\ kicked' = kicked \ {c}
    /\ Catches({r \in open : present[r] # {}})
    /\ UNCHANGED <<open, registered, status>>

\* A room that was caught has come to the end of its round.
Escape(r) ==
    /\ r \in caught
    /\ caught' = caught \ {r}
    /\ UNCHANGED <<account, present, kicked, open, registered, status>>

\* A room is closed, which need not be empty by now, and later cleared
Close(r) ==
    /\ r \in open \ ({DefaultRoom} \cup caught)
    /\ open' = open \ {r}
    /\ UNCHANGED <<account, present, kicked, caught, registered, status>>

Clear(r) ==
    /\ r \notin open
    /\ present' = [present EXCEPT ![r] = {}]
    /\ UNCHANGED <<account, kicked, open, caught, registered, status>>

\* The process dies of a packet, of a connection that goes from a room that is
\* closed and not yet cleared, or of a room that was caught
Die ==
    /\ \/ caught # {}
       \/ \E c \in Online : Acts(c) \/ (~Nowhere(c) /\ ~Playing(c))
    /\ status' = "dead"
    /\ UNCHANGED <<account, present, kicked, open, caught, registered>>

\* Two connections of one account are in one room, and the wrong one is taken
\* out of the list; nothing is promised of the state from then on
GoAstray ==
    /\ \E r \in open : \E c, d \in present[r] : c # d /\ account[c] = account[d]
    /\ status' = "astray"

Serve ==
    \/ \E c \in Conns : \/ Arrive(c) \/ Kick(c) \/ Leave(c)
                        \/ \E i \in Accounts : LogIn(c, i) \/ Register(c, i) \/ RegisterTaken(c, i)
                        \/ \E d \in Conns : TakeOver(c, d)
                        \/ \E r \in Rooms : Enter(c, r) \/ Create(c, r) \/ Exit(c, r)
    \/ \E r \in Rooms : Escape(r) \/ Close(r) \/ Clear(r)

Next ==
    \/ status = "up" /\ (Serve \/ Die \/ GoAstray)
    \/ status # "up" /\ status' # "up"

Spec == Init /\ [][Next]_vars

=============================================================================
