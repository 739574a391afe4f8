------------------------------ MODULE Accounts ------------------------------
(***************************************************************************)
(* What login and registration expect of the storage: a set of accounts to *)
(* which a registration adds one, with a new name and a new id, and from   *)
(* which nothing is taken.  Some names may be given up, and nothing is     *)
(* promised of them from then on.                                          *)
(***************************************************************************)
EXTENDS Naturals

CONSTANTS Names, MaxId

VARIABLES
    accounts,       \* the accounts of names not given up
    givenUp         \* the names given up

vars == <<accounts, givenUp>>

Init == accounts = {} /\ givenUp = {}

\* StoreUser, for a name GetUserByUsername does not find
StoreUser(name, id) ==
    /\ name \notin givenUp
    /\ \A r \in accounts : r.name # name /\ r.id # id
    /\ accounts' = accounts \cup {[id |-> id, name |-> name]}
    /\ UNCHANGED givenUp

GiveUp(names) ==
    /\ givenUp' = givenUp \cup names
    /\ accounts' = {r \in accounts : r.name \notin givenUp'}

Next ==
    \/ \E name \in Names, id \in 1 .. MaxId : StoreUser(name, id)
    \/ \E names \in SUBSET Names : GiveUp(names)

Spec == Init /\ [][Next]_vars

=============================================================================
