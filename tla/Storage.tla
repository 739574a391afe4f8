------------------------------ MODULE Storage ------------------------------
(***************************************************************************)
(* The users table: Storage.cpp brings it into the structure the program   *)
(* expects when it starts, one statement after the other and without       *)
(* looking at their results, then users register.  Every statement is      *)
(* committed by itself (sqlite3_exec outside a transaction).  It may fail, *)
(* because the disk is full or the file is locked, and the process may     *)
(* stop between two statements.                                            *)
(*                                                                         *)
(* A program version is the set of columns it has beyond id, username and  *)
(* password; those three are in every version, since they are in the       *)
(* queries.  A password is data, so a row is an id and a username.         *)
(*                                                                         *)
(* GetUserByUsername formats the name into the text of its query, and      *)
(* sqlite3_exec runs all statements of a text.  A registration tests the   *)
(* name before (IsValidUsername); a login does not, and what its name is   *)
(* decides whether the query only reads (LookupRuns).                      *)
(***************************************************************************)
EXTENDS Naturals

CONSTANTS
    Names,          \* usernames
    Versions,       \* the structures of the versions of the program
    MaxId           \* bound: ids given

ASSUME VersionsAssumption == Versions # {} /\ MaxId \in Nat

VARIABLES
    pc,             \* the statement the process is at
    expected,       \* KnownTables of the version that runs
    toAdd, toDel,   \* colSetToAdd, colSetToDel
    users,          \* the table users
    old,            \* the table users__old
    accepted,       \* history: accounts whose registration was answered with OK
    atRisk,         \* history: names in a table whose migration was cut or failed
    doubled,        \* history: names registered again, since a failed query found nobody
    calm            \* history: starts without a stop or failure, of one version

tables == <<users, old>>
history == <<accepted, atRisk, doubled, calm>>
vars == <<pc, expected, toAdd, toDel, tables, history>>

Columns == UNION Versions
Rows == [id : 1 .. MaxId, name : Names]
Table == [exists : BOOLEAN, cols : SUBSET Columns, rows : SUBSET Rows]
NoTable == [exists |-> FALSE, cols |-> {}, rows |-> {}]

TypeOK ==
    /\ pc \in {"down", "check", "add", "rename", "create", "copy", "drop", "serve", "unknown"}
    /\ expected \in Versions
    /\ toAdd \subseteq Columns /\ toDel \subseteq Columns
    /\ users \in Table /\ old \in Table
    /\ accepted \subseteq Rows /\ atRisk \subseteq Names
    /\ doubled \subseteq Names /\ calm \in 0 .. 2

\* The database file may be new
Init ==
    /\ pc = "down" /\ expected \in Versions
    /\ toAdd = {} /\ toDel = {}
    /\ users = NoTable /\ old = NoTable
    /\ accepted = {} /\ atRisk = {} /\ doubled = {} /\ calm = 0

NamesIn(t) == {r.name : r \in t.rows}

-----------------------------------------------------------------------------
(* Statements.  One that is not possible fails and changes nothing.        *)

\* CREATE TABLE users
CreateTable ==
    IF users.exists THEN UNCHANGED users
    ELSE users' = [exists |-> TRUE, cols |-> expected, rows |-> {}]

\* ALTER TABLE users RENAME TO users__old
Rename ==
    IF users.exists /\ ~old.exists THEN old' = users /\ users' = NoTable
    ELSE UNCHANGED tables

\* Mutant: rows in the way are replaced
CopyReplacing ==
    /\ IF users.exists /\ old.exists
       THEN users' = [users EXCEPT !.rows =
                        old.rows \cup {r \in @ : \A s \in old.rows : r.id # s.id}]
       ELSE UNCHANGED users
    /\ UNCHANGED old

\* INSERT INTO users SELECT FROM users__old: all rows or, if a column is
\* missing or an id is there already, none
Copy ==
    /\ IF /\ users.exists /\ old.exists
          /\ expected \subseteq users.cols /\ expected \subseteq old.cols
          /\ \A r \in users.rows, s \in old.rows : r.id # s.id
       THEN users' = [users EXCEPT !.rows = @ \cup old.rows]
       ELSE UNCHANGED users
    /\ UNCHANGED old

\* Mutant: the old table is kept
KeepOld == UNCHANGED tables

\* DROP TABLE users__old
DropOld == old' = NoTable /\ UNCHANGED users

-----------------------------------------------------------------------------
(* The start of the server. *)

\* A version of the program is started
Start ==
    /\ pc = "down" /\ pc' = "check"
    /\ expected' \in Versions
    /\ calm' = IF expected' # expected THEN 1 ELSE IF calm = 2 THEN 2 ELSE calm + 1
    /\ UNCHANGED <<toAdd, toDel, tables, accepted, atRisk, doubled>>

\* CheckDBStructure, CheckTableColumns: the columns there are and should be
CheckDBStructure ==
    /\ pc = "check"
    /\ IF users.exists
       THEN /\ toAdd' = expected \ users.cols /\ toDel' = users.cols \ expected
            /\ pc' = IF toAdd' # {} THEN "add" ELSE IF toDel' # {} THEN "rename" ELSE "serve"
            /\ UNCHANGED tables
       ELSE CreateTable /\ pc' = "serve" /\ UNCHANGED <<toAdd, toDel, old>>
    /\ UNCHANGED <<expected, history>>

\* The structure cannot be read: CreateTable, and the null result is used
CheckFails ==
    /\ pc = "check" /\ pc' = "down"
    /\ CreateTable \/ UNCHANGED users
    /\ calm' = 0
    /\ UNCHANGED <<expected, toAdd, toDel, old, accepted, atRisk, doubled>>

\* ALTER TABLE users ADD COLUMN, for each missing column
AddColumn ==
    \E c \in toAdd :
        /\ pc = "add"
        /\ toAdd' = toAdd \ {c}
        /\ users' = [users EXCEPT !.cols = @ \cup {c}]
        /\ pc' = IF toAdd' # {} THEN "add" ELSE IF toDel # {} THEN "rename" ELSE "serve"
        /\ UNCHANGED <<expected, toDel, old, history>>

\* Mutant: the new table is not created before the rows are copied
AfterRename == "copy"

\* What follows the renaming
NextToRename == "create"

RenameTable ==
    /\ pc = "rename" /\ pc' = NextToRename /\ Rename
    /\ UNCHANGED <<expected, toAdd, toDel, history>>

RecreateTable ==
    /\ pc = "create" /\ pc' = "copy" /\ CreateTable
    /\ UNCHANGED <<expected, toAdd, toDel, old, history>>

CopyRows ==
    /\ pc = "copy" /\ pc' = "drop" /\ Copy
    /\ UNCHANGED <<expected, toAdd, toDel, history>>

DropTable ==
    /\ pc = "drop" /\ pc' = "serve" /\ DropOld
    /\ UNCHANGED <<expected, toAdd, toDel, history>>

Migrate == AddColumn \/ RenameTable \/ RecreateTable \/ CopyRows \/ DropTable

\* The names a failure puts at risk.  After the renaming, those in users__old;
\* and those in a table that lacks a column, if the same migration goes on to
\* rename it, since the copy will not find the column.
PutAtRisk ==
    CASE pc = "add" /\ toDel # {} -> NamesIn(users)
      [] pc \in {"create", "copy"} -> NamesIn(old) \ NamesIn(users)
      [] OTHER -> {}

\* A statement fails, and the next one is executed
StatementFails ==
    /\ \/ pc = "check" /\ ~users.exists /\ pc' = "serve" /\ UNCHANGED toAdd
       \/ /\ pc = "add"
          /\ \E c \in toAdd : toAdd' = toAdd \ {c}
          /\ pc' = IF toAdd' # {} THEN "add" ELSE IF toDel # {} THEN "rename" ELSE "serve"
       \/ pc = "rename" /\ pc' = "create" /\ UNCHANGED toAdd
       \/ pc = "create" /\ pc' = "copy" /\ UNCHANGED toAdd
       \/ pc = "copy" /\ pc' = "drop" /\ UNCHANGED toAdd
       \/ pc = "drop" /\ pc' = "serve" /\ UNCHANGED toAdd
    /\ atRisk' = atRisk \cup PutAtRisk
    /\ calm' = 0
    /\ UNCHANGED <<expected, toDel, tables, accepted, doubled>>

-----------------------------------------------------------------------------
(* Registration. *)

\* Mutant: the name is not looked up
FreeUnchecked(name) == TRUE

\* GetUserByUsername, with a name that IsValidUsername accepts, finds nobody
Free(name) == name \notin NamesIn(users)

\* Mutant: the first id is 0
IdsFromZero ==
    {id \in 0 .. MaxId :
        /\ \A r \in users.rows : r.id < id
        /\ id = 0 \/ \E r \in users.rows : id = r.id + 1}

\* StoreUser: sqlite gives the row the id after the largest one
NewIds ==
    {id \in 1 .. MaxId :
        /\ \A r \in users.rows : r.id < id
        /\ id = 1 \/ \E r \in users.rows : id = r.id + 1}

\* HandleRegister, with a username that is free.  If the second lookup fails,
\* the user is stored all the same.
Register(name) ==
    /\ pc = "serve" /\ users.exists /\ Free(name)
    /\ \E id \in NewIds :
         /\ users' = [users EXCEPT !.rows = @ \cup {[id |-> id, name |-> name]}]
         /\ \/ accepted' = accepted \cup {[id |-> id, name |-> name]}
            \/ UNCHANGED accepted
    /\ UNCHANGED <<pc, expected, toAdd, toDel, old, atRisk, doubled, calm>>

\* HandleRegister, when the lookup fails: nullptr is an unknown user, too.  The
\* second lookup returns the first of the rows with the name.
RegisterMisled(name) ==
    /\ pc = "serve" /\ ~Free(name)
    /\ \E id \in NewIds :
         /\ users' = [users EXCEPT !.rows = @ \cup {[id |-> id, name |-> name]}]
    /\ doubled' = doubled \cup {name}
    /\ UNCHANGED <<pc, expected, toAdd, toDel, old, accepted, atRisk, calm>>

\* HandleLoginRequest, with a name that is no username: the text of the query
\* may hold other statements, and they are executed.  Any rows stand for what
\* they make of the database; nothing is claimed of it from then on, and the
\* model ends.
LookupRuns ==
    /\ pc = "serve" /\ users.exists /\ pc' = "unknown"
    /\ \E rows \in SUBSET Rows : users' = [users EXCEPT !.rows = rows]
    /\ UNCHANGED <<expected, toAdd, toDel, old, history>>

-----------------------------------------------------------------------------

\* The process ends, by command or not
Stop ==
    /\ pc \notin {"down", "unknown"} /\ pc' = "down"
    /\ atRisk' = IF pc \in {"create", "copy"} THEN atRisk \cup PutAtRisk ELSE atRisk
    /\ calm' = IF pc = "serve" THEN calm ELSE 0
    /\ UNCHANGED <<expected, toAdd, toDel, tables, accepted, doubled>>

Next ==
    \/ Start \/ CheckDBStructure \/ CheckFails \/ Migrate \/ StatementFails \/ LookupRuns \/ Stop
    \/ \E name \in Names : Register(name) \/ RegisterMisled(name)

Spec == Init /\ [][Next]_vars

-----------------------------------------------------------------------------
(* Safety. *)

\* No two users have one username, although the table does not ask for it: not
\* even the copy into a table that is in use makes a second one.  Only a
\* registration whose lookup failed does, or a login whose name is run as
\* statements (Storage.cpp:187).
NamesUnique ==
    pc # "unknown" =>
        \A r, s \in users.rows : r.name = s.name => r = s \/ r.name \in doubled

\* An account that was answered with OK keeps its row, name and id, while the
\* server is serving, through every later start of any version and whatever is
\* left of earlier ones, unless a login's name is run as statements.  Only those
\* may be lost whose name was in the table when a migration that drops columns
\* was stopped, or had a statement fail, after the renaming (Storage.cpp:100), or
\* when it failed to add a column before (Storage.cpp:87).
AccountsKept ==
    pc = "serve" => \A r \in accepted : r \in users.rows \/ r.name \in atRisk

\* A table left over from a stopped start makes the next migration fail, but
\* the one after that succeeds: two undisturbed starts lead to the structure of
\* the version.
StructureSettles == pc = "serve" /\ calm = 2 => users.exists /\ users.cols = expected

-----------------------------------------------------------------------------
(* The abstract specification. *)

\* The accounts are in users or, between the renaming and the copy, in
\* users__old.  A name that is run as statements gives up all of them.
Unsafe == IF pc = "unknown" THEN Names ELSE atRisk \cup doubled
Stored == IF pc \in {"create", "copy"} THEN users.rows \cup old.rows ELSE users.rows
SafeAccounts == {r \in Stored : r.name \notin Unsafe}

AccountsService == INSTANCE Accounts WITH accounts <- SafeAccounts, givenUp <- Unsafe

\* The migration is invisible: while it goes on, is cut, fails or meets what an
\* earlier one left, registration adds accounts and nothing removes one, except
\* that names are given up: those put at risk or doubled, and all of them when a
\* login's name is run as statements (PacketHandlers.cpp:55, Storage.cpp:187).
ImplementsAccounts == AccountsService!Spec

=============================================================================
