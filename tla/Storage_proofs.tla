--------------------------- MODULE Storage_proofs ---------------------------
(***************************************************************************)
(* Proofs about Storage for every set of names and of versions: usernames  *)
(* stay unique, an account is kept unless its own migration was cut or     *)
(* failed, and two undisturbed starts bring any table into the expected    *)
(* structure.  What is said of rows ends with a login whose name is run as *)
(* statements.                                                             *)
(***************************************************************************)
EXTENDS Storage, TLAPS

-----------------------------------------------------------------------------
(* The inductive invariant. *)

\* A table with rows has one with id 1: the rows of two tables never go into one
FirstRow(t) == t.rows # {} => t.exists /\ \E r \in t.rows : r.id = 1

OneRowPerName(t) == \A r, s \in t.rows : r.name = s.name => r = s \/ r.name \in doubled

TablesOK ==
    pc # "unknown" =>
        /\ FirstRow(users) /\ FirstRow(old)
        /\ OneRowPerName(users) /\ OneRowPerName(old)

Complete == users.exists /\ expected \subseteq users.cols
Settled == users.exists /\ users.cols = expected
HalfSettled == Settled \/ (Complete /\ ~old.exists)

\* What the start intends to do
PlanOK ==
    /\ pc \in {"add", "rename"} => users.exists /\ toDel = users.cols \ expected
    /\ pc = "add" => toAdd \subseteq expected
    /\ pc = "rename" => toDel # {}

\* How far one undisturbed start, and a second one, have come
SettlingOK ==
    /\ calm # 0 =>
         /\ pc = "add" => toAdd = expected \ users.cols
         /\ pc = "create" => Complete \/ (~users.exists /\ old.exists)
         /\ pc \in {"rename", "copy", "drop"} => Complete
         /\ pc \in {"serve", "down"} => HalfSettled
    /\ calm = 2 =>
         /\ pc = "check" => HalfSettled
         /\ pc # "add"
         /\ pc = "rename" => ~old.exists
         /\ pc = "create" => ~users.exists
         /\ pc \in {"copy", "drop", "serve", "down"} => Settled

\* A row that is not at risk is in users, or in the table it was renamed
\* to, which can then be copied back
Renamed(r) ==
    /\ r \in old.rows /\ users.rows = {} /\ expected \subseteq old.cols
    /\ IF pc = "create" THEN ~users.exists ELSE Complete

Kept(r) ==
    /\ pc \notin {"create", "copy"} => r \in users.rows
    /\ pc \in {"create", "copy"} => r \in users.rows \/ Renamed(r)
    /\ pc = "add" /\ toDel # {} => expected \subseteq users.cols \cup toAdd
    /\ pc = "rename" => expected \subseteq users.cols

AllKept ==
    pc # "unknown" =>
        \A r \in accepted \cup users.rows \cup old.rows : r.name \in atRisk \/ Kept(r)

IInv == TypeOK /\ TablesOK /\ PlanOK /\ SettlingOK /\ AllKept

-----------------------------------------------------------------------------
(* Every step keeps the invariant. *)

\* What a statement makes of users is a table
LEMMA TableTypes ==
    ASSUME TypeOK
    PROVE  /\ NoTable \in Table
           /\ CreateTable \/ UNCHANGED users => users' \in Table
<1>1. NoTable \in Table
  BY DEF NoTable, Table
<1>2. [exists |-> TRUE, cols |-> expected, rows |-> {}] \in Table
  BY DEF TypeOK, Table, Columns
<1> QED BY <1>1, <1>2 DEF TypeOK, CreateTable

\* The types
LEMMA TypeStep == IInv /\ Next => TypeOK'
<1> SUFFICES ASSUME IInv, Next PROVE TypeOK'
  OBVIOUS
<1>1. CASE Start
  BY <1>1 DEF IInv, TypeOK, Table, Rows, Columns, tables, history, NoTable, Start
<1>2. CASE CheckDBStructure
  BY <1>2, TableTypes DEF IInv, TypeOK, Table, Rows, Columns, tables, history, NoTable, CheckDBStructure, CreateTable
<1>3. CASE CheckFails
  BY <1>3, TableTypes DEF IInv, TypeOK, Table, Rows, Columns, tables, history, NoTable, CheckFails, CreateTable
<1>4. CASE AddColumn
  BY <1>4 DEF IInv, TypeOK, Table, Rows, Columns, tables, history, NoTable, AddColumn
<1>5. CASE RenameTable
  BY <1>5, TableTypes DEF IInv, TypeOK, Table, Rows, Columns, tables, history, NoTable, RenameTable, Rename, NextToRename
<1>6. CASE RecreateTable
  BY <1>6, TableTypes DEF IInv, TypeOK, Table, Rows, Columns, tables, history, NoTable, RecreateTable, CreateTable
<1>7. CASE CopyRows
  BY <1>7 DEF IInv, TypeOK, Table, Rows, Columns, tables, history, NoTable, CopyRows, Copy
<1>8. CASE DropTable
  BY <1>8, TableTypes DEF IInv, TypeOK, Table, Rows, Columns, tables, history, NoTable, DropTable, DropOld
<1>9. CASE StatementFails
  BY <1>9 DEF IInv, TypeOK, Table, Rows, Columns, tables, history, NoTable, StatementFails, PutAtRisk, NamesIn
<1>10. CASE Stop
  BY <1>10 DEF IInv, TypeOK, Table, Rows, Columns, tables, history, NoTable, Stop, PutAtRisk, NamesIn
<1>11. ASSUME NEW name \in Names, Register(name) PROVE TypeOK'
  BY <1>11 DEF IInv, TypeOK, Table, Rows, Columns, tables, history, NoTable, Register, NewIds, Free, NamesIn
<1>12. ASSUME NEW name \in Names, RegisterMisled(name) PROVE TypeOK'
  BY <1>12 DEF IInv, TypeOK, Table, Rows, Columns, tables, history, NoTable, RegisterMisled, NewIds, Free, NamesIn
<1>13. CASE LookupRuns
  BY <1>13 DEF IInv, TypeOK, Table, Rows, Columns, tables, history, NoTable, LookupRuns
<1> QED BY <1>1, <1>2, <1>3, <1>4, <1>5, <1>6, <1>7, <1>8, <1>9, <1>10, <1>11, <1>12, <1>13 DEF Next, Migrate

\* The rows of the tables
LEMMA TablesStep == IInv /\ Next => TablesOK'
<1> SUFFICES ASSUME IInv, Next PROVE TablesOK'
  OBVIOUS
<1>1. CASE Start
  BY <1>1 DEF IInv, TypeOK, Table, Rows, TablesOK, FirstRow, OneRowPerName, tables, history, NoTable, Start
<1>2. CASE CheckDBStructure
  BY <1>2 DEF IInv, TypeOK, Table, Rows, TablesOK, FirstRow, OneRowPerName, tables, history, NoTable, CheckDBStructure, CreateTable
<1>3. CASE CheckFails
  BY <1>3 DEF IInv, TypeOK, Table, Rows, TablesOK, FirstRow, OneRowPerName, tables, history, NoTable, CheckFails, CreateTable
<1>4. CASE AddColumn
  BY <1>4 DEF IInv, TypeOK, Table, Rows, TablesOK, FirstRow, OneRowPerName, tables, history, NoTable, AddColumn
<1>5. CASE RenameTable
  BY <1>5 DEF IInv, TypeOK, Table, Rows, TablesOK, FirstRow, OneRowPerName, tables, history, NoTable, RenameTable, Rename, NextToRename
<1>6. CASE RecreateTable
  BY <1>6 DEF IInv, TypeOK, Table, Rows, TablesOK, FirstRow, OneRowPerName, tables, history, NoTable, RecreateTable, CreateTable
<1>7. CASE CopyRows
  BY <1>7 DEF IInv, TypeOK, Table, Rows, TablesOK, FirstRow, OneRowPerName, tables, history, NoTable, CopyRows, Copy
<1>8. CASE DropTable
  BY <1>8 DEF IInv, TypeOK, Table, Rows, TablesOK, FirstRow, OneRowPerName, tables, history, NoTable, DropTable, DropOld
<1>9. CASE StatementFails
  BY <1>9 DEF IInv, TypeOK, Table, Rows, TablesOK, FirstRow, OneRowPerName, tables, history, NoTable, StatementFails, PutAtRisk, NamesIn
<1>10. CASE Stop
  BY <1>10 DEF IInv, TypeOK, Table, Rows, TablesOK, FirstRow, OneRowPerName, tables, history, NoTable, Stop, PutAtRisk, NamesIn
<1>11. ASSUME NEW name \in Names, Register(name) PROVE TablesOK'
  BY <1>11 DEF IInv, TypeOK, Table, Rows, TablesOK, FirstRow, OneRowPerName, tables, history, NoTable, Register, NewIds, Free, NamesIn
<1>12. ASSUME NEW name \in Names, RegisterMisled(name) PROVE TablesOK'
  BY <1>12 DEF IInv, TypeOK, Table, Rows, TablesOK, FirstRow, OneRowPerName, tables, history, NoTable, RegisterMisled, NewIds, Free, NamesIn
<1>13. CASE LookupRuns
  BY <1>13 DEF IInv, TypeOK, Table, Rows, TablesOK, FirstRow, OneRowPerName, tables, history, NoTable, LookupRuns
<1> QED BY <1>1, <1>2, <1>3, <1>4, <1>5, <1>6, <1>7, <1>8, <1>9, <1>10, <1>11, <1>12, <1>13 DEF Next, Migrate

\* The plan of a start
LEMMA PlanStep == IInv /\ Next => PlanOK'
<1> SUFFICES ASSUME IInv, Next PROVE PlanOK'
  OBVIOUS
<1>1. CASE Start
  BY <1>1 DEF IInv, TypeOK, Table, PlanOK, tables, history, NoTable, Start
<1>2. CASE CheckDBStructure
  BY <1>2 DEF IInv, TypeOK, Table, PlanOK, tables, history, NoTable, CheckDBStructure, CreateTable
<1>3. CASE CheckFails
  BY <1>3 DEF IInv, TypeOK, Table, PlanOK, tables, history, NoTable, CheckFails, CreateTable
<1>4. CASE AddColumn
  BY <1>4 DEF IInv, TypeOK, Table, PlanOK, tables, history, NoTable, AddColumn
<1>5. CASE RenameTable
  BY <1>5 DEF IInv, TypeOK, Table, PlanOK, tables, history, NoTable, RenameTable, Rename, NextToRename
<1>6. CASE RecreateTable
  BY <1>6 DEF IInv, TypeOK, Table, PlanOK, tables, history, NoTable, RecreateTable, CreateTable
<1>7. CASE CopyRows
  BY <1>7 DEF IInv, TypeOK, Table, PlanOK, tables, history, NoTable, CopyRows, Copy
<1>8. CASE DropTable
  BY <1>8 DEF IInv, TypeOK, Table, PlanOK, tables, history, NoTable, DropTable, DropOld
<1>9. CASE StatementFails
  BY <1>9 DEF IInv, TypeOK, Table, PlanOK, tables, history, NoTable, StatementFails, PutAtRisk, NamesIn
<1>10. CASE Stop
  BY <1>10 DEF IInv, TypeOK, Table, PlanOK, tables, history, NoTable, Stop, PutAtRisk, NamesIn
<1>11. ASSUME NEW name \in Names, Register(name) PROVE PlanOK'
  BY <1>11 DEF IInv, TypeOK, Table, PlanOK, tables, history, NoTable, Register, NewIds, Free, NamesIn
<1>12. ASSUME NEW name \in Names, RegisterMisled(name) PROVE PlanOK'
  BY <1>12 DEF IInv, TypeOK, Table, PlanOK, tables, history, NoTable, RegisterMisled, NewIds, Free, NamesIn
<1>13. CASE LookupRuns
  BY <1>13 DEF IInv, TypeOK, Table, PlanOK, tables, history, NoTable, LookupRuns
<1> QED BY <1>1, <1>2, <1>3, <1>4, <1>5, <1>6, <1>7, <1>8, <1>9, <1>10, <1>11, <1>12, <1>13 DEF Next, Migrate

\* The progress of undisturbed starts
LEMMA SettlingStep == IInv /\ Next => SettlingOK'
<1> SUFFICES ASSUME IInv, Next PROVE SettlingOK'
  OBVIOUS
<1>1. CASE Start
  BY <1>1 DEF IInv, TypeOK, Table, PlanOK, SettlingOK, Complete, Settled, HalfSettled, tables, history, NoTable, Start
<1>2. CASE CheckDBStructure
  BY <1>2 DEF IInv, TypeOK, Table, PlanOK, SettlingOK, Complete, Settled, HalfSettled, tables, history, NoTable, CheckDBStructure, CreateTable
<1>3. CASE CheckFails
  BY <1>3 DEF IInv, TypeOK, Table, PlanOK, SettlingOK, Complete, Settled, HalfSettled, tables, history, NoTable, CheckFails, CreateTable
<1>4. CASE AddColumn
  BY <1>4 DEF IInv, TypeOK, Table, PlanOK, SettlingOK, Complete, Settled, HalfSettled, tables, history, NoTable, AddColumn
<1>5. CASE RenameTable
  BY <1>5 DEF IInv, TypeOK, Table, PlanOK, SettlingOK, Complete, Settled, HalfSettled, tables, history, NoTable, RenameTable, Rename, NextToRename
<1>6. CASE RecreateTable
  BY <1>6 DEF IInv, TypeOK, Table, PlanOK, SettlingOK, Complete, Settled, HalfSettled, tables, history, NoTable, RecreateTable, CreateTable
<1>7. CASE CopyRows
  BY <1>7 DEF IInv, TypeOK, Table, PlanOK, SettlingOK, Complete, Settled, HalfSettled, tables, history, NoTable, CopyRows, Copy
<1>8. CASE DropTable
  BY <1>8 DEF IInv, TypeOK, Table, PlanOK, SettlingOK, Complete, Settled, HalfSettled, tables, history, NoTable, DropTable, DropOld
<1>9. CASE StatementFails
  BY <1>9 DEF IInv, TypeOK, Table, PlanOK, SettlingOK, Complete, Settled, HalfSettled, tables, history, NoTable, StatementFails, PutAtRisk, NamesIn
<1>10. CASE Stop
  BY <1>10 DEF IInv, TypeOK, Table, PlanOK, SettlingOK, Complete, Settled, HalfSettled, tables, history, NoTable, Stop, PutAtRisk, NamesIn
<1>11. ASSUME NEW name \in Names, Register(name) PROVE SettlingOK'
  BY <1>11 DEF IInv, TypeOK, Table, PlanOK, SettlingOK, Complete, Settled, HalfSettled, tables, history, NoTable, Register, NewIds, Free, NamesIn
<1>12. ASSUME NEW name \in Names, RegisterMisled(name) PROVE SettlingOK'
  BY <1>12 DEF IInv, TypeOK, Table, PlanOK, SettlingOK, Complete, Settled, HalfSettled, tables, history, NoTable, RegisterMisled, NewIds, Free, NamesIn
<1>13. CASE LookupRuns
  BY <1>13 DEF IInv, TypeOK, Table, PlanOK, SettlingOK, Complete, Settled, HalfSettled, tables, history, NoTable, LookupRuns
<1> QED BY <1>1, <1>2, <1>3, <1>4, <1>5, <1>6, <1>7, <1>8, <1>9, <1>10, <1>11, <1>12, <1>13 DEF Next, Migrate

\* The accounts
LEMMA KeptStep == IInv /\ Next => AllKept'
<1> SUFFICES ASSUME IInv, Next PROVE AllKept'
  OBVIOUS
<1>1. CASE Start
  BY <1>1 DEF IInv, TypeOK, Table, TablesOK, FirstRow, PlanOK, AllKept, Kept, Renamed, Complete, NamesIn, tables, history, NoTable, Start
<1>2. CASE CheckDBStructure
  BY <1>2 DEF IInv, TypeOK, Table, TablesOK, FirstRow, PlanOK, AllKept, Kept, Renamed, Complete, NamesIn, tables, history, NoTable, CheckDBStructure, CreateTable
<1>3. CASE CheckFails
  BY <1>3 DEF IInv, TypeOK, Table, TablesOK, FirstRow, PlanOK, AllKept, Kept, Renamed, Complete, NamesIn, tables, history, NoTable, CheckFails, CreateTable
<1>4. CASE AddColumn
  BY <1>4 DEF IInv, TypeOK, Table, TablesOK, FirstRow, PlanOK, AllKept, Kept, Renamed, Complete, NamesIn, tables, history, NoTable, AddColumn
<1>5. CASE RenameTable
  BY <1>5 DEF IInv, TypeOK, Table, TablesOK, FirstRow, PlanOK, AllKept, Kept, Renamed, Complete, NamesIn, tables, history, NoTable, RenameTable, Rename, NextToRename
<1>6. CASE RecreateTable
  BY <1>6 DEF IInv, TypeOK, Table, TablesOK, FirstRow, PlanOK, AllKept, Kept, Renamed, Complete, NamesIn, tables, history, NoTable, RecreateTable, CreateTable
<1>7. CASE CopyRows
  BY <1>7 DEF IInv, TypeOK, Table, TablesOK, FirstRow, PlanOK, AllKept, Kept, Renamed, Complete, NamesIn, tables, history, NoTable, CopyRows, Copy
<1>8. CASE DropTable
  BY <1>8 DEF IInv, TypeOK, Table, TablesOK, FirstRow, PlanOK, AllKept, Kept, Renamed, Complete, NamesIn, tables, history, NoTable, DropTable, DropOld
<1>9. CASE StatementFails
  BY <1>9 DEF IInv, TypeOK, Table, TablesOK, FirstRow, PlanOK, AllKept, Kept, Renamed, Complete, NamesIn, tables, history, NoTable, StatementFails, PutAtRisk, NamesIn
<1>10. CASE Stop
  BY <1>10 DEF IInv, TypeOK, Table, TablesOK, FirstRow, PlanOK, AllKept, Kept, Renamed, Complete, NamesIn, tables, history, NoTable, Stop, PutAtRisk, NamesIn
<1>11. ASSUME NEW name \in Names, Register(name) PROVE AllKept'
  BY <1>11 DEF IInv, TypeOK, Table, TablesOK, FirstRow, PlanOK, AllKept, Kept, Renamed, Complete, NamesIn, tables, history, NoTable, Register, NewIds, Free, NamesIn
<1>12. ASSUME NEW name \in Names, RegisterMisled(name) PROVE AllKept'
  BY <1>12 DEF IInv, TypeOK, Table, TablesOK, FirstRow, PlanOK, AllKept, Kept, Renamed, Complete, NamesIn, tables, history, NoTable, RegisterMisled, NewIds, Free, NamesIn
<1>13. CASE LookupRuns
  BY <1>13 DEF IInv, TypeOK, Table, TablesOK, FirstRow, PlanOK, AllKept, Kept, Renamed, Complete, NamesIn, tables, history, NoTable, LookupRuns
<1> QED BY <1>1, <1>2, <1>3, <1>4, <1>5, <1>6, <1>7, <1>8, <1>9, <1>10, <1>11, <1>12, <1>13 DEF Next, Migrate

\* The inductive invariant
THEOREM Invariance == Spec => []IInv
<1>1. Init => IInv
  <2> SUFFICES ASSUME Init PROVE IInv
    OBVIOUS
  <2>1. TypeOK
    <3>1. NoTable \in Table
      BY DEF NoTable, Table
    <3>2. calm \in 0 .. 2
      BY DEF Init
    <3> QED BY <3>1, <3>2 DEF Init, TypeOK
  <2>2. TablesOK /\ PlanOK /\ SettlingOK /\ AllKept
    BY DEF Init, NoTable, TablesOK, FirstRow, OneRowPerName, PlanOK, SettlingOK, AllKept
  <2> QED BY <2>1, <2>2 DEF IInv
<1>2. IInv /\ UNCHANGED vars => IInv'
  BY DEF IInv, vars, tables, history, TypeOK, TablesOK, FirstRow, OneRowPerName, PlanOK, SettlingOK,
         Complete, Settled, HalfSettled, AllKept, Kept, Renamed
<1>3. IInv /\ [Next]_vars => IInv'
  BY <1>2, TypeStep, TablesStep, PlanStep, SettlingStep, KeptStep DEF IInv
<1> QED BY <1>1, <1>3, PTL DEF Spec

-----------------------------------------------------------------------------
(* The properties of the run. *)

\* Every variable keeps its type
THEOREM TypeCorrect == Spec => []TypeOK
BY Invariance, PTL DEF IInv

\* Unless a failed lookup lets one register twice, or a login's name is run as
\* statements, no two rows have one username
THEOREM UsernamesAreUnique == Spec => []NamesUnique
<1>1. IInv => NamesUnique
  BY DEF IInv, TablesOK, OneRowPerName, NamesUnique
<1> QED BY <1>1, Invariance, PTL

\* An account outlives every start, but one that drops columns and is cut after
\* the renaming or has a statement fail, while no login's name is run as statements
THEOREM AccountsAreKept == Spec => []AccountsKept
<1>1. IInv => AccountsKept
  BY DEF IInv, AllKept, Kept, AccountsKept
<1> QED BY <1>1, Invariance, PTL

\* Two undisturbed starts of a version suffice for its structure
THEOREM TwoStartsSettle == Spec => []StructureSettles
<1>1. IInv => StructureSettles
  BY DEF IInv, SettlingOK, Settled, StructureSettles
<1> QED BY <1>1, Invariance, PTL

-----------------------------------------------------------------------------
(* The storage implements the accounts. *)

\* Where the rows are that are not at risk
LEMMA RowsKept ==
    ASSUME IInv, pc # "unknown", NEW r \in users.rows \cup old.rows, r.name \notin atRisk
    PROVE  r \in users.rows \/ (pc \in {"create", "copy"} /\ Renamed(r))
BY DEF IInv, AllKept, Kept

\* A step of a start leaves the accounts alone
LEMMA StartStutters ==
    ASSUME IInv,
           Start \/ CheckDBStructure \/ Migrate
    PROVE  SafeAccounts' = SafeAccounts /\ Unsafe' = Unsafe
<1> DEFINE Same == SafeAccounts' = SafeAccounts /\ Unsafe' = Unsafe
<1>1. CASE Start
  BY <1>1, RowsKept DEF IInv, TypeOK, Table, AllKept, Kept, Renamed, Complete, FirstRow, TablesOK, Stored, SafeAccounts, Unsafe, NamesIn, NoTable, tables, history, Start
<1>2. CASE CheckDBStructure
  BY <1>2, RowsKept DEF IInv, TypeOK, Table, AllKept, Kept, Renamed, Complete, FirstRow, TablesOK, Stored, SafeAccounts, Unsafe, NamesIn, NoTable, tables, history, CheckDBStructure, CreateTable
<1>3. CASE AddColumn
  BY <1>3, RowsKept DEF IInv, TypeOK, Table, AllKept, Kept, Renamed, Complete, FirstRow, TablesOK, Stored, SafeAccounts, Unsafe, NamesIn, NoTable, tables, history, AddColumn
<1>4. CASE RenameTable
  BY <1>4, RowsKept DEF IInv, TypeOK, Table, AllKept, Kept, Renamed, Complete, FirstRow, TablesOK, Stored, SafeAccounts, Unsafe, NamesIn, NoTable, tables, history, RenameTable, Rename, NextToRename
<1>5. CASE RecreateTable
  BY <1>5, RowsKept DEF IInv, TypeOK, Table, AllKept, Kept, Renamed, Complete, FirstRow, TablesOK, Stored, SafeAccounts, Unsafe, NamesIn, NoTable, tables, history, RecreateTable, CreateTable
<1>6. CASE CopyRows
  BY <1>6, RowsKept DEF IInv, TypeOK, Table, AllKept, Kept, Renamed, Complete, FirstRow, TablesOK, Stored, SafeAccounts, Unsafe, NamesIn, NoTable, tables, history, CopyRows, Copy
<1>7. CASE DropTable
  BY <1>7, RowsKept DEF IInv, TypeOK, Table, AllKept, Kept, Renamed, Complete, FirstRow, TablesOK, Stored, SafeAccounts, Unsafe, NamesIn, NoTable, tables, history, DropTable, DropOld
<1> QED BY <1>1, <1>2, <1>3, <1>4, <1>5, <1>6, <1>7 DEF Migrate

\* A stop or a failure gives up the names it puts at risk, a second
\* registration its name, and a lookup that runs statements all names
LEMMA FailureGivesUp ==
    ASSUME IInv,
           \/ CheckFails \/ StatementFails \/ LookupRuns \/ Stop
           \/ (\E name \in Names : RegisterMisled(name))
    PROVE  \E names \in SUBSET Names : AccountsService!GiveUp(names)
<1>1. ASSUME NEW names \in SUBSET Names, Unsafe' = Unsafe \cup names,
             SafeAccounts' = {r \in SafeAccounts : r.name \notin Unsafe'}
      PROVE  \E n \in SUBSET Names : AccountsService!GiveUp(n)
  BY <1>1 DEF AccountsService!GiveUp
<1>2. CASE CheckFails
  <2>1. Unsafe' = Unsafe /\ SafeAccounts' = SafeAccounts
    BY <1>2, RowsKept DEF IInv, TypeOK, Table, AllKept, Kept, Renamed, Complete, FirstRow, TablesOK, Stored, SafeAccounts, Unsafe, NamesIn, NoTable, tables, history, CheckFails, CreateTable
  <2>2. SafeAccounts' = {r \in SafeAccounts : r.name \notin Unsafe'}
    BY <2>1 DEF SafeAccounts
  <2>3. Unsafe' = Unsafe \cup {} /\ {} \in SUBSET Names
    BY <2>1
  <2> QED BY <1>1, <2>2, <2>3
<1>3. CASE StatementFails
  <2>1. PICK names \in SUBSET Names : atRisk' = atRisk \cup names
    BY <1>3 DEF IInv, TypeOK, Table, Rows, NamesIn, StatementFails, PutAtRisk
  <2>2. Unsafe' = Unsafe \cup names
    BY <1>3, <2>1 DEF StatementFails, Unsafe
  <2>3. SafeAccounts' = {r \in SafeAccounts : r.name \notin Unsafe'}
    BY <1>3, RowsKept DEF IInv, TypeOK, Table, AllKept, Kept, Renamed, Complete, FirstRow, TablesOK, Stored, SafeAccounts, Unsafe, NamesIn, NoTable, tables, history, StatementFails, PutAtRisk
  <2> QED BY <1>1, <2>2, <2>3
<1>4. CASE Stop
  <2>1. PICK names \in SUBSET Names : atRisk' = atRisk \cup names
    BY <1>4 DEF IInv, TypeOK, Table, Rows, NamesIn, Stop, PutAtRisk
  <2>2. Unsafe' = Unsafe \cup names
    BY <1>4, <2>1 DEF Stop, Unsafe
  <2>3. SafeAccounts' = {r \in SafeAccounts : r.name \notin Unsafe'}
    BY <1>4, RowsKept DEF IInv, TypeOK, Table, AllKept, Kept, Renamed, Complete, FirstRow, TablesOK, Stored, SafeAccounts, Unsafe, NamesIn, NoTable, tables, history, Stop, PutAtRisk
  <2> QED BY <1>1, <2>2, <2>3
<1>5. ASSUME NEW name \in Names, RegisterMisled(name)
      PROVE  \E names \in SUBSET Names : AccountsService!GiveUp(names)
  <2>1. Unsafe' = Unsafe \cup {name}
    BY <1>5 DEF RegisterMisled, Unsafe
  <2>2. SafeAccounts' = {r \in SafeAccounts : r.name \notin Unsafe'}
    BY <1>5 DEF IInv, TypeOK, Table, AllKept, Kept, Renamed, Complete, FirstRow, TablesOK, Stored, SafeAccounts, Unsafe, NamesIn, NoTable, tables, history, RegisterMisled
  <2> QED BY <1>1, <2>1, <2>2
<1>6. CASE LookupRuns
  <2>1. Unsafe' = Unsafe \cup Names
    BY <1>6 DEF LookupRuns, Unsafe, history, IInv, TypeOK
  <2>2. SafeAccounts' = {r \in SafeAccounts : r.name \notin Unsafe'}
    BY <1>6, TypeStep DEF Next, IInv, TypeOK, Table, Rows, SafeAccounts, Stored, Unsafe, LookupRuns
  <2> QED BY <1>1, <2>1, <2>2
<1> QED BY <1>2, <1>3, <1>4, <1>5, <1>6

\* A registration adds an account, unless its name has been given up
LEMMA RegisterStores ==
    ASSUME IInv, NEW name \in Names, Register(name)
    PROVE  \/ \E id \in 1 .. MaxId : AccountsService!StoreUser(name, id)
           \/ SafeAccounts' = SafeAccounts /\ Unsafe' = Unsafe
<1>1. PICK id \in NewIds : users' = [users EXCEPT !.rows = @ \cup {[id |-> id, name |-> name]}]
  BY DEF Register
<1>2. /\ Unsafe' = Unsafe /\ pc = "serve" /\ pc' = "serve"
      /\ users'.rows = users.rows \cup {[id |-> id, name |-> name]}
  BY <1>1 DEF Register, Unsafe, IInv, TypeOK, Table
<1>3. CASE name \in Unsafe
  BY <1>2, <1>3 DEF SafeAccounts, Stored
<1>4. CASE name \notin Unsafe
  <2>1. SafeAccounts' = SafeAccounts \cup {[id |-> id, name |-> name]}
    BY <1>2, <1>4 DEF SafeAccounts, Stored
  <2>2. \A r \in users.rows : r.name # name /\ r.id # id
    BY <1>1 DEF Register, Free, NamesIn, NewIds, IInv, TypeOK, Table, Rows
  <2>3. \A r \in SafeAccounts : r.name # name /\ r.id # id
    BY <1>2, <2>2 DEF SafeAccounts, Stored
  <2>4. AccountsService!StoreUser(name, id)
    BY <1>2, <1>4, <2>1, <2>3 DEF AccountsService!StoreUser
  <2> QED BY <2>4, <1>1 DEF NewIds
<1> QED BY <1>3, <1>4

\* Storage implements Accounts: whatever the starts of the server do to the
\* tables, registration adds accounts and nothing removes one, but that names
\* are given up
THEOREM StorageImplementsAccounts == Spec => ImplementsAccounts
<1>1. Init => AccountsService!Init
  BY DEF Init, AccountsService!Init, SafeAccounts, Stored, Unsafe, NoTable
<1>2. IInv /\ [Next]_vars => [AccountsService!Next]_<<SafeAccounts, Unsafe>>
  <2> SUFFICES ASSUME IInv, [Next]_vars
               PROVE  AccountsService!Next \/ (SafeAccounts' = SafeAccounts /\ Unsafe' = Unsafe)
    OBVIOUS
  <2>1. CASE UNCHANGED vars
    BY <2>1 DEF vars, tables, history, SafeAccounts, Stored, Unsafe
  <2>2. CASE Start \/ CheckDBStructure \/ Migrate
    BY <2>2, StartStutters
  <2>3. CASE CheckFails \/ StatementFails \/ LookupRuns \/ Stop \/ (\E name \in Names : RegisterMisled(name))
    BY <2>3, FailureGivesUp DEF AccountsService!Next
  <2>4. CASE \E name \in Names : Register(name)
    BY <2>4, RegisterStores DEF AccountsService!Next
  <2> QED BY <2>1, <2>2, <2>3, <2>4 DEF Next
<1> QED BY <1>1, <1>2, Invariance, PTL DEF Spec, ImplementsAccounts, AccountsService!Spec, AccountsService!vars

=============================================================================
