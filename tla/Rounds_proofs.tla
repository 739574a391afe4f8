--------------------------- MODULE Rounds_proofs ----------------------------
(***************************************************************************)
(* Proofs about Rounds for every set of players, capacity, width of the    *)
(* clock and shutdown time, and for any settings of the clock: rooms end   *)
(* only after they have been empty, if the clock was left alone, and       *)
(* a walk updates whoever stays, whatever is added and erased meanwhile.   *)
(***************************************************************************)
EXTENDS Rounds, SequenceTheorems, TLAPS

-----------------------------------------------------------------------------
(* The inductive invariant. *)

\* The list holds nobody twice
Distinct(s) == \A i, j \in 1 .. Len(s) : s[i] = s[j] => i = j

ListOK == playerList \in Seq(Players) /\ Distinct(playerList)

\* The clock is as old as the time that passed, or that less a wrap, if it has
\* not been set
ClockOK ==
    \/ updateSet
    \/ clock = lastUpdate + updateAge
    \/ clock = lastUpdate + updateAge - Wrap

\* What the thread takes for the time the room has been empty is no longer, if
\* the clock has not been set
EmptyOK ==
    /\ isDefault => emptyState = 0
    /\ emptyState # 0 => emptySet \/ emptyFor = Shutdown \/ Diff(emptyState, clock) <= emptyFor
    /\ EndsAfterEmptiness

\* Once a room counts as empty, those in it have joined since the last look
NewOK ==
    /\ emptyState # 0 /\ ~isDefault /\ step # "reset" => Members \subseteq newcomers
    /\ step = "ended" => emptyState # 0 /\ ~isDefault

Walking == step \in {"update", "advance"}

\* The walk is at player p, and has updated who is before p
UpdatedBefore(p) ==
    /\ p \in Members
    /\ \A q \in stayers : visits[q] = IF Place(q) < Place(p) THEN 1 ELSE 0

UpdatedUpTo(p) ==
    /\ p \in Members
    /\ \A q \in stayers : visits[q] = IF Place(q) <= Place(p) THEN 1 ELSE 0

AllUpdated == \A q \in stayers : visits[q] = 1

WalkOK ==
    /\ Walking => at # End /\ stayers \subseteq Members
    /\ step = "update" /\ at \in Players => UpdatedBefore(at)
    /\ step = "advance" /\ at \in Players => UpdatedUpTo(at)
    /\ Walking /\ at = Freed /\ after \in Players => UpdatedBefore(after)
    /\ Walking /\ at = Freed /\ after = End => AllUpdated
    /\ step = "stamp" => AllUpdated

IInv == TypeOK /\ ListOK /\ ClockOK /\ EmptyOK /\ NewOK /\ WalkOK

-----------------------------------------------------------------------------
(* Sequences. *)

\* What is left of a sequence when the element at i is taken out: the rest, in
\* its order.
LEMMA RemoveAtFacts ==
    ASSUME NEW S, NEW s \in Seq(S), NEW i \in 1 .. Len(s)
    PROVE  /\ RemoveAt(s, i) \in Seq(S)
           /\ Len(RemoveAt(s, i)) = Len(s) - 1
           /\ \A j \in 1 .. Len(s) - 1 : RemoveAt(s, i)[j] = IF j < i THEN s[j] ELSE s[j + 1]
<1> DEFINE l == SubSeq(s, 1, i - 1)
           r == SubSeq(s, i + 1, Len(s))
<1>1. l \in Seq(S) /\ Len(l) = i - 1
  OBVIOUS
<1>2. r \in Seq(S) /\ Len(r) = Len(s) - i
  OBVIOUS
<1>3. ASSUME NEW j \in 1 .. i - 1 PROVE l[j] = s[j]
  OBVIOUS
<1>4. ASSUME NEW j \in 1 .. Len(s) - i PROVE r[j] = s[j + i]
  OBVIOUS
<1>5. RemoveAt(s, i) = l \o r
  BY DEF RemoveAt
<1> HIDE DEF l, r
<1>6. /\ l \o r \in Seq(S)
      /\ Len(l \o r) = Len(l) + Len(r)
      /\ \A j \in 1 .. Len(l) + Len(r) : (l \o r)[j] = IF j <= Len(l) THEN l[j] ELSE r[j - Len(l)]
  BY <1>1, <1>2, ConcatProperties
<1>7. Len(l) + Len(r) = Len(s) - 1
  BY <1>1, <1>2
<1>8. ASSUME NEW j \in 1 .. Len(s) - 1, j < i PROVE (l \o r)[j] = s[j]
  <2>1. j \in 1 .. i - 1 /\ j <= Len(l) /\ j \in 1 .. Len(l) + Len(r)
    BY <1>1, <1>7, <1>8
  <2> QED BY <2>1, <1>3, <1>6
<1>9. ASSUME NEW j \in 1 .. Len(s) - 1, ~(j < i) PROVE (l \o r)[j] = s[j + 1]
  <2>1. /\ j - Len(l) \in 1 .. Len(s) - i
        /\ (j - Len(l)) + i = j + 1
        /\ j \in 1 .. Len(l) + Len(r) /\ ~(j <= Len(l))
    BY <1>1, <1>7, <1>9
  <2>2. r[j - Len(l)] = s[(j - Len(l)) + i]
    BY <2>1, <1>4
  <2> QED BY <2>1, <2>2, <1>6
<1> QED BY <1>5, <1>6, <1>7, <1>8, <1>9

\* The place of p in s
PlaceIn(s, p) == CHOOSE i \in DOMAIN s : s[i] = p

\* Each member of a list without repetitions is at its place, and nobody else is.
LEMMA PlaceFacts ==
    ASSUME NEW S, NEW s \in Seq(S), Distinct(s)
    PROVE  /\ \A p \in ToSet(s) : PlaceIn(s, p) \in 1 .. Len(s) /\ s[PlaceIn(s, p)] = p
           /\ \A i \in 1 .. Len(s) : s[i] \in ToSet(s) /\ PlaceIn(s, s[i]) = i
<1>1. DOMAIN s = 1 .. Len(s)
  OBVIOUS
<1>2. ASSUME NEW p \in ToSet(s) PROVE PlaceIn(s, p) \in 1 .. Len(s) /\ s[PlaceIn(s, p)] = p
  BY <1>1, <1>2 DEF ToSet, PlaceIn
<1>3. ASSUME NEW i \in 1 .. Len(s) PROVE s[i] \in ToSet(s) /\ PlaceIn(s, s[i]) = i
  <2>1. s[i] \in ToSet(s)
    BY <1>1 DEF ToSet
  <2>2. PlaceIn(s, s[i]) \in 1 .. Len(s) /\ s[PlaceIn(s, s[i])] = s[i]
    BY <2>1, <1>2
  <2> QED BY <2>1, <2>2 DEF Distinct
<1> QED BY <1>2, <1>3

\* AddPlayer puts the player behind the others, whose places stay.
LEMMA AppendFacts ==
    ASSUME NEW S, NEW s \in Seq(S), Distinct(s), NEW p \in S, p \notin ToSet(s)
    PROVE  LET t == Append(s, p) IN
           /\ t \in Seq(S) /\ Len(t) = Len(s) + 1 /\ Distinct(t)
           /\ ToSet(t) = ToSet(s) \cup {p}
           /\ \A q \in ToSet(s) : PlaceIn(t, q) = PlaceIn(s, q)
<1> DEFINE t == Append(s, p)
<1>1. /\ t \in Seq(S) /\ Len(t) = Len(s) + 1
      /\ \A i \in 1 .. Len(s) : t[i] = s[i]
      /\ t[Len(s) + 1] = p
  OBVIOUS
<1> HIDE DEF t
<1>2. Len(s) \in Nat /\ DOMAIN s = 1 .. Len(s) /\ DOMAIN t = 1 .. Len(s) + 1
  BY <1>1
<1>3. \A i \in 1 .. Len(s) : s[i] # p
  BY <1>2 DEF ToSet
<1>4. ASSUME NEW i \in 1 .. Len(t), NEW j \in 1 .. Len(t), t[i] = t[j] PROVE i = j
  <2>1. i = Len(s) + 1 \/ i \in 1 .. Len(s)
    BY <1>1, <1>2
  <2>2. j = Len(s) + 1 \/ j \in 1 .. Len(s)
    BY <1>1, <1>2
  <2> QED BY <2>1, <2>2, <1>1, <1>3, <1>4 DEF Distinct
<1>5. Distinct(t)
  BY <1>4 DEF Distinct
<1>6. ToSet(t) = ToSet(s) \cup {p}
  <2>1. ASSUME NEW i \in 1 .. Len(s) + 1 PROVE t[i] \in ToSet(s) \cup {p}
    <3>1. i = Len(s) + 1 \/ i \in 1 .. Len(s)
      BY <1>2
    <3> QED BY <3>1, <1>1, <1>2 DEF ToSet
  <2>2. \A i \in 1 .. Len(s) : i \in DOMAIN t /\ t[i] = s[i]
    BY <1>1, <1>2
  <2>3. Len(s) + 1 \in DOMAIN t /\ t[Len(s) + 1] = p
    BY <1>1, <1>2
  <2> QED BY <2>1, <2>2, <2>3, <1>2 DEF ToSet
<1>7. ASSUME NEW q \in ToSet(s) PROVE PlaceIn(t, q) = PlaceIn(s, q)
  <2>1. PICK i \in 1 .. Len(s) : s[i] = q
    BY <1>2 DEF ToSet
  <2>2. t[i] = q /\ i \in 1 .. Len(t)
    BY <2>1, <1>1, <1>2
  <2>3. PlaceIn(s, q) = i
    BY <2>1, PlaceFacts
  <2>4. PlaceIn(t, q) = i
    BY <2>2, <1>1, <1>5, PlaceFacts
  <2> QED BY <2>3, <2>4
<1> QED BY <1>1, <1>5, <1>6, <1>7 DEF t

\* RemovePlayer takes the player out, and leaves the order of the others.
LEMMA RemoveFacts ==
    ASSUME NEW S, NEW s \in Seq(S), Distinct(s), NEW p \in ToSet(s)
    PROVE  LET t == RemoveAt(s, PlaceIn(s, p)) IN
           /\ t \in Seq(S) /\ Len(t) = Len(s) - 1 /\ Distinct(t)
           /\ ToSet(t) = ToSet(s) \ {p}
           /\ \A q \in ToSet(s) \ {p} :
                 PlaceIn(t, q) = IF PlaceIn(s, q) < PlaceIn(s, p) THEN PlaceIn(s, q)
                                 ELSE PlaceIn(s, q) - 1
<1>1. PICK k \in 1 .. Len(s) : k = PlaceIn(s, p) /\ s[k] = p
  BY PlaceFacts
<1> DEFINE t == RemoveAt(s, k)
<1>2. /\ t \in Seq(S) /\ Len(t) = Len(s) - 1
      /\ \A j \in 1 .. Len(s) - 1 : t[j] = IF j < k THEN s[j] ELSE s[j + 1]
  BY RemoveAtFacts
<1> HIDE DEF t
<1>3. Len(s) \in Nat /\ DOMAIN s = 1 .. Len(s) /\ DOMAIN t = 1 .. Len(s) - 1
  BY <1>2
<1> DEFINE Old(j) == IF j < k THEN j ELSE j + 1
<1>4. ASSUME NEW j \in 1 .. Len(s) - 1
      PROVE  Old(j) \in 1 .. Len(s) /\ Old(j) # k /\ t[j] = s[Old(j)]
  BY <1>2, <1>3
<1>5. Distinct(t)
  <2> SUFFICES ASSUME NEW i \in 1 .. Len(s) - 1, NEW j \in 1 .. Len(s) - 1, t[i] = t[j] PROVE i = j
    BY <1>2 DEF Distinct
  <2>1. Old(i) = Old(j)
    <3> HIDE DEF Old
    <3> QED BY <1>4 DEF Distinct
  <2> QED BY <2>1
<1>6. ASSUME NEW q \in ToSet(s), q # p
      PROVE  /\ q \in ToSet(t)
             /\ PlaceIn(t, q) = IF PlaceIn(s, q) < k THEN PlaceIn(s, q) ELSE PlaceIn(s, q) - 1
  <2>1. PICK i \in 1 .. Len(s) : s[i] = q /\ PlaceIn(s, q) = i
    BY PlaceFacts
  <2>2. i # k
    BY <2>1, <1>1, <1>6
  <2>3. PICK j \in 1 .. Len(s) - 1 : Old(j) = i /\ j = IF i < k THEN i ELSE i - 1
    <3>1. CASE i < k
      BY <3>1, <1>3
    <3>2. CASE i > k
      BY <3>2, <1>3
    <3> QED BY <3>1, <3>2, <2>2
  <2>4. t[j] = q
    <3> HIDE DEF Old
    <3> QED BY <2>1, <2>3, <1>4
  <2>5. PlaceIn(t, q) = j /\ q \in ToSet(t)
    BY <2>4, <1>2, <1>5, PlaceFacts
  <2> QED BY <2>1, <2>3, <2>5
<1>7. ASSUME NEW q \in ToSet(t) PROVE q \in ToSet(s) /\ q # p
  <2>1. PICK j \in 1 .. Len(s) - 1 : t[j] = q
    BY <1>3 DEF ToSet
  <2>2. PICK i \in 1 .. Len(s) : i # k /\ s[i] = q
    <3> HIDE DEF Old
    <3> QED BY <2>1, <1>4
  <2> QED BY <2>2, <1>1, <1>3 DEF ToSet, Distinct
<1>8. ToSet(t) = ToSet(s) \ {p}
  BY <1>6, <1>7
<1> QED BY <1>1, <1>2, <1>5, <1>6, <1>8 DEF t

-----------------------------------------------------------------------------
(* The list of the room. *)

\* The members of the list are the players at its places.
LEMMA MembersFacts ==
    ASSUME ListOK
    PROVE  /\ Members \subseteq Players
           /\ \A p \in Members : Place(p) \in 1 .. Len(playerList) /\ playerList[Place(p)] = p
           /\ \A i \in 1 .. Len(playerList) :
                 playerList[i] \in Members /\ Place(playerList[i]) = i
           /\ \A p, q \in Members : Place(p) = Place(q) => p = q
           /\ Len(playerList) \in Nat
           /\ playerList = <<>> <=> Len(playerList) = 0
           /\ playerList = <<>> <=> Members = {}
<1>1. \A p : Place(p) = PlaceIn(playerList, p)
  BY DEF Place, PlaceIn
<1>2. Members = ToSet(playerList)
  BY DEF Members
<1>3. /\ \A p \in Members : Place(p) \in 1 .. Len(playerList) /\ playerList[Place(p)] = p
      /\ \A i \in 1 .. Len(playerList) :
            playerList[i] \in Members /\ Place(playerList[i]) = i
  BY <1>1, <1>2, PlaceFacts DEF ListOK
<1>4. DOMAIN playerList = 1 .. Len(playerList) /\ Len(playerList) \in Nat
  BY DEF ListOK
<1>5. Members \subseteq Players
  BY <1>2, <1>4 DEF ListOK, ToSet
<1>6. playerList = <<>> <=> Len(playerList) = 0
  BY DEF ListOK
<1>7. playerList = <<>> <=> Members = {}
  <2>1. ASSUME Len(playerList) # 0 PROVE Members # {}
    BY <2>1, <1>3, <1>4
  <2>2. ASSUME Len(playerList) = 0 PROVE Members = {}
    BY <2>2, <1>3
  <2> QED BY <2>1, <2>2, <1>6
<1> QED BY <1>3, <1>4, <1>5, <1>6, <1>7

\* AddPlayer puts one player last.
LEMMA AddFacts ==
    ASSUME ListOK, TypeOK, NEW p \in Players, AddPlayer(p)
    PROVE  /\ ListOK' /\ Members' = Members \cup {p} /\ Len(playerList') = Len(playerList) + 1
           /\ \A q \in Members : Place(q)' = Place(q)
<1>1. p \notin ToSet(playerList) /\ playerList' = Append(playerList, p)
  BY DEF AddPlayer, Members
<1>2. \A q : Place(q) = PlaceIn(playerList, q) /\ Place(q)' = PlaceIn(playerList', q)
  BY DEF Place, PlaceIn
<1> QED BY <1>1, <1>2, AppendFacts DEF ListOK, Members

\* RemovePlayer takes one player out and leaves the order of the others.
LEMMA TakeFacts ==
    ASSUME ListOK, TypeOK, NEW p \in Players, RemovePlayer(p)
    PROVE  /\ ListOK' /\ Members' = Members \ {p} /\ Len(playerList') = Len(playerList) - 1
           /\ p \in Members
           /\ \A q \in Members \ {p} :
                 Place(q)' = IF Place(q) < Place(p) THEN Place(q) ELSE Place(q) - 1
<1>1. p \in ToSet(playerList) /\ playerList' = RemoveAt(playerList, PlaceIn(playerList, p))
  BY DEF RemovePlayer, Members, Place, PlaceIn
<1>2. \A q : Place(q) = PlaceIn(playerList, q) /\ Place(q)' = PlaceIn(playerList', q)
  BY DEF Place, PlaceIn
<1> QED BY <1>1, <1>2, RemoveFacts DEF ListOK, Members

\* The node after that of p is the next in the list.
LEMMA NextFacts ==
    ASSUME ListOK, NEW p \in Members
    PROVE  \/ NextNode(p) = End /\ Place(p) = Len(playerList)
           \/ NextNode(p) \in Members /\ Place(NextNode(p)) = Place(p) + 1
<1>1. Place(p) \in 1 .. Len(playerList) /\ Len(playerList) \in Nat
  BY MembersFacts
<1>2. CASE Place(p) = Len(playerList)
  BY <1>2 DEF NextNode
<1>3. CASE Place(p) # Len(playerList)
  <2>1. NextNode(p) = playerList[Place(p) + 1] /\ Place(p) + 1 \in 1 .. Len(playerList)
    BY <1>1, <1>3 DEF NextNode
  <2> QED BY <2>1, MembersFacts
<1> QED BY <1>2, <1>3

-----------------------------------------------------------------------------
(* Each part of the invariant is preserved. *)

\* Every step keeps the types, and the list free of repetitions.
LEMMA TypeStep == ASSUME IInv, Next PROVE TypeOK' /\ ListOK'
<1> USE DEF IInv
<1>1. Members \subseteq Players /\ Len(playerList) \in Nat
  BY MembersFacts
<1>2. ASSUME Tick PROVE TypeOK' /\ ListOK'
  <2>1. clock' \in Time
    BY <1>2, TimesAssumption DEF Tick, TypeOK, Time
  <2>2. updateAge' \in 0 .. MaxRound /\ emptyFor' \in 0 .. Shutdown
    BY <1>2, TimesAssumption DEF Tick, TypeOK
  <2> QED BY <2>1, <2>2, <1>2 DEF Tick, TypeOK, ListOK, Members, walk, set
<1>3. ASSUME CheckEmpty PROVE TypeOK' /\ ListOK'
  BY <1>3 DEF CheckEmpty, TypeOK, ListOK, Members, clocks, walk, ages, set
<1>4. ASSUME LookForPlayers PROVE TypeOK' /\ ListOK'
  BY <1>4 DEF LookForPlayers, TypeOK, ListOK, Members, walk
<1>5. ASSUME ResetEmpty PROVE TypeOK' /\ ListOK'
  <2>1. emptyState' \in Time /\ emptyFor' \in 0 .. Shutdown
    BY <1>5, TimesAssumption DEF ResetEmpty, TypeOK, Time
  <2> QED BY <2>1, <1>5 DEF ResetEmpty, TypeOK, ListOK, Members, walk, set
<1>6. ASSUME ComputeDelay PROVE TypeOK' /\ ListOK'
  <2>1. delay' \in Time
    BY <1>6, TimesAssumption DEF ComputeDelay, TypeOK, Time, Diff
  <2> QED BY <2>1, <1>6 DEF ComputeDelay, TypeOK, ListOK, Members, walk, ages, set
<1>7. ASSUME BeginWalk PROVE TypeOK' /\ ListOK'
  <2>1. at' \in Players \cup {End}
    BY <1>7 DEF BeginWalk, ListOK
  <2>2. visits' \in [Players -> 0 .. 2]
    BY <1>7 DEF BeginWalk
  <2>3. step' \in {"update", "stamp"}
    BY <1>7 DEF BeginWalk
  <2> QED BY <2>1, <2>2, <2>3, <1>1, <1>7 DEF BeginWalk, TypeOK, ListOK, Members, clocks, ages, set
<1>8. ASSUME UpdatePlayer PROVE TypeOK' /\ ListOK'
  <2>1. visits' \in [Players -> 0 .. 2]
    <3>1. CASE at = Freed
      BY <3>1, <1>8 DEF UpdatePlayer, TypeOK
    <3>2. CASE at # Freed
      <4>1. at \in Players
        BY <1>8, <3>2 DEF UpdatePlayer, TypeOK, WalkOK, Walking
      <4>2. visits[at] \in 0 .. 2
        BY <4>1 DEF TypeOK
      <4>3. (IF visits[at] < 2 THEN visits[at] + 1 ELSE 2) \in 0 .. 2
        BY <4>2
      <4> QED BY <4>1, <4>3, <3>2, <1>8 DEF UpdatePlayer, TypeOK
    <3> QED BY <3>1, <3>2
  <2> QED BY <2>1, <1>8 DEF UpdatePlayer, TypeOK, ListOK, Members, clocks, ages, set
<1>9. ASSUME Advance PROVE TypeOK' /\ ListOK'
  <2>1. at' \in Players \cup {End, Freed}
    <3>1. CASE at = Freed
      BY <3>1, <1>9 DEF Advance, TypeOK
    <3>2. CASE at # Freed
      <4>1. at \in Members
        BY <1>9, <3>2 DEF Advance, TypeOK, WalkOK, Walking, UpdatedUpTo
      <4> QED BY <4>1, <3>2, <1>1, <1>9, NextFacts DEF Advance
    <3> QED BY <3>1, <3>2
  <2>2. step' \in {"update", "stamp"}
    BY <1>9 DEF Advance
  <2> QED BY <2>1, <2>2, <1>9 DEF Advance, TypeOK, ListOK, Members, clocks, ages, set
<1>10. ASSUME UseReused PROVE TypeOK' /\ ListOK'
  BY <1>10 DEF UseReused, TypeOK, ListOK, Members, clocks, walk, ages, set
<1>11. ASSUME StampUpdate PROVE TypeOK' /\ ListOK'
  <2>1. visits' \in [Players -> 0 .. 2]
    BY <1>11 DEF StampUpdate
  <2>2. delay' \in Time /\ updateAge' \in 0 .. MaxRound
    BY <1>11, TimesAssumption DEF StampUpdate, Time
  <2> QED BY <2>1, <2>2, <1>11 DEF StampUpdate, TypeOK, ListOK, Members
<1>12. ASSUME NEW p \in Players, AddPlayer(p) PROVE TypeOK' /\ ListOK'
  <2>1. ListOK' /\ Members' \subseteq Players
    BY <1>12, <1>1, AddFacts
  <2>2. Len(playerList)' <= Capacity
    BY <1>12, <1>1, AddFacts, TimesAssumption DEF AddPlayer, HasRoom
  <2> QED BY <2>1, <2>2, <1>12 DEF AddPlayer, TypeOK, clocks, walk, ages, set
<1>13. ASSUME NEW p \in Players, RemovePlayer(p) PROVE TypeOK' /\ ListOK'
  <2>1. ListOK' /\ Members' \subseteq Players
    BY <1>13, <1>1, TakeFacts
  <2>2. Len(playerList)' <= Capacity
    BY <1>13, <1>1, TakeFacts, TimesAssumption DEF TypeOK
  <2>3. at' \in Players \cup {End, Freed} /\ after' \in Players \cup {End, Freed}
    <3>1. NextNode(p) \in Players \cup {End}
      BY <1>13, <1>1, TakeFacts, NextFacts
    <3> QED BY <3>1, <1>13 DEF RemovePlayer, TypeOK
  <2> QED BY <2>1, <2>2, <2>3, <1>13 DEF RemovePlayer, TypeOK, clocks, ages, set
<1>14. ASSUME SetClock PROVE TypeOK' /\ ListOK'
  <2>1. settings' \in 0 .. MaxSettings /\ clock' \in Time
    BY <1>14, TimesAssumption DEF SetClock, TypeOK
  <2> QED BY <2>1, <1>14 DEF SetClock, TypeOK, ListOK, Members, walk
<1> QED BY <1>2, <1>3, <1>4, <1>5, <1>6, <1>7, <1>8, <1>9, <1>10, <1>11, <1>12, <1>13, <1>14
        DEF Next, RoomThread, NetworkThread

\* The clock counts up to its width.
LEMMA NextMillisecond ==
    ASSUME NEW c \in Time
    PROVE  \/ (c + 1) % Wrap = c + 1 /\ c + 1 < Wrap
           \/ c = Wrap - 1 /\ (c + 1) % Wrap = 0
<1>1. Wrap \in Nat /\ Wrap > 0 /\ c \in 0 .. Wrap - 1
  BY TimesAssumption DEF Time
<1>2. CASE c + 1 < Wrap
  BY <1>1, <1>2
<1>3. CASE c = Wrap - 1
  <2>1. c + 1 = Wrap
    BY <1>1, <1>3
  <2>2. Wrap % Wrap = 0
    BY <1>1
  <2> QED BY <2>1, <2>2, <1>3
<1> QED BY <1>1, <1>2, <1>3

\* The clock and the time since the last round keep step.
LEMMA ClockStep == ASSUME IInv, Next PROVE ClockOK'
<1> USE TimesAssumption DEF IInv
<1>1. clock \in Time /\ lastUpdate \in Time /\ updateAge \in 0 .. MaxRound
  BY DEF TypeOK
<1>2. ASSUME Tick PROVE ClockOK'
  <2>1. (clock' = clock + 1 /\ clock + 1 < Wrap) \/ (clock = Wrap - 1 /\ clock' = 0)
    BY <1>1, <1>2, NextMillisecond DEF Tick
  <2>2. updateAge' = updateAge + 1 /\ lastUpdate' = lastUpdate /\ updateSet' = updateSet
    BY <1>2 DEF Tick, set
  <2> QED BY <1>1, <2>1, <2>2 DEF ClockOK, Time
<1>3. ASSUME StampUpdate PROVE ClockOK'
  BY <1>1, <1>3 DEF StampUpdate, ClockOK, Time
<1>4. ASSUME SetClock PROVE ClockOK'
  BY <1>4 DEF SetClock, ClockOK
<1>5. ASSUME UNCHANGED <<clock, lastUpdate, updateAge, updateSet>> PROVE ClockOK'
  BY <1>5 DEF ClockOK
<1> QED BY <1>2, <1>3, <1>4, <1>5
        DEF Next, RoomThread, NetworkThread, CheckEmpty, LookForPlayers, ResetEmpty, ComputeDelay,
            BeginWalk, UpdatePlayer, Advance, UseReused, AddPlayer, RemovePlayer, clocks, ages, set

\* The time a room counts as empty is never longer than it has been empty.
LEMMA EmptyStep == ASSUME IInv, Next PROVE EmptyOK'
<1> USE DEF IInv
<1>1. clock \in Time /\ emptyState \in Time /\ emptyFor \in 0 .. Shutdown
  BY DEF TypeOK
<1>2. Wrap \in Nat /\ Shutdown \in Nat \ {0}
  BY TimesAssumption
<1>3. ASSUME Tick PROVE EmptyOK'
  <2>1. (clock' = clock + 1 /\ clock + 1 < Wrap) \/ (clock = Wrap - 1 /\ clock' = 0)
    BY <1>1, <1>3, NextMillisecond DEF Tick
  <2>2. emptyState' = emptyState /\ step' = step /\ isDefault' = isDefault /\ step # "ended"
        /\ emptySet' = emptySet
    BY <1>3 DEF Tick, set
  <2>3. emptyFor' = IF emptyFor < Shutdown THEN emptyFor + 1 ELSE emptyFor
    BY <1>3 DEF Tick
  <2>4. emptyState # 0 => Diff(emptyState, clock') <= Diff(emptyState, clock) + 1
    BY <1>1, <1>2, <2>1 DEF Diff, Time
  <2>5. Diff(emptyState, clock) \in Int /\ Diff(emptyState, clock') \in Int
    BY <1>1, <1>2, <2>1 DEF Diff, Time
  <2>6. emptyState' # 0 => emptySet \/ emptyFor' = Shutdown \/ Diff(emptyState, clock') <= emptyFor'
    BY <1>1, <1>2, <2>2, <2>3, <2>4, <2>5 DEF EmptyOK
  <2>7. (emptyState # 0 => emptySet \/ emptyFor = Shutdown \/ Diff(emptyState, clock) <= emptyFor)'
    BY <2>2, <2>6 DEF Diff
  <2> QED BY <2>2, <2>7 DEF EmptyOK, EndsAfterEmptiness
<1>4. ASSUME CheckEmpty PROVE EmptyOK'
  <2>1. ToBeEnded => emptyFor >= Shutdown \/ emptySet
    <3>1. Diff(emptyState, clock) \in Int
      BY <1>1, <1>2 DEF Diff, Time
    <3> QED BY <3>1, <1>1, <1>2 DEF EmptyOK, ToBeEnded
  <2> QED BY <2>1, <1>4 DEF CheckEmpty, EmptyOK, EndsAfterEmptiness, Diff, ToBeEnded, clocks, ages, set
<1>5. ASSUME LookForPlayers PROVE EmptyOK'
  <2>1. Diff(clock, clock) = 0
    BY <1>1 DEF Diff, Time
  <2>2. step' = "reset" /\ clock' = clock /\ emptyFor' = emptyFor
        /\ isDefault' = isDefault
        /\ \/ emptyState' = emptyState /\ emptySet' = emptySet
           \/ ~isDefault /\ emptyState' = clock
    BY <1>5 DEF LookForPlayers
  <2> QED BY <2>1, <2>2, <1>1, <1>2 DEF EmptyOK, EndsAfterEmptiness, Diff
<1>6. ASSUME ResetEmpty PROVE EmptyOK'
  <2>1. step' = "delay" /\ clock' = clock /\ step = "reset" /\ isDefault' = isDefault
        /\ emptySet' = emptySet
    BY <1>6 DEF ResetEmpty, set
  <2>2. CASE emptyState' = 0
    BY <2>1, <2>2 DEF EmptyOK, EndsAfterEmptiness
  <2>3. CASE emptyState' # 0 /\ ~isDefault
    BY <2>1, <2>3, <1>6 DEF EmptyOK, EndsAfterEmptiness, ResetEmpty, NotEmpty, Diff
  <2>4. CASE isDefault
    BY <2>1, <2>4, <1>6 DEF EmptyOK, EndsAfterEmptiness, ResetEmpty
  <2> QED BY <2>2, <2>3, <2>4 DEF TypeOK
<1>7. ASSUME UNCHANGED <<isDefault, clock, emptyState, emptyFor, emptySet>>,
             step' # "ended" \/ step' = step
      PROVE  EmptyOK'
  BY <1>7 DEF EmptyOK, EndsAfterEmptiness, Diff
<1>8. ASSUME SetClock PROVE EmptyOK'
  BY <1>8 DEF SetClock, EmptyOK, EndsAfterEmptiness
<1> QED BY <1>3, <1>4, <1>5, <1>6, <1>7, <1>8
        DEF Next, RoomThread, NetworkThread, ComputeDelay, StampUpdate, BeginWalk, UpdatePlayer,
            Advance, UseReused, AddPlayer, RemovePlayer, clocks, ages, set

\* Who is in a room that counts as empty has come since the thread's last look.
LEMMA NewStep == ASSUME IInv, Next PROVE NewOK'
<1> USE DEF IInv
<1>1. playerList = <<>> <=> Members = {}
  BY MembersFacts
<1>2. ASSUME CheckEmpty PROVE NewOK'
  BY <1>2 DEF CheckEmpty, ToBeEnded, NewOK, Members, clocks
<1>3. ASSUME LookForPlayers PROVE NewOK'
  BY <1>3 DEF LookForPlayers, NewOK
<1>4. ASSUME ResetEmpty PROVE NewOK'
  <2>1. Members' = Members /\ isDefault' = isDefault /\ step' = "delay"
    BY <1>4 DEF ResetEmpty, Members
  <2>2. emptyState' # 0 /\ ~isDefault => Members = {}
    BY <1>1, <1>4 DEF ResetEmpty, NotEmpty
  <2> QED BY <2>1, <2>2 DEF NewOK
<1>5. ASSUME NEW p \in Players, AddPlayer(p) PROVE NewOK'
  <2>1. Members' = Members \cup {p}
    BY <1>5, AddFacts
  <2> QED BY <2>1, <1>5 DEF AddPlayer, NewOK, clocks
<1>6. ASSUME NEW p \in Players, RemovePlayer(p) PROVE NewOK'
  <2>1. Members' = Members \ {p}
    BY <1>6, TakeFacts
  <2> QED BY <2>1, <1>6 DEF RemovePlayer, NewOK, clocks
<1>7. ASSUME UNCHANGED <<isDefault, playerList, emptyState, newcomers>>,
             step # "reset" \/ step' = step, step' # "ended" \/ step' = step
      PROVE  NewOK'
  BY <1>7 DEF NewOK, Members
<1> QED BY <1>2, <1>3, <1>4, <1>5, <1>6, <1>7
        DEF Next, Tick, SetClock, RoomThread, NetworkThread, ComputeDelay, StampUpdate, BeginWalk,
            UpdatePlayer, Advance, UseReused, clocks

\* The walk has updated who is before it, and nobody else, of those who stayed.
LEMMA WalkStep == ASSUME IInv, Next PROVE WalkOK'
<1> USE DEF IInv
<1>1. /\ Members \subseteq Players
      /\ \A p \in Members : Place(p) \in 1 .. Len(playerList) /\ playerList[Place(p)] = p
      /\ \A p, q \in Members : Place(p) = Place(q) => p = q
      /\ Len(playerList) \in Nat
  BY MembersFacts
<1>2. End \notin Players /\ Freed \notin Players /\ End # Freed
  BY NamesAssumption
<1>3. ASSUME UNCHANGED <<playerList, walk>>, step' = step \/ step' \notin {"update", "advance", "stamp"}
      PROVE  WalkOK'
  <2>1. Members' = Members /\ \A p : Place(p)' = Place(p)
    BY <1>3 DEF Members, Place
  <2> QED BY <2>1, <1>3 DEF WalkOK, Walking, UpdatedBefore, UpdatedUpTo, AllUpdated, walk
<1>4. ASSUME BeginWalk PROVE WalkOK'
  <2>1. Members' = Members /\ \A p : Place(p)' = Place(p)
    BY <1>4 DEF BeginWalk, Members, Place
  <2>2. CASE playerList = <<>>
    <3>1. stayers' = {} /\ step' = "stamp"
      BY <2>2, <1>4, MembersFacts DEF BeginWalk
    <3> QED BY <3>1 DEF WalkOK, Walking, AllUpdated
  <2>3. CASE playerList # <<>>
    <3>1. Head(playerList) = playerList[1] /\ 1 \in 1 .. Len(playerList)
      BY <2>3 DEF ListOK
    <3>2. Head(playerList) \in Members /\ Place(Head(playerList)) = 1
      BY <3>1, MembersFacts
    <3>3. at' \in Members /\ Place(at') = 1 /\ step' = "update" /\ stayers' = Members
      BY <2>3, <3>2, <1>1, <1>2, <1>4 DEF BeginWalk
    <3>4. \A q \in Players : visits'[q] = 0
      BY <1>4 DEF BeginWalk
    <3>5. UpdatedBefore(at)'
      <4>1. \A q \in Members : visits'[q] = 0 /\ ~(Place(q) < 1)
        BY <3>4, <1>1
      <4>2. Place(at)' = Place(at')
        BY <1>4 DEF BeginWalk, Place
      <4> QED BY <4>1, <4>2, <2>1, <3>3 DEF UpdatedBefore
    <3> QED BY <3>3, <3>5, <2>1, <1>1, <1>2 DEF WalkOK, Walking
  <2> QED BY <2>2, <2>3
<1>5. ASSUME UpdatePlayer PROVE WalkOK'
  <2>1. /\ Members' = Members /\ \A p : Place(p)' = Place(p)
        /\ at' = at /\ after' = after /\ stayers' = stayers /\ step = "update" /\ step' = "advance"
    BY <1>5 DEF UpdatePlayer, Members, Place
  <2>2. CASE at = Freed
    BY <2>1, <2>2, <1>2, <1>5 DEF UpdatePlayer, WalkOK, Walking, UpdatedBefore, AllUpdated
  <2>3. CASE at # Freed
    <3>1. at \in Players /\ UpdatedBefore(at) /\ stayers \subseteq Members
      BY <2>1, <2>3 DEF WalkOK, Walking, TypeOK
    <3>2. \A q \in stayers : Place(q) \in Nat /\ Place(at) \in Nat /\ (Place(q) = Place(at) => q = at)
      BY <3>1, <1>1 DEF UpdatedBefore
    <3>3. visits' = [visits EXCEPT ![at] = IF visits[at] < 2 THEN visits[at] + 1 ELSE 2]
      BY <2>3, <1>5 DEF UpdatePlayer
    <3>4. ASSUME NEW q \in stayers PROVE visits'[q] = IF Place(q) <= Place(at) THEN 1 ELSE 0
      <4>1. visits[q] = IF Place(q) < Place(at) THEN 1 ELSE 0
        BY <3>1 DEF UpdatedBefore
      <4>2. CASE q = at
        BY <4>1, <4>2, <3>1, <3>2, <3>3 DEF TypeOK
      <4>3. CASE q # at
        BY <4>1, <4>3, <3>1, <3>2, <3>3, <1>1 DEF TypeOK
      <4> QED BY <4>2, <4>3
    <3>5. UpdatedUpTo(at)'
      BY <3>1, <3>4, <2>1 DEF UpdatedBefore, UpdatedUpTo
    <3> QED BY <3>1, <3>5, <2>1, <2>3, <1>2 DEF WalkOK, Walking
  <2> QED BY <2>2, <2>3
<1>6. ASSUME Advance PROVE WalkOK'
  <2>1. /\ Members' = Members /\ \A p : Place(p)' = Place(p)
        /\ stayers' = stayers /\ visits' = visits /\ step = "advance"
        /\ step' = IF at' = End THEN "stamp" ELSE "update"
    BY <1>6 DEF Advance, Members, Place
  <2>2. stayers \subseteq Members
    BY <2>1 DEF WalkOK, Walking
  <2>3. (at' = End /\ AllUpdated) \/ (at' \in Members /\ UpdatedBefore(at'))
    <3>1. CASE at = Freed
      <4>1. at' = after /\ after # Freed
        BY <3>1, <1>6 DEF Advance
      <4>2. CASE after = End
        BY <4>1, <4>2, <3>1, <2>1 DEF WalkOK, Walking
      <4>3. CASE after \in Players
        BY <4>1, <4>3, <3>1, <2>1 DEF WalkOK, Walking, UpdatedBefore
      <4> QED BY <4>1, <4>2, <4>3 DEF TypeOK
    <3>2. CASE at # Freed
      <4>1. at \in Members /\ UpdatedUpTo(at)
        BY <3>2, <2>1 DEF WalkOK, Walking, TypeOK, UpdatedUpTo
      <4>2. at' = NextNode(at)
        BY <3>2, <1>6 DEF Advance
      <4>3. CASE NextNode(at) = End /\ Place(at) = Len(playerList)
        <5>1. \A q \in stayers : Place(q) <= Place(at)
          BY <4>3, <2>2, <1>1
        <5> QED BY <5>1, <4>1, <4>2, <4>3 DEF UpdatedUpTo, AllUpdated
      <4>4. CASE NextNode(at) \in Members /\ Place(NextNode(at)) = Place(at) + 1
        <5>1. \A q \in stayers : Place(q) <= Place(at) <=> Place(q) < Place(NextNode(at))
          BY <4>1, <4>4, <2>2, <1>1
        <5> QED BY <5>1, <4>1, <4>2, <4>4 DEF UpdatedUpTo, UpdatedBefore
      <4> QED BY <4>1, <4>3, <4>4, NextFacts
    <3> QED BY <3>1, <3>2
  <2>4. CASE at' = End /\ AllUpdated
    BY <2>1, <2>4 DEF WalkOK, Walking, AllUpdated
  <2>5. CASE at' \in Members /\ UpdatedBefore(at')
    <3>1. step' = "update" /\ at' # End /\ at' # Freed
      BY <2>1, <2>5, <1>1, <1>2
    <3>2. Place(at)' = Place(at')
      BY <1>6 DEF Advance, Place
    <3>3. UpdatedBefore(at)'
      BY <2>1, <2>5, <3>2 DEF UpdatedBefore
    <3> QED BY <3>1, <3>3, <2>1, <2>2 DEF WalkOK, Walking
  <2> QED BY <2>3, <2>4, <2>5
<1>7. ASSUME NEW p \in Players, AddPlayer(p) PROVE WalkOK'
  <2>1. Members' = Members \cup {p} /\ \A q \in Members : Place(q)' = Place(q)
    BY <1>7, AddFacts
  <2>2. UNCHANGED <<step, at, after, stayers, visits>>
    BY <1>7 DEF AddPlayer, walk
  <2>3. Walking => stayers \subseteq Members
    BY DEF WalkOK
  <2>4. ASSUME NEW q \in Members, Walking PROVE /\ UpdatedBefore(q) => UpdatedBefore(q)'
                                                /\ UpdatedUpTo(q) => UpdatedUpTo(q)'
    BY <2>1, <2>2, <2>3, <2>4 DEF UpdatedBefore, UpdatedUpTo
  <2> QED BY <2>1, <2>2, <2>3, <2>4 DEF WalkOK, Walking, UpdatedBefore, UpdatedUpTo, AllUpdated
<1>8. ASSUME NEW p \in Players, RemovePlayer(p) PROVE WalkOK'
  <2>1. /\ Members' = Members \ {p} /\ p \in Members
        /\ \A q \in Members \ {p} :
              Place(q)' = IF Place(q) < Place(p) THEN Place(q) ELSE Place(q) - 1
    BY <1>8, TakeFacts
  <2>2. step' = step /\ visits' = visits /\ stayers' = stayers \ {p}
    BY <1>8 DEF RemovePlayer
  <2>3. Walking => stayers \subseteq Members
    BY DEF WalkOK
  <2>4. ASSUME NEW q \in Members \ {p}, NEW r \in Members \ {p}
        PROVE  /\ Place(r)' < Place(q)' <=> Place(r) < Place(q)
               /\ Place(r)' <= Place(q)' <=> Place(r) <= Place(q)
    <3>1. Place(p) \in Nat /\ Place(q) \in Nat /\ Place(r) \in Nat
      BY <2>1, <1>1
    <3>2. Place(p) # Place(q) /\ Place(p) # Place(r)
      BY <2>1, <1>1
    <3> QED BY <3>1, <3>2, <2>1
  <2>5. ASSUME NEW q \in Members \ {p}, Walking
        PROVE  /\ UpdatedBefore(q) => UpdatedBefore(q)'
               /\ UpdatedUpTo(q) => UpdatedUpTo(q)'
    BY <2>1, <2>2, <2>3, <2>4, <2>5 DEF UpdatedBefore, UpdatedUpTo
  <2>6. AllUpdated => AllUpdated'
    BY <2>2 DEF AllUpdated
  <2>7. CASE ~Walking
    BY <2>2, <2>6, <2>7 DEF WalkOK, Walking
  <2>8. CASE Walking /\ at = p
    <3>1. at' = Freed /\ after' = NextNode(p)
      BY <2>8, <1>8 DEF RemovePlayer, Walking
    <3>2. CASE NextNode(p) = End /\ Place(p) = Len(playerList)
      <4>1. \A q \in stayers' : Place(q) < Place(p)
        BY <3>2, <2>1, <2>2, <2>3, <2>8, <1>1
      <4>2. AllUpdated'
        BY <4>1, <2>1, <2>2, <2>8, <1>1 DEF AllUpdated, WalkOK, Walking, UpdatedBefore, UpdatedUpTo
      <4> QED BY <4>2, <3>1, <3>2, <2>1, <2>2, <2>3, <2>8, <1>2 DEF WalkOK, Walking
    <3>3. CASE NextNode(p) \in Members /\ Place(NextNode(p)) = Place(p) + 1
      <4>1. NextNode(p) \in Members \ {p}
        BY <3>3, <2>1, <1>1
      <4>2. \A q \in stayers' : Place(q) < Place(NextNode(p)) <=> Place(q) < Place(p)
        BY <3>3, <2>1, <2>2, <2>3, <2>8, <1>1
      <4>3. \A q \in stayers' : Place(q) < Place(p) <=> Place(q) <= Place(p)
        BY <2>1, <2>2, <2>3, <2>8, <1>1
      <4>4. \A q \in stayers' : visits[q] = IF Place(q) < Place(NextNode(p)) THEN 1 ELSE 0
        BY <4>2, <4>3, <2>2, <2>8 DEF WalkOK, Walking, UpdatedBefore, UpdatedUpTo
      <4>5. PICK n \in Members \ {p} : n = NextNode(p)
        BY <4>1
      <4>6. UpdatedBefore(n)'
        BY <4>4, <4>5, <2>1, <2>2, <2>3, <2>4, <2>8 DEF UpdatedBefore
      <4>7. UpdatedBefore(after)'
        BY <4>5, <4>6, <3>1 DEF UpdatedBefore, Place
      <4> QED BY <4>5, <4>7, <3>1, <2>1, <2>2, <2>3, <2>8, <1>1, <1>2 DEF WalkOK, Walking
    <3> QED BY <3>2, <3>3, <2>1, NextFacts
  <2>9. CASE Walking /\ at # p
    <3>1. at' = at /\ after' = IF at = Freed /\ after = p THEN Freed ELSE after
      BY <2>9, <1>8 DEF RemovePlayer
    <3>2. stayers' \subseteq Members' /\ at' # End
      BY <2>1, <2>2, <2>3, <2>9, <3>1 DEF WalkOK
    <3>3. CASE at \in Players
      <4>1. at \in Members \ {p}
        BY <3>3, <2>9 DEF WalkOK, Walking, UpdatedBefore, UpdatedUpTo
      <4>2. /\ step = "update" => UpdatedBefore(at)'
            /\ step = "advance" => UpdatedUpTo(at)'
        <5>1. /\ UpdatedBefore(at) => UpdatedBefore(at)'
              /\ UpdatedUpTo(at) => UpdatedUpTo(at)'
          <6>1. PICK q \in Members \ {p} : q = at
            BY <4>1
          <6>2. /\ UpdatedBefore(q) => UpdatedBefore(q)'
                /\ UpdatedUpTo(q) => UpdatedUpTo(q)'
            BY <2>5, <2>9
          <6> QED BY <6>1, <6>2, <3>1 DEF UpdatedBefore, UpdatedUpTo, Place
        <5> QED BY <5>1, <3>3 DEF WalkOK
      <4> QED BY <4>2, <3>1, <3>2, <3>3, <2>2, <2>9, <1>2 DEF WalkOK, Walking
    <3>4. CASE at = Freed
      <4>1. CASE after = p
        BY <4>1, <3>1, <3>2, <3>4, <2>2, <2>9, <1>2 DEF WalkOK, Walking
      <4>2. CASE after # p
        <5>1. after' = after
          BY <4>2, <3>1
        <5>2. after \in Players => UpdatedBefore(after)'
          <6>1. after \in Players => UpdatedBefore(after) /\ after \in Members \ {p}
            BY <4>2, <3>4, <2>9 DEF WalkOK, UpdatedBefore
          <6> QED BY <6>1, <5>1, <2>5, <2>9 DEF UpdatedBefore, Place
        <5>3. after = End => AllUpdated'
          BY <3>4, <2>6, <2>9 DEF WalkOK
        <5> QED BY <5>1, <5>2, <5>3, <3>1, <3>2, <3>4, <2>2, <2>9, <1>2 DEF WalkOK, Walking
      <4> QED BY <4>1, <4>2
    <3> QED BY <3>3, <3>4, <2>9 DEF WalkOK, TypeOK
  <2> QED BY <2>7, <2>8, <2>9
<1>9. ASSUME StampUpdate PROVE WalkOK'
  BY <1>9 DEF StampUpdate, WalkOK, Walking
<1> QED BY <1>3, <1>4, <1>5, <1>6, <1>7, <1>8, <1>9
        DEF Next, Tick, SetClock, RoomThread, NetworkThread, CheckEmpty, LookForPlayers, ResetEmpty,
            ComputeDelay, UseReused

-----------------------------------------------------------------------------
(* The theorems. *)

\* A room starts in the invariant.
LEMMA InitInv == Init => IInv
<1> SUFFICES ASSUME Init PROVE IInv
  OBVIOUS
<1>1. Members = {} /\ Len(playerList) = 0 /\ playerList \in Seq(Players)
  BY DEF Init, Members, ToSet
<1>2. 0 \in Time /\ clock \in Time
  BY TimesAssumption DEF Init, Time
<1>3. visits \in [Players -> 0 .. 2]
  BY DEF Init
<1>4. TypeOK
  <2>1. visits \in [Players -> 0 .. 2] /\ Members \subseteq Players
    BY <1>1, <1>3
  <2>2. Len(playerList) <= Capacity /\ updateAge \in 0 .. MaxRound /\ emptyFor \in 0 .. Shutdown
    BY <1>1, TimesAssumption DEF Init
  <2>3. settings \in 0 .. MaxSettings
    BY TimesAssumption DEF Init
  <2> QED BY <2>1, <2>2, <2>3, <1>2 DEF Init, TypeOK
<1>5. ListOK
  BY <1>1 DEF ListOK, Distinct
<1>6. ClockOK
  BY <1>2 DEF Init, ClockOK, Time
<1>7. EmptyOK /\ NewOK /\ WalkOK
  BY DEF Init, EmptyOK, EndsAfterEmptiness, NewOK, WalkOK, Walking
<1> QED BY <1>4, <1>5, <1>6, <1>7 DEF IInv

\* The invariant holds always.
THEOREM Invariance == Spec => []IInv
<1>1. IInv /\ [Next]_vars => IInv'
  <2>1. ASSUME IInv, Next PROVE IInv'
    BY <2>1, TypeStep, ClockStep, EmptyStep, NewStep, WalkStep DEF IInv
  <2>2. ASSUME IInv, UNCHANGED vars PROVE IInv'
    BY <2>2 DEF IInv, TypeOK, ListOK, ClockOK, EmptyOK, EndsAfterEmptiness, NewOK, WalkOK, Walking,
         UpdatedBefore, UpdatedUpTo, AllUpdated, Members, Place, Diff, vars, clocks, walk, ages, set
  <2> QED BY <2>1, <2>2
<1> QED BY <1>1, InitInv, PTL DEF Spec

\* Every variable keeps its type, and a room never holds more than its capacity.
THEOREM TypeCorrect == Spec => []TypeOK
<1>1. IInv => TypeOK
  BY DEF IInv
<1> QED BY <1>1, Invariance, PTL

\* Run ends a room only after its list has been empty, at every look, for the
\* whole shutdown time, for every width of the clock, if the clock has not been
\* set since.
THEOREM RoomsEndWhenEmpty == Spec => []EndsAfterEmptiness
<1>1. IInv => EndsAfterEmptiness
  BY DEF IInv, EmptyOK
<1> QED BY <1>1, Invariance, PTL

\* Players left without a room by its end have joined it after its last look.
THEOREM OnlyLateJoinersStranded == Spec => []StrandedJoinedLate
<1>1. IInv => StrandedJoinedLate
  BY DEF IInv, NewOK, StrandedJoinedLate
<1> QED BY <1>1, Invariance, PTL

\* A round updates every player who stays exactly once, however many players
\* come and go during it.
THEOREM StayersAreUpdated == Spec => []EveryoneUpdated
<1>1. IInv => EveryoneUpdated
  BY DEF IInv, WalkOK, AllUpdated, EveryoneUpdated
<1> QED BY <1>1, Invariance, PTL

\* The delay of a round in which the clock is not set is the time that passed,
\* less a millisecond at a wrap.
THEOREM DelaysAreTimes == Spec => DelayIsTime
<1>1. IInv /\ [Next]_vars
        => [step = "delay" /\ step' = "begin" /\ ~updateSet =>
              delay' = IF clock < lastUpdate THEN updateAge - 1 ELSE updateAge]_vars
  <2> SUFFICES ASSUME IInv, Next, step = "delay", step' = "begin", ~updateSet
               PROVE  delay' = IF clock < lastUpdate THEN updateAge - 1 ELSE updateAge
    BY DEF vars
  <2>1. delay' = Diff(lastUpdate, clock)
    BY DEF Next, Tick, SetClock, RoomThread, NetworkThread, CheckEmpty, LookForPlayers, ResetEmpty,
           ComputeDelay, BeginWalk, UpdatePlayer, Advance, UseReused, StampUpdate, AddPlayer,
           RemovePlayer
  <2>2. clock \in Time /\ lastUpdate \in Time /\ updateAge \in 0 .. MaxRound
    BY DEF IInv, TypeOK
  <2>3. ClockOK
    BY DEF IInv
  <2> QED BY <2>1, <2>2, <2>3, TimesAssumption DEF ClockOK, Diff, Time
<1> QED BY <1>1, Invariance, PTL DEF Spec, DelayIsTime

=============================================================================
