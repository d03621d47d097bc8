----------------------------- MODULE ClientProofs -----------------------------
(***************************************************************************)
(* Safety of a page of the web client for every set of rows, roles and     *)
(* requests under way, any number of presses, resends and time-outs.       *)
(*                                                                         *)
(* A page works from copies.  The invariant says what a copy is worth: its *)
(* row still exists and, if it is a conflict, has at most moved on along   *)
(* its life cycle.  Answers and requests carry copies too, so they promise *)
(* the same of theirs from the moment they are made until they arrive.     *)
(***************************************************************************)
EXTENDS Client, FiniteSetTheorems, SequenceTheorems, TLAPS

Moves == {"transition", "apply"}

\* What a row that was read in one state may have become: a conflict that is
\* resolved or a false positive is only ever closed.
Descends(from, to) ==
  page = "conflicts" =>
    /\ from = "resolved" => to \in {"resolved", "closed"}
    /\ from = "false_positive" => to \in {"false_positive", "closed"}
    /\ from = "closed" => to = "closed"

Known(item) == table[item.id] # Absent /\ Descends(item.row.state, table[item.id].state)

\* The page showed the button of this request.
Pressed(r) == IF r.op = "apply" THEN OffersApply(r.seen) /\ r.to = "resolved"
                                ELSE Offers(r.seen, r.to)

Distinct(list) == \A i, j \in DOMAIN list : i # j => list[i].id # list[j].id

RequestSound(r) ==
  /\ r.op = "detect" => r.press \in 1..MaxPresses /\ page = "conflicts"
  /\ r.op = "create" => page = "proposals"
  /\ r.op \in Moves => /\ r.id \in Ids /\ r.seen \in Row /\ Pressed(r)
                       /\ Known([id |-> r.id, row |-> r.seen])
  /\ \A i \in DOMAIN r.answer : Known(r.answer[i])
  /\ r.status = "done" /\ r.op # "list" => Len(r.answer) = 1
  /\ r.op = "list" => Distinct(r.answer)

RequestsSound == \A f \in Slots : request[f] = Idle \/ RequestSound(request[f])
ItemsKnown == \A i \in DOMAIN items : Known(items[i])
FiledStored == \A x \in filed : table[x[2]] # Absent

IInv == TypeOK /\ FiledStored /\ ItemsKnown /\ RowsAppearOnce /\ RequestsSound

------------------------------------------------------------------------------
\* The bounds are numbers.
LEMMA Bounds ==
  /\ MaxVersion \in Nat /\ 1 <= MaxVersion /\ MaxPresses \in Nat /\ MaxResends \in Nat
BY BoundsAssumption

\* A set in ascending order is a sequence that names each member once.
LEMMA AscendingLists ==
  ASSUME NEW S, S \subseteq Int, IsFiniteSet(S), NEW at \in Ascending(S)
  PROVE  /\ Len(at) \in Nat /\ at \in Seq(S) /\ DOMAIN at = 1..Len(at)
         /\ \A i \in 1..Len(at) : at[i] \in S
         /\ \A i, j \in 1..Len(at) : i # j => at[i] # at[j]
<1>1. Cardinality(S) \in Nat
  BY FS_CardinalityType
<1>2. at \in [1..Cardinality(S) -> S] /\ \A i, j \in DOMAIN at : i < j => at[i] < at[j]
  BY DEF Ascending
<1>3. at \in Seq(S) /\ Len(at) = Cardinality(S)
  BY <1>1, <1>2
<1>4. ASSUME NEW i \in 1..Len(at), NEW j \in 1..Len(at), i # j
      PROVE  at[i] # at[j]
  <2>1. i \in DOMAIN at /\ j \in DOMAIN at /\ at[i] \in Int /\ at[j] \in Int
    BY <1>2, <1>3
  <2>2. i < j \/ j < i
    BY <1>4
  <2> QED
    BY <1>2, <2>1, <2>2
<1> QED
  BY <1>1, <1>2, <1>3, <1>4

\* A list names every stored row once, as it is.
LEMMA ListingsSound ==
  ASSUME TypeOK, NEW list \in Listings
  PROVE  /\ list \in Seq(Item) /\ Distinct(list)
         /\ \A i \in DOMAIN list : Known(list[i])
<1>1. PICK at \in Ascending(Rows) :
        list = [i \in DOMAIN at |-> Stored(at[Len(at) + 1 - i])]
  BY DEF Listings
<1>2. Rows \subseteq Ids /\ Rows \subseteq Int /\ IsFiniteSet(Rows)
  <2>1. Ids \subseteq Int /\ IsFiniteSet(Ids)
    BY NumbersAssumption
  <2>2. Rows \subseteq Ids
    BY DEF Rows
  <2> QED
    BY <2>1, <2>2, FS_Subset
<1>3. /\ Len(at) \in Nat /\ DOMAIN at = 1..Len(at)
      /\ \A i \in 1..Len(at) : at[i] \in Rows
      /\ \A i, j \in 1..Len(at) : i # j => at[i] # at[j]
  BY <1>2, AscendingLists
<1>4. ASSUME NEW id \in Rows
      PROVE  /\ Stored(id) \in Item /\ Stored(id).id = id /\ Known(Stored(id))
  <2>1. id \in Ids /\ table[id] # Absent /\ table[id] \in Row
    BY DEF Rows, TypeOK
  <2>2. Stored(id) = [id |-> id, row |-> table[id]]
    BY DEF Stored
  <2>3. Stored(id).id = id /\ Stored(id).row = table[id] /\ Stored(id) \in Item
    BY <2>1, <2>2 DEF Item
  <2> QED
    BY <2>1, <2>3 DEF Known, Descends
<1>5. ASSUME NEW i \in 1..Len(at)
      PROVE  Len(at) + 1 - i \in 1..Len(at) /\ at[Len(at) + 1 - i] \in Rows
  BY <1>3
<1>6. /\ list \in [1..Len(at) -> Item]
      /\ \A i \in 1..Len(at) : list[i] = Stored(at[Len(at) + 1 - i])
  BY <1>1, <1>3, <1>4, <1>5
<1>7. list \in Seq(Item) /\ DOMAIN list = 1..Len(at)
  BY <1>3, <1>6
<1>8. ASSUME NEW i \in 1..Len(at), NEW j \in 1..Len(at), i # j
      PROVE  list[i].id # list[j].id
  <2>1. Len(at) + 1 - i # Len(at) + 1 - j
    BY <1>3, <1>8
  <2>2. at[Len(at) + 1 - i] # at[Len(at) + 1 - j]
    BY <1>3, <1>5, <2>1
  <2> QED
    BY <1>4, <1>5, <1>6, <2>2
<1>9. \A i \in 1..Len(at) : Known(list[i])
  BY <1>4, <1>5, <1>6
<1> QED
  BY <1>7, <1>8, <1>9 DEF Distinct

\* The rows of two lists, one after the other, are the rows of either.
LEMMA ConcatRows ==
  ASSUME NEW S, NEW a \in Seq(S), NEW b \in Seq(S)
  PROVE  /\ a \o b \in Seq(S)
         /\ \A i \in DOMAIN (a \o b) : \/ \E j \in DOMAIN a : (a \o b)[i] = a[j]
                                       \/ \E j \in DOMAIN b : (a \o b)[i] = b[j]
<1>1. /\ a \o b \in Seq(S) /\ Len(a \o b) = Len(a) + Len(b)
      /\ \A i \in 1..(Len(a) + Len(b)) :
           (a \o b)[i] = IF i <= Len(a) THEN a[i] ELSE b[i - Len(a)]
  BY ConcatProperties
<1>2. /\ Len(a) \in Nat /\ Len(b) \in Nat /\ DOMAIN a = 1..Len(a)
      /\ DOMAIN b = 1..Len(b) /\ DOMAIN (a \o b) = 1..Len(a \o b)
  BY <1>1
<1>3. ASSUME NEW i \in DOMAIN (a \o b)
      PROVE  \/ \E j \in DOMAIN a : (a \o b)[i] = a[j]
             \/ \E j \in DOMAIN b : (a \o b)[i] = b[j]
  <2>1. i \in 1..(Len(a) + Len(b))
    BY <1>1, <1>2
  <2>2. CASE i <= Len(a)
    BY <1>1, <1>2, <2>1, <2>2
  <2>3. CASE ~ (i <= Len(a))
    <3>1. i - Len(a) \in DOMAIN b
      BY <1>2, <2>1, <2>3
    <3> QED
      BY <1>1, <2>1, <2>3, <3>1
  <2> QED
    BY <2>2, <2>3
<1> QED
  BY <1>1, <1>3

\* What is left of a list without some ids is a choice of its rows.
LEMMA WithoutSound ==
  ASSUME NEW list \in Seq(Item), NEW ids, NEW others \in Without(list, ids)
  PROVE  /\ others \in Seq(Item)
         /\ \A i \in DOMAIN others : \E k \in DOMAIN list :
              others[i] = list[k] /\ list[k].id \notin ids
         /\ Distinct(list) => Distinct(others)
<1> DEFINE kept == {i \in DOMAIN list : list[i].id \notin ids}
<1>1. PICK at \in Ascending(kept) : others = [i \in DOMAIN at |-> list[at[i]]]
  BY DEF Without
<1>2. Len(list) \in Nat /\ DOMAIN list = 1..Len(list) /\ \A i \in DOMAIN list : list[i] \in Item
  OBVIOUS
<1>3. kept \subseteq DOMAIN list /\ kept \subseteq Int /\ IsFiniteSet(kept)
  <2>1. IsFiniteSet(1..Len(list))
    BY <1>2, FS_Interval
  <2> QED
    BY <1>2, <2>1, FS_Subset
<1>4. /\ Len(at) \in Nat /\ DOMAIN at = 1..Len(at)
      /\ \A i \in 1..Len(at) : at[i] \in kept
      /\ \A i, j \in 1..Len(at) : i # j => at[i] # at[j]
  <2> HIDE DEF kept
  <2> QED
    BY <1>3, AscendingLists
<1>5. /\ others \in [1..Len(at) -> Item]
      /\ \A i \in 1..Len(at) : /\ others[i] = list[at[i]] /\ at[i] \in DOMAIN list
                               /\ list[at[i]].id \notin ids
  BY <1>1, <1>2, <1>4
<1>6. others \in Seq(Item) /\ DOMAIN others = 1..Len(at)
  BY <1>4, <1>5
<1>7. Distinct(list) => Distinct(others)
  BY <1>4, <1>5, <1>6 DEF Distinct
<1> QED
  BY <1>5, <1>6, <1>7

\* detect of the store shows no row twice: the found one replaces the row it had.
LEMMA MergedSound ==
  ASSUME NEW found \in Seq(Item), Len(found) = 1, NEW list \in Seq(Item),
         NEW merged \in Merged(found, list)
  PROVE  /\ merged \in Seq(Item)
         /\ \A i \in DOMAIN merged :
              merged[i] = found[1] \/ \E k \in DOMAIN list : merged[i] = list[k]
         /\ Distinct(list) => Distinct(merged)
<1> DEFINE ids == {found[j].id : j \in DOMAIN found}
<1>1. PICK others \in Without(list, ids) : merged = found \o others
  BY DEF Merged
<1>2. found[1] \in Item /\ DOMAIN found = 1..1 /\ found[1].id \in ids
  OBVIOUS
<1>3. /\ others \in Seq(Item)
      /\ \A i \in DOMAIN others : \E k \in DOMAIN list :
           others[i] = list[k] /\ list[k].id \notin ids
      /\ Distinct(list) => Distinct(others)
  <2> HIDE DEF ids
  <2> QED
    BY <1>1, WithoutSound
<1> HIDE DEF ids
<1>4. /\ merged \in Seq(Item) /\ Len(others) \in Nat
      /\ Len(merged) = Len(others) + 1 /\ DOMAIN merged = 1..(Len(others) + 1)
      /\ DOMAIN others = 1..Len(others)
      /\ merged[1] = found[1]
      /\ \A i \in 1..(Len(others) + 1) : i # 1 => merged[i] = others[i - 1]
  <2>1. others \in Seq(Item) /\ merged = found \o others
    BY <1>1, <1>3
  <2>2. Len(others) \in Nat /\ DOMAIN others = 1..Len(others)
    BY <2>1
  <2>3. /\ merged \in Seq(Item) /\ Len(merged) = 1 + Len(others)
        /\ \A i \in 1..(1 + Len(others)) :
             merged[i] = IF i <= 1 THEN found[i] ELSE others[i - 1]
    <3>1. found \in Seq(Item) /\ others \in Seq(Item) /\ Len(found) = 1
      BY <2>1
    <3>2. /\ found \o others \in Seq(Item) /\ Len(found \o others) = Len(found) + Len(others)
          /\ \A i \in 1..(Len(found) + Len(others)) :
               (found \o others)[i] =
                 IF i <= Len(found) THEN found[i] ELSE others[i - Len(found)]
      BY <3>1, ConcatProperties, Zenon
    <3> QED
      BY <2>1, <3>1, <3>2
  <2>4. DOMAIN merged = 1..Len(merged)
    BY <2>3
  <2>5. ASSUME NEW i \in 1..(Len(others) + 1), i # 1
        PROVE  merged[i] = others[i - 1]
    BY <2>2, <2>3, <2>5
  <2> QED
    BY <2>2, <2>3, <2>4, <2>5
<1>5. ASSUME NEW i \in 1..(Len(others) + 1), i # 1
      PROVE  /\ i - 1 \in DOMAIN others /\ merged[i] = others[i - 1]
             /\ \E k \in DOMAIN list : merged[i] = list[k] /\ list[k].id \notin ids
  <2>1. i - 1 \in DOMAIN others
    BY <1>4, <1>5
  <2> QED
    BY <1>3, <1>4, <1>5, <2>1
<1>6. ASSUME Distinct(others), NEW i \in 1..(Len(others) + 1),
             NEW j \in 1..(Len(others) + 1), i # j
      PROVE  merged[i].id # merged[j].id
  <2>1. CASE i # 1 /\ j # 1
    <3>1. i - 1 # j - 1 /\ i - 1 \in DOMAIN others /\ j - 1 \in DOMAIN others
      BY <1>5, <1>6, <2>1
    <3> QED
      BY <1>5, <1>6, <2>1, <3>1 DEF Distinct
  <2>2. CASE i = 1
    BY <1>2, <1>4, <1>5, <1>6, <2>2
  <2>3. CASE j = 1
    BY <1>2, <1>4, <1>5, <1>6, <2>3
  <2> QED
    BY <2>1, <2>2, <2>3
<1>7. Distinct(list) => Distinct(merged)
  BY <1>3, <1>4, <1>6 DEF Distinct
<1>8. \A i \in DOMAIN merged :
        merged[i] = found[1] \/ \E k \in DOMAIN list : merged[i] = list[k]
  <2> TAKE i \in DOMAIN merged
  <2>1. i \in 1..(Len(others) + 1)
    BY <1>4
  <2> QED
    BY <1>4, <1>5, <2>1
<1> QED
  BY <1>4, <1>7, <1>8

\* replace of the proposal store changes one copy and repeats none.
LEMMA ReplacedSound ==
  ASSUME NEW item \in Item, NEW list \in Seq(Item)
  PROVE  /\ Replaced(item, list) \in Seq(Item)
         /\ \A i \in DOMAIN Replaced(item, list) :
              Replaced(item, list)[i] = item
                \/ \E k \in DOMAIN list : Replaced(item, list)[i] = list[k]
         /\ Distinct(list) => Distinct(Replaced(item, list))
<1> DEFINE new == Replaced(item, list)
<1>1. Len(list) \in Nat /\ DOMAIN list = 1..Len(list) /\ \A i \in DOMAIN list : list[i] \in Item
  OBVIOUS
<1>2. /\ new \in [1..Len(list) -> Item]
      /\ \A i \in 1..Len(list) :
           new[i] = (IF list[i].id = item.id THEN item ELSE list[i]) /\ new[i].id = list[i].id
  BY <1>1 DEF Replaced
<1> HIDE DEF new
<1>3. new \in Seq(Item) /\ DOMAIN new = 1..Len(list)
  BY <1>1, <1>2
<1>4. /\ \A i \in DOMAIN new : new[i] = item \/ \E k \in DOMAIN list : new[i] = list[k]
      /\ Distinct(list) => Distinct(new)
  BY <1>1, <1>2, <1>3 DEF Distinct
<1> QED
  BY <1>3, <1>4 DEF new

------------------------------------------------------------------------------
\* What a step leaves alone: the page and its user always, the rows, the
\* detections and the page's copies but for the actions named.
LEMMA Frame ==
  ASSUME [Next]_vars
  PROVE  /\ page' = page /\ role' = role
         /\ \/ table' = table
            \/ \E f \in Slots, id \in Ids : ServeCreate(f, id) \/ ServeDetect(f, id)
            \/ \E f \in Slots : ServeMove(f)
            \/ \E id \in Ids, to \in States : Elsewhere(id, to)
         /\ filed' = filed \/ \E f \in Slots, id \in Ids : ServeDetect(f, id)
         /\ items' = items \/ \E f \in Slots : Arrive(f)
<1>1. CASE UNCHANGED vars
  BY <1>1 DEF vars, server
<1>2. ASSUME NEW f \in Slots, \/ Load(f) \/ PressCreate(f) \/ PressDetect(f)
                              \/ ServeList(f) \/ RefuseMove(f) \/ ReplayDetect(f)
      PROVE  UNCHANGED <<page, role, table, filed, items>>
  BY <1>2 DEF Load, PressCreate, PressDetect, ServeList, RefuseMove, ReplayDetect, server
<1>3. ASSUME NEW f \in Slots, NEW i \in DOMAIN items, NEW to \in States,
             PressTransition(f, i, to)
      PROVE  UNCHANGED <<page, role, table, filed, items>>
  BY <1>3 DEF PressTransition, server
<1>4. ASSUME NEW f \in Slots, \/ ArriveError(f) \/ GiveUp(f) \/ Lost(f) \/ Resend(f)
      PROVE  UNCHANGED <<page, role, table, filed, items>>
  BY <1>4 DEF ArriveError, GiveUp, Lost, Resend, server
<1>5. ASSUME NEW f \in Slots, NEW id \in Ids, ServeCreate(f, id)
      PROVE  UNCHANGED <<page, role, filed, items>>
  BY <1>5 DEF ServeCreate
<1>6. ASSUME NEW f \in Slots, NEW id \in Ids, ServeDetect(f, id)
      PROVE  UNCHANGED <<page, role, items>>
  BY <1>6 DEF ServeDetect
<1>7. ASSUME NEW f \in Slots, ServeMove(f)
      PROVE  UNCHANGED <<page, role, filed, items>>
  BY <1>7 DEF ServeMove
<1>8. ASSUME NEW id \in Ids, NEW to \in States, Elsewhere(id, to)
      PROVE  UNCHANGED <<page, role, filed, items>>
  BY <1>8 DEF Elsewhere
<1>9. ASSUME NEW f \in Slots, Arrive(f)
      PROVE  UNCHANGED <<page, role, table, filed>>
  BY <1>9 DEF Arrive, server
<1>10. ASSUME NEW f \in Slots, NEW i \in DOMAIN items, PressApply(f, i)
       PROVE  UNCHANGED <<page, role, table, filed, items>>
  BY <1>10 DEF PressApply, server
<1> QED
  BY <1>1, <1>2, <1>3, <1>4, <1>5, <1>6, <1>7, <1>8, <1>9, <1>10 DEF Next

\* A row that moves below the bound is a row, in the state it moves to.
LEMMA MovedRow ==
  ASSUME NEW row \in Row, row.version < MaxVersion, NEW to \in States
  PROVE  Moved(row, to) \in Row /\ Moved(row, to).state = to /\ Moved(row, to) # Absent
<1>1. row.version + 1 \in 1..MaxVersion
  BY Bounds DEF Row
<1>2. Moved(row, to) \in Row /\ Moved(row, to).state = to
  BY <1>1 DEF Moved, Row
<1> QED
  BY <1>2, MarksAssumption

\* A life cycle leads to states.
LEMMA Targets ==
  /\ \A from, to : CanProposalTransition(from, to) => to \in ProposalStates /\ to \in States
  /\ \A from, to : CanConflictTransition(from, to) => to \in ConflictStates /\ to \in States
BY DEF CanProposalTransition, ProposalTransitions, CanConflictTransition,
       ConflictTransitions, ProposalStates, ConflictStates, States

\* The request the server moves a row for, and the row.
LEMMA ServedMove ==
  ASSUME IInv, NEW f \in Slots, Received(f, Moves)
  PROVE  LET r == request[f] IN
         /\ r \in Request /\ RequestSound(r) /\ r.op \in Moves /\ r.status = "sent"
         /\ r.id \in Ids /\ r.seen \in Row /\ Pressed(r)
         /\ table[r.id] \in Row /\ Descends(r.seen.state, table[r.id].state)
<1> DEFINE r == request[f]
<1>1. r \in Request /\ RequestSound(r) /\ r.op \in Moves /\ r.status = "sent"
  BY DEF IInv, TypeOK, RequestsSound, Received
<1>2. r.id \in Ids /\ r.seen \in Row /\ Pressed(r) /\ Known([id |-> r.id, row |-> r.seen])
  BY <1>1 DEF RequestSound
<1>3. table[r.id] # Absent /\ Descends(r.seen.state, table[r.id].state)
  BY <1>2 DEF Known
<1>4. table[r.id] \in Row
  BY <1>2, <1>3 DEF IInv, TypeOK
<1> QED
  BY <1>1, <1>2, <1>3, <1>4

\* The rows: none disappears, and a conflict keeps to its life cycle.
LEMMA TableMoves ==
  ASSUME IInv, [Next]_vars
  PROVE  /\ table' \in [Ids -> Row \cup {Absent}]
         /\ \A id \in Ids : table[id] # Absent =>
              /\ table'[id] # Absent
              /\ page = "conflicts" =>
                   \/ table'[id].state = table[id].state
                   \/ CanConflictTransition(table[id].state, table'[id].state)
<1>1. table \in [Ids -> Row \cup {Absent}]
  BY DEF IInv, TypeOK
<1>2. ASSUME NEW id \in Ids, NEW row \in Row, table[id] = Absent,
             table' = [table EXCEPT ![id] = row]
      PROVE  /\ table' \in [Ids -> Row \cup {Absent}]
             /\ \A i \in Ids : table[i] # Absent => table'[i] = table[i]
  BY <1>1, <1>2
<1>3. ASSUME NEW id \in Ids, NEW to \in States, table[id] \in Row,
             table[id].version < MaxVersion,
             page = "conflicts" => CanConflictTransition(table[id].state, to),
             table' = [table EXCEPT ![id] = Moved(@, to)]
      PROVE  /\ table' \in [Ids -> Row \cup {Absent}]
             /\ \A i \in Ids : table[i] # Absent =>
                  /\ table'[i] # Absent
                  /\ page = "conflicts" =>
                       \/ table'[i].state = table[i].state
                       \/ CanConflictTransition(table[i].state, table'[i].state)
  <2>1. /\ Moved(table[id], to) \in Row /\ Moved(table[id], to).state = to
        /\ Moved(table[id], to) # Absent
    BY <1>3, MovedRow
  <2>2. \A i \in Ids : table'[i] = IF i = id THEN Moved(table[id], to) ELSE table[i]
    BY <1>1, <1>3
  <2>3. table' \in [Ids -> Row \cup {Absent}]
    BY <1>1, <1>3, <2>1
  <2> QED
    BY <1>3, <2>1, <2>2, <2>3
<1>4. CASE table' = table
  BY <1>1, <1>4
<1>5. ASSUME NEW f \in Slots, NEW id \in Ids, ServeCreate(f, id) \/ ServeDetect(f, id)
      PROVE  \E row \in Row : table[id] = Absent /\ table' = [table EXCEPT ![id] = row]
  <2>1. /\ [state |-> "draft", version |-> 1, author |-> "me"] \in Row
        /\ [state |-> "detected", version |-> 1, author |-> "other"] \in Row
    BY Bounds DEF Row, States, ProposalStates, ConflictStates
  <2> QED
    BY <1>5, <2>1 DEF ServeCreate, ServeDetect, NextId
<1>6. ASSUME NEW f \in Slots, ServeMove(f)
      PROVE  LET id == request[f].id  to == request[f].to IN
             /\ id \in Ids /\ to \in States /\ table[id] \in Row
             /\ table[id].version < MaxVersion
             /\ page = "conflicts" => CanConflictTransition(table[id].state, to)
             /\ table' = [table EXCEPT ![id] = Moved(@, to)]
  <2>1. request[f].id \in Ids /\ table[request[f].id] \in Row
    BY <1>6, ServedMove DEF ServeMove, Moves
  <2>2. /\ request[f].to \in States
        /\ page = "conflicts" =>
             CanConflictTransition(table[request[f].id].state, request[f].to)
    BY <1>6, Targets DEF ServeMove, Takes, Allows
  <2> QED
    BY <1>6, <2>1, <2>2 DEF ServeMove
<1>7. ASSUME NEW id \in Ids, NEW to \in States, Elsewhere(id, to)
      PROVE  /\ table[id] \in Row /\ table[id].version < MaxVersion
             /\ page = "conflicts" => CanConflictTransition(table[id].state, to)
             /\ table' = [table EXCEPT ![id] = Moved(@, to)]
  BY <1>1, <1>7 DEF Elsewhere
<1> QED
  <2>1. CASE \E f \in Slots, id \in Ids : ServeCreate(f, id) \/ ServeDetect(f, id)
    BY <1>2, <1>5, <2>1
  <2>2. CASE \E f \in Slots : ServeMove(f)
    BY <1>3, <1>6, <2>2
  <2>3. CASE \E id \in Ids, to \in States : Elsewhere(id, to)
    BY <1>3, <1>7, <2>3
  <2> QED
    BY <1>4, <2>1, <2>2, <2>3, Frame

\* A copy of a row stays a copy of that row as it was.
LEMMA KnownStays ==
  ASSUME IInv, [Next]_vars, NEW item \in Item, Known(item)
  PROVE  Known(item)'
<1>1. item.id \in Ids
  BY DEF Item
<1>2. /\ table[item.id] # Absent /\ table'[item.id] # Absent /\ page' = page
      /\ page = "conflicts" =>
           \/ table'[item.id].state = table[item.id].state
           \/ CanConflictTransition(table[item.id].state, table'[item.id].state)
  BY <1>1, TableMoves, Frame DEF Known
<1>3. Descends(item.row.state, table[item.id].state)
  BY DEF Known
<1>4. Descends(item.row.state, table[item.id].state)'
  BY <1>2, <1>3 DEF Descends, CanConflictTransition, ConflictTransitions
<1> QED
  BY <1>2, <1>4 DEF Known

------------------------------------------------------------------------------
\* What is right about a request under way stays right whatever others do.
LEMMA RequestStays ==
  ASSUME IInv, [Next]_vars, NEW r \in Request, RequestSound(r)
  PROVE  RequestSound(r)'
<1>1. page' = page /\ role' = role
  BY Frame
<1>2. \A i \in DOMAIN r.answer : Known(r.answer[i])'
  <2>1. \A i \in DOMAIN r.answer : r.answer[i] \in Item
    BY DEF Request
  <2>2. \A i \in DOMAIN r.answer : Known(r.answer[i])
    BY DEF RequestSound
  <2> QED
    BY <2>1, <2>2, KnownStays
<1>3. ASSUME r.op \in Moves
      PROVE  /\ r.id \in Ids /\ r.seen \in Row /\ Pressed(r)'
             /\ Known([id |-> r.id, row |-> r.seen])'
  <2>1. /\ r.id \in Ids /\ r.seen \in Row /\ Pressed(r)
        /\ Known([id |-> r.id, row |-> r.seen])
    BY <1>3 DEF RequestSound
  <2>2. [id |-> r.id, row |-> r.seen] \in Item
    BY <2>1 DEF Item
  <2>3. Pressed(r)'
    BY <1>1, <2>1 DEF Pressed, OffersApply, Offers, HasRole, CanTransition
  <2> QED
    BY <2>1, <2>2, <2>3, KnownStays
<1> QED
  BY <1>1, <1>2, <1>3 DEF RequestSound, Distinct

RequestsFine == request \in [Slots -> {Idle} \cup Request] /\ RequestsSound

\* So a step that touches no request leaves all of them right.
LEMMA RequestsStay ==
  ASSUME IInv, [Next]_vars, UNCHANGED request
  PROVE  RequestsFine'
<1>1. request \in [Slots -> {Idle} \cup Request] /\ RequestsSound
  BY DEF IInv, TypeOK
<1>2. ASSUME NEW f \in Slots
      PROVE  (request[f] = Idle \/ RequestSound(request[f]))'
  <2>1. request[f] = Idle \/ (request[f] \in Request /\ RequestSound(request[f]))
    BY <1>1 DEF RequestsSound
  <2>2. ASSUME NEW r \in Request, RequestSound(r)
        PROVE  RequestSound(r)'
    BY <2>2, RequestStays
  <2> QED
    BY <2>1, <2>2
<1> QED
  BY <1>1, <1>2 DEF RequestsFine, RequestsSound

\* One slot is filled, answered or emptied.
LEMMA SlotChanges ==
  ASSUME IInv, [Next]_vars, NEW f \in Slots, NEW r,
         r = Idle \/ (r \in Request /\ RequestSound(r)'),
         request' = [request EXCEPT ![f] = r]
  PROVE  RequestsFine'
<1>1. request \in [Slots -> {Idle} \cup Request] /\ RequestsSound
  BY DEF IInv, TypeOK
<1>2. request' \in [Slots -> {Idle} \cup Request]
  BY <1>1
<1>3. ASSUME NEW g \in Slots
      PROVE  (request[g] = Idle \/ RequestSound(request[g]))'
  <2>1. CASE g = f
    BY <1>1, <2>1
  <2>2. CASE g # f
    <3>1. request'[g] = request[g]
      BY <1>1, <2>2
    <3>2. request[g] = Idle \/ (request[g] \in Request /\ RequestSound(request[g]))
      BY <1>1 DEF RequestsSound
    <3>3. ASSUME NEW q \in Request, RequestSound(q)
          PROVE  RequestSound(q)'
      BY <3>3, RequestStays
    <3> QED
      BY <3>1, <3>2, <3>3
  <2> QED
    BY <2>1, <2>2
<1> QED
  BY <1>2, <1>3 DEF RequestsFine, RequestsSound

\* A list or a creation asks for nothing the page would have to know.
LEMMA FreshRequest ==
  ASSUME TypeOK, NEW op \in Ops, op \notin Moves, op # "detect",
         op = "create" => page = "proposals"
  PROVE  Sent(op) \in Request /\ RequestSound(Sent(op))
<1>1. << >> \in Seq(Item) /\ DOMAIN << >> = {}
  OBVIOUS
<1>2. Sent(op) \in Request
  BY <1>1, Bounds DEF Sent, Request
<1>3. RequestSound(Sent(op))
  BY <1>1 DEF RequestSound, Sent, Distinct
<1> QED
  BY <1>2, <1>3

\* A button fills a slot with a request that its row offers.
LEMMA PressFine ==
  ASSUME IInv, [Next]_vars, NEW f \in Slots,
         \/ Load(f) \/ PressCreate(f) \/ PressDetect(f)
         \/ \E i \in DOMAIN items, to \in States : PressTransition(f, i, to)
         \/ \E i \in DOMAIN items : PressApply(f, i)
  PROVE  RequestsFine'
<1>1. TypeOK /\ page' = page /\ role' = role
  BY Frame DEF IInv
<1>2. << >> \in Seq(Item) /\ DOMAIN << >> = {}
  OBVIOUS
<1>3. ASSUME NEW r \in Request, RequestSound(r), Send(f, r)
      PROVE  RequestsFine'
  BY <1>3, RequestStays, SlotChanges DEF Send
<1>4. CASE Load(f)
  BY <1>1, <1>3, <1>4, FreshRequest DEF Load, Ops, Moves
<1>5. CASE PressCreate(f)
  BY <1>1, <1>3, <1>5, FreshRequest DEF PressCreate, Ops, Moves
<1>6. CASE PressDetect(f)
  <2> DEFINE r == [Sent("detect") EXCEPT !.press = presses + 1]
  <2>1. presses + 1 \in 1..MaxPresses /\ presses + 1 \in 0..MaxPresses
    BY <1>1, <1>6, Bounds DEF PressDetect, TypeOK
  <2>2. r \in Request
    BY <1>2, <2>1 DEF Sent, Request, Ops
  <2>3. RequestSound(r)
    BY <1>2, <1>6, <2>1 DEF RequestSound, Sent, Moves, PressDetect
  <2> QED
    BY <1>3, <1>6, <2>2, <2>3 DEF PressDetect
<1>7. ASSUME NEW i \in DOMAIN items, NEW to \in States, NEW op \in Moves,
             IF op = "apply" THEN OffersApply(items[i].row) /\ to = "resolved"
                             ELSE Offers(items[i].row, to)
      PROVE  LET r == [Sent(op) EXCEPT !.id = items[i].id, !.to = to,
                                       !.seen = items[i].row] IN
             r \in Request /\ RequestSound(r)
  <2> DEFINE r == [Sent(op) EXCEPT !.id = items[i].id, !.to = to, !.seen = items[i].row]
  <2>1. items[i] \in Item /\ Known(items[i])
    BY <1>1 DEF TypeOK, IInv, ItemsKnown
  <2>2. items[i].id \in Ids /\ items[i].row \in Row
        /\ items[i] = [id |-> items[i].id, row |-> items[i].row]
    BY <2>1 DEF Item
  <2>3. /\ r.op = op /\ r.id = items[i].id /\ r.to = to /\ r.seen = items[i].row
        /\ r.press = 0 /\ r.waiting = TRUE /\ r.status = "sent" /\ r.answer = << >>
    BY DEF Sent
  <2>4. r \in Request
    <3>1. Sent(op) \in Request
      BY <1>2, Bounds DEF Sent, Request, Ops, Moves
    <3>2. ASSUME NEW q \in Request, NEW id \in Ids, NEW state \in States, NEW row \in Row
          PROVE  [q EXCEPT !.id = id, !.to = state, !.seen = row] \in Request
      BY DEF Request
    <3> QED
      BY <2>2, <3>1, <3>2
  <2> HIDE DEF r
  <2>5. Pressed(r)
    BY <1>7, <2>3 DEF Pressed
  <2>6. RequestSound(r)
    BY <1>2, <2>1, <2>2, <2>3, <2>5 DEF RequestSound, Moves
  <2> QED
    BY <2>4, <2>6 DEF r
<1>8. ASSUME NEW i \in DOMAIN items, NEW to \in States, PressTransition(f, i, to)
      PROVE  RequestsFine'
  BY <1>3, <1>7, <1>8 DEF PressTransition, Moves
<1>9. ASSUME NEW i \in DOMAIN items, PressApply(f, i)
      PROVE  RequestsFine'
  <2>1. "resolved" \in States
    BY DEF States, ConflictStates
  <2> QED
    BY <1>3, <1>7, <1>9, <2>1 DEF PressApply, Moves
<1> QED
  BY <1>4, <1>5, <1>6, <1>8, <1>9

------------------------------------------------------------------------------
\* A slot in use holds a request of which all of this holds.
LEMMA Pending ==
  ASSUME IInv, NEW f \in Slots, request[f] # Idle
  PROVE  request[f] \in Request /\ RequestSound(request[f])
BY DEF IInv, TypeOK, RequestsSound

\* Any answer of known rows may be put into a request that waits for one.
LEMMA AnswerFine ==
  ASSUME IInv, [Next]_vars, NEW f \in Slots, request[f] # Idle,
         NEW status \in {"done", "refused"}, NEW answer \in Seq(Item),
         \A i \in DOMAIN answer : Known(answer[i])',
         status = "done" /\ request[f].op # "list" => Len(answer) = 1,
         request[f].op = "list" => Distinct(answer),
         Answer(f, status, answer)
  PROVE  RequestsFine'
<1>1. PICK q \in Request : request[f] = q /\ RequestSound(q)
  BY Pending
<1>2. RequestSound(q)'
  BY <1>1, RequestStays
<1> DEFINE new == [q EXCEPT !.status = status, !.answer = answer]
<1>3. /\ new \in Request /\ new.op = q.op /\ new.press = q.press /\ new.id = q.id
      /\ new.seen = q.seen /\ new.to = q.to /\ new.status = status /\ new.answer = answer
  BY DEF Request
<1> HIDE DEF new
<1>4. Pressed(q)' => Pressed(new)'
  BY <1>3 DEF Pressed
<1>5. RequestSound(new)'
  BY <1>1, <1>2, <1>3, <1>4 DEF RequestSound, Distinct
<1>6. request' = [request EXCEPT ![f] = IF q.waiting THEN new ELSE Idle]
  BY <1>1 DEF Answer, new
<1> QED
  BY <1>3, <1>5, <1>6, SlotChanges

\* A refusal carries no rows.
LEMMA EmptyAnswer == << >> \in Seq(Item) /\ DOMAIN << >> = {} /\ Distinct(<< >>)
BY DEF Distinct

\* An answer of one row is a list.
LEMMA OneRow ==
  ASSUME NEW item \in Item
  PROVE  /\ <<item>> \in Seq(Item) /\ Len(<<item>>) = 1 /\ DOMAIN <<item>> = {1}
         /\ <<item>>[1] = item
OBVIOUS

\* A row as it is after the step is known from then on.
LEMMA KnownNow ==
  ASSUME IInv, [Next]_vars, NEW id \in Ids, table'[id] # Absent
  PROVE  /\ [id |-> id, row |-> table'[id]] \in Item
         /\ \A item \in Item : item = [id |-> id, row |-> table'[id]] => Known(item)'
<1>1. table'[id] \in Row
  BY TableMoves
<1>2. [id |-> id, row |-> table'[id]] \in Item
  BY <1>1 DEF Item
<1>3. ASSUME NEW item \in Item, item.id = id, item.row = table'[id]
      PROVE  Known(item)'
  BY <1>3 DEF Known, Descends
<1> QED
  BY <1>2, <1>3

\* The server answers with rows as they are at that moment.
LEMMA ServeFine ==
  ASSUME IInv, [Next]_vars, NEW f \in Slots,
         \/ ServeList(f) \/ ServeMove(f) \/ RefuseMove(f) \/ ReplayDetect(f)
         \/ \E id \in Ids : ServeCreate(f, id) \/ ServeDetect(f, id)
  PROVE  RequestsFine'
<1>1. request[f] # Idle /\ request[f] \in Request /\ RequestSound(request[f])
  BY Pending DEF ServeList, ServeMove, RefuseMove, ReplayDetect, ServeCreate,
                 ServeDetect, Received
<1>2. table \in [Ids -> Row \cup {Absent}] /\ filed \subseteq (1..MaxPresses) \X Ids
  BY DEF IInv, TypeOK
<1>3. ASSUME NEW id \in Ids, table'[id] # Absent, request[f].op # "list",
             NEW item, item = [id |-> id, row |-> table'[id]],
             Answer(f, "done", <<item>>)
      PROVE  RequestsFine'
  <2>1. item \in Item /\ Known(item)'
    BY <1>3, KnownNow
  <2>2. /\ <<item>> \in Seq(Item) /\ Len(<<item>>) = 1
        /\ \A i \in DOMAIN <<item>> : Known(<<item>>[i])'
    BY <2>1, OneRow
  <2> QED
    BY <1>1, <1>3, <2>2, AnswerFine
<1>4. CASE ServeList(f)
  <2>1. PICK list \in Listings : Answer(f, "done", list)
    BY <1>4 DEF ServeList
  <2>2. list \in Seq(Item) /\ Distinct(list) /\ \A i \in DOMAIN list : Known(list[i])
    BY <2>1, ListingsSound DEF IInv
  <2>3. \A i \in DOMAIN list : Known(list[i])'
    <3>1. \A i \in DOMAIN list : list[i] \in Item
      BY <2>2
    <3> QED
      BY <2>2, <3>1, KnownStays
  <2>4. request[f].op = "list"
    BY <1>4 DEF ServeList, Received
  <2> QED
    BY <1>1, <2>1, <2>2, <2>3, <2>4, AnswerFine
<1>5. CASE RefuseMove(f)
  <2>1. Answer(f, "refused", << >>) /\ request[f].op # "list"
    BY <1>5 DEF RefuseMove, Received
  <2> QED
    BY <1>1, <2>1, EmptyAnswer, AnswerFine
<1>6. CASE ServeMove(f)
  <2>1. request[f].id \in Ids /\ table[request[f].id] \in Row /\ request[f].op # "list"
    BY <1>6, ServedMove DEF ServeMove, Moves
  <2>2. table'[request[f].id] # Absent
    BY <2>1, MarksAssumption, TableMoves
  <2>3. Answer(f, "done", <<[id |-> request[f].id, row |-> table'[request[f].id]]>>)
    BY <1>6 DEF ServeMove
  <2> QED
    BY <1>3, <2>1, <2>2, <2>3
<1>7. ASSUME NEW id \in Ids, ServeCreate(f, id) \/ ServeDetect(f, id)
      PROVE  RequestsFine'
  <2>1. /\ [state |-> "draft", version |-> 1, author |-> "me"] \in Row
        /\ [state |-> "detected", version |-> 1, author |-> "other"] \in Row
    BY Bounds DEF Row, States, ProposalStates, ConflictStates
  <2>2. table'[id] \in Row
    BY <1>2, <1>7, <2>1 DEF ServeCreate, ServeDetect
  <2>3. table'[id] # Absent
    BY <2>2, MarksAssumption
  <2>4. Answer(f, "done", <<[id |-> id, row |-> table'[id]]>>) /\ request[f].op # "list"
    BY <1>7 DEF ServeCreate, ServeDetect, Received
  <2> QED
    BY <1>3, <2>3, <2>4
<1>8. CASE ReplayDetect(f)
  <2>1. PICK x \in filed : Answer(f, "done", <<Stored(x[2])>>)
    BY <1>8 DEF ReplayDetect, KeyUsed
  <2>2. x[2] \in Ids /\ table[x[2]] # Absent /\ table' = table
    BY <1>2, <1>8, <2>1 DEF IInv, FiledStored, ReplayDetect, server
  <2>3. Stored(x[2]) = [id |-> x[2], row |-> table'[x[2]]] /\ table'[x[2]] # Absent
    BY <2>2 DEF Stored
  <2>4. request[f].op # "list"
    BY <1>8 DEF ReplayDetect, Received
  <2> QED
    BY <1>3, <2>1, <2>2, <2>3, <2>4
<1> QED
  BY <1>4, <1>5, <1>6, <1>7, <1>8

\* The page's own steps: an answer read, given up, lost or asked for again.
LEMMA PageFine ==
  ASSUME IInv, [Next]_vars, NEW f \in Slots,
         Arrive(f) \/ ArriveError(f) \/ GiveUp(f) \/ Lost(f) \/ Resend(f)
  PROVE  RequestsFine'
<1>1. PICK q \in Request : request[f] = q /\ RequestSound(q)
  BY Pending DEF Arrive, ArriveError, GiveUp, Lost, Resend
<1>2. RequestSound(q)' /\ page' = page
  BY <1>1, RequestStays, Frame
<1>3. Sent("list") \in Request /\ RequestSound(Sent("list"))
  BY FreshRequest DEF IInv, Ops, Moves
<1>4. RequestSound(Sent("list"))'
  BY <1>3, RequestStays
<1>5. CASE Arrive(f) \/ ArriveError(f)
  <2>1. request' = [request EXCEPT ![f] = Sent("list")] \/ request' = [request EXCEPT ![f] = Idle]
    BY <1>5 DEF Arrive, ArriveError, Settle
  <2> QED
    BY <1>3, <1>4, <2>1, SlotChanges
<1>6. CASE GiveUp(f)
  <2> DEFINE new == [q EXCEPT !.waiting = FALSE]
  <2>1. /\ new \in Request /\ new.op = q.op /\ new.press = q.press /\ new.id = q.id
        /\ new.seen = q.seen /\ new.to = q.to /\ new.status = q.status
        /\ new.answer = q.answer
    BY DEF Request
  <2>2. request' = [request EXCEPT ![f] =
                      IF q.status = "sent" /\ q.op # "list" THEN new ELSE Idle]
    BY <1>1, <1>6 DEF GiveUp
  <2> HIDE DEF new
  <2>3. RequestSound(new)'
    BY <1>2, <2>1 DEF RequestSound, Pressed
  <2> QED
    BY <2>1, <2>2, <2>3, SlotChanges
<1>7. CASE Lost(f)
  <2>1. request' = [request EXCEPT ![f] = Idle]
    BY <1>7 DEF Lost
  <2> QED
    BY <2>1, SlotChanges
<1>8. CASE Resend(f)
  <2> DEFINE new == [q EXCEPT !.status = "sent", !.answer = << >>]
  <2>1. /\ new \in Request /\ new.op = q.op /\ new.press = q.press /\ new.id = q.id
        /\ new.seen = q.seen /\ new.to = q.to /\ new.status = "sent"
        /\ new.answer = << >>
    BY EmptyAnswer DEF Request
  <2>2. request' = [request EXCEPT ![f] = new]
    BY <1>1, <1>8 DEF Resend
  <2> HIDE DEF new
  <2>3. RequestSound(new)'
    BY <1>2, <2>1, EmptyAnswer DEF RequestSound, Pressed
  <2> QED
    BY <2>1, <2>2, <2>3, SlotChanges
<1> QED
  BY <1>5, <1>6, <1>7, <1>8

------------------------------------------------------------------------------
\* Every step leaves every request right.
LEMMA RequestsKept == ASSUME IInv, [Next]_vars PROVE RequestsFine'
<1>1. CASE UNCHANGED vars
  BY <1>1, RequestsStay DEF vars
<1>2. ASSUME NEW id \in Ids, NEW to \in States, Elsewhere(id, to)
      PROVE  RequestsFine'
  BY <1>2, RequestsStay DEF Elsewhere
<1>3. ASSUME NEW f \in Slots,
             \/ Load(f) \/ PressCreate(f) \/ PressDetect(f)
             \/ \E i \in DOMAIN items, to \in States : PressTransition(f, i, to)
             \/ \E i \in DOMAIN items : PressApply(f, i)
      PROVE  RequestsFine'
  BY <1>3, PressFine
<1>4. ASSUME NEW f \in Slots,
             \/ ServeList(f) \/ ServeMove(f) \/ RefuseMove(f) \/ ReplayDetect(f)
             \/ \E id \in Ids : ServeCreate(f, id) \/ ServeDetect(f, id)
      PROVE  RequestsFine'
  BY <1>4, ServeFine
<1>5. ASSUME NEW f \in Slots,
             Arrive(f) \/ ArriveError(f) \/ GiveUp(f) \/ Lost(f) \/ Resend(f)
      PROVE  RequestsFine'
  BY <1>5, PageFine
<1> QED
  BY <1>1, <1>2, <1>3, <1>4, <1>5 DEF Next

\* A list of known rows, each row once where the page promises it.
ItemsFine == items \in Seq(Item) /\ ItemsKnown /\ RowsAppearOnce

\* Every step leaves the page with copies of rows, conflicts once each.
LEMMA ItemsKept == ASSUME IInv, [Next]_vars PROVE ItemsFine'
<1>1. items \in Seq(Item) /\ ItemsKnown /\ RowsAppearOnce /\ page' = page
  BY Frame DEF IInv, TypeOK
<1>2. \A item \in Item : Known(item) => Known(item)'
  BY KnownStays
<1>3. ASSUME NEW new \in Seq(Item), \A i \in DOMAIN new : Known(new[i]),
             page = "conflicts" => Distinct(new), items' = new
      PROVE  ItemsFine'
  <2>1. \A i \in DOMAIN new : new[i] \in Item
    OBVIOUS
  <2>2. \A i \in DOMAIN items' : Known(items[i])'
    BY <1>2, <1>3, <2>1
  <2> QED
    BY <1>1, <1>3, <2>2 DEF ItemsFine, ItemsKnown, RowsAppearOnce, Distinct
<1>4. page = "conflicts" => Distinct(items)
  BY <1>1 DEF RowsAppearOnce, Distinct
<1>5. CASE items' = items
  BY <1>1, <1>3, <1>4, <1>5 DEF ItemsKnown
<1>6. ASSUME NEW f \in Slots, Arrive(f)
      PROVE  ItemsFine'
  <2>1. PICK r \in Request : request[f] = r /\ RequestSound(r) /\ r.status = "done"
    BY <1>6, Pending DEF Arrive
  <2>2. items' \in After(r)
    BY <1>6, <2>1 DEF Arrive
  <2>3. /\ r.answer \in Seq(Item) /\ r.op \in Ops
        /\ \A i \in DOMAIN r.answer : Known(r.answer[i])
        /\ r.op # "list" => Len(r.answer) = 1
        /\ r.op = "list" => Distinct(r.answer)
        /\ r.op = "create" => page = "proposals"
    BY <2>1 DEF RequestSound, Request
  <2>4. \A i \in DOMAIN items : Known(items[i])
    BY <1>1 DEF ItemsKnown
  <2>5. r.op # "list" => r.answer[1] \in Item /\ Known(r.answer[1])
    BY <2>3
  <2>6. CASE r.op = "list"
    BY <1>3, <2>2, <2>3, <2>6 DEF After
  <2>7. CASE r.op = "create"
    <3>1. items' = r.answer \o items
      BY <2>2, <2>7 DEF After
    <3>2. /\ r.answer \o items \in Seq(Item)
          /\ \A i \in DOMAIN (r.answer \o items) : Known((r.answer \o items)[i])
      <4>1. /\ r.answer \o items \in Seq(Item)
            /\ \A i \in DOMAIN (r.answer \o items) :
                 \/ \E j \in DOMAIN r.answer : (r.answer \o items)[i] = r.answer[j]
                 \/ \E j \in DOMAIN items : (r.answer \o items)[i] = items[j]
        BY <1>1, <2>3, ConcatRows
      <4> QED
        BY <2>3, <2>4, <4>1
    <3>3. page # "conflicts"
      BY <2>3, <2>7
    <3> QED
      BY <1>3, <3>1, <3>2, <3>3
  <2>8. CASE r.op = "detect"
    <3>1. PICK merged \in Merged(r.answer, items) : items' = merged
      BY <2>2, <2>8 DEF After
    <3>2. /\ merged \in Seq(Item)
          /\ \A i \in DOMAIN merged :
               merged[i] = r.answer[1] \/ \E k \in DOMAIN items : merged[i] = items[k]
          /\ Distinct(items) => Distinct(merged)
      BY <1>1, <2>3, <2>8, MergedSound
    <3> QED
      BY <1>3, <1>4, <2>4, <2>5, <2>8, <3>1, <3>2
  <2>9. CASE r.op = "transition"
    <3> DEFINE new == Replaced(r.answer[1], items)
    <3>1. items' = new
      BY <2>2, <2>9 DEF After
    <3>2. /\ new \in Seq(Item)
          /\ \A i \in DOMAIN new :
               new[i] = r.answer[1] \/ \E k \in DOMAIN items : new[i] = items[k]
          /\ Distinct(items) => Distinct(new)
      BY <1>1, <2>5, <2>9, ReplacedSound
    <3> HIDE DEF new
    <3> QED
      BY <1>3, <1>4, <2>4, <2>5, <2>9, <3>1, <3>2
  <2>10. CASE r.op = "apply"
    BY <1>5, <2>2, <2>10 DEF After
  <2> QED
    BY <2>3, <2>6, <2>7, <2>8, <2>9, <2>10 DEF Ops
<1> QED
  BY <1>5, <1>6, Frame

\* A detection is filed under the press of its request, with the row it stored.
LEMMA FiledStep ==
  ASSUME IInv, [Next]_vars
  PROVE  \/ filed' = filed
         \/ \E press \in 1..MaxPresses, id \in Ids :
              /\ filed' = filed \cup {<<press, id>>} /\ table'[id] # Absent
              /\ \A x \in filed : x[1] # press
<1>1. ASSUME NEW f \in Slots, NEW id \in Ids, ServeDetect(f, id)
      PROVE  /\ request[f].press \in 1..MaxPresses
             /\ filed' = filed \cup {<<request[f].press, id>>} /\ table'[id] # Absent
             /\ \A x \in filed : x[1] # request[f].press
  <2>1. request[f].press \in 1..MaxPresses
    BY <1>1, Pending DEF ServeDetect, Received, RequestSound
  <2>2. table' = [table EXCEPT ![id] =
                    [state |-> "detected", version |-> 1, author |-> "other"]]
        /\ filed' = filed \cup {<<request[f].press, id>>} /\ KeyUsed(f) = {}
    BY <1>1 DEF ServeDetect
  <2>3. [state |-> "detected", version |-> 1, author |-> "other"] \in Row
    BY Bounds DEF Row, States, ConflictStates
  <2>4. table'[id] # Absent
    BY <2>2, <2>3, MarksAssumption DEF IInv, TypeOK
  <2> QED
    BY <2>1, <2>2, <2>4 DEF KeyUsed
<1> QED
  BY <1>1, Frame

\* What is filed stays, and its conflict is never deleted.
LEMMA FiledKept ==
  ASSUME IInv, [Next]_vars
  PROVE  (filed \subseteq (1..MaxPresses) \X Ids)' /\ FiledStored'
<1>1. /\ filed \subseteq (1..MaxPresses) \X Ids /\ \A x \in filed : table[x[2]] # Absent
      /\ \A x \in filed : x[2] \in Ids
  BY DEF IInv, TypeOK, FiledStored
<1>2. \A x \in filed : table'[x[2]] # Absent
  BY <1>1, TableMoves
<1>3. CASE filed' = filed
  BY <1>1, <1>2, <1>3 DEF FiledStored
<1>4. CASE filed' # filed
  <2>1. PICK press \in 1..MaxPresses, id \in Ids :
          filed' = filed \cup {<<press, id>>} /\ table'[id] # Absent
    BY <1>4, FiledStep
  <2> QED
    BY <1>1, <1>2, <2>1 DEF FiledStored
<1> QED
  BY <1>3, <1>4

CountersFine == /\ loading \in BOOLEAN
                /\ presses \in 0..MaxPresses /\ resends \in 0..MaxResends

\* The spinner and the bounds.
LEMMA CountersKept == ASSUME IInv, [Next]_vars PROVE CountersFine'
<1>1. CountersFine
  BY DEF IInv, TypeOK, CountersFine
<1>2. CASE UNCHANGED vars
  BY <1>1, <1>2 DEF vars, CountersFine
<1>3. ASSUME NEW f \in Slots, Load(f) \/ PressCreate(f)
      PROVE  CountersFine'
  BY <1>1, <1>3 DEF Load, PressCreate, CountersFine
<1>4. ASSUME NEW f \in Slots, NEW i \in DOMAIN items, NEW to \in States,
             PressTransition(f, i, to)
      PROVE  CountersFine'
  BY <1>1, <1>4 DEF PressTransition, CountersFine
<1>5. ASSUME NEW f \in Slots, NEW i \in DOMAIN items, PressApply(f, i)
      PROVE  CountersFine'
  BY <1>1, <1>5 DEF PressApply, CountersFine
<1>6. ASSUME NEW f \in Slots, PressDetect(f)
      PROVE  CountersFine'
  BY <1>1, <1>6, Bounds DEF PressDetect, CountersFine
<1>7. ASSUME NEW f \in Slots, ServeList(f) \/ ServeMove(f) \/ RefuseMove(f) \/ ReplayDetect(f)
      PROVE  CountersFine'
  BY <1>1, <1>7 DEF ServeList, ServeMove, RefuseMove, ReplayDetect, CountersFine
<1>8. ASSUME NEW f \in Slots, NEW id \in Ids, ServeCreate(f, id) \/ ServeDetect(f, id)
      PROVE  CountersFine'
  BY <1>1, <1>8 DEF ServeCreate, ServeDetect, CountersFine
<1>9. ASSUME NEW id \in Ids, NEW to \in States, Elsewhere(id, to)
      PROVE  CountersFine'
  BY <1>1, <1>9 DEF Elsewhere, CountersFine
<1>10. ASSUME NEW f \in Slots, Arrive(f) \/ ArriveError(f) \/ GiveUp(f) \/ Lost(f)
       PROVE  CountersFine'
  BY <1>1, <1>10 DEF Arrive, ArriveError, Settle, GiveUp, Lost, CountersFine
<1>11. ASSUME NEW f \in Slots, Resend(f)
       PROVE  CountersFine'
  BY <1>1, <1>11, Bounds DEF Resend, CountersFine
<1> QED
  BY <1>2, <1>3, <1>4, <1>5, <1>6, <1>7, <1>8, <1>9, <1>10, <1>11 DEF Next

\* A page that has just been opened shows nothing and asks for nothing.
LEMMA InitIInv == Init => IInv
<1> SUFFICES ASSUME Init PROVE IInv
  OBVIOUS
<1>1. \A first \in FirstRows : first \in Row
  BY Bounds DEF FirstRows, Row, States
<1>2. table \in [Ids -> Row \cup {Absent}]
  BY <1>1 DEF Init
<1>3. TypeOK
  <2>1. request \in [Slots -> {Idle} \cup Request] /\ items \in Seq(Item)
    BY EmptyAnswer DEF Init
  <2>2. presses \in 0..MaxPresses /\ resends \in 0..MaxResends
    BY Bounds DEF Init
  <2>3. filed \subseteq (1..MaxPresses) \X Ids
    BY DEF Init
  <2> QED
    BY <1>2, <2>1, <2>2, <2>3 DEF Init, TypeOK
<1>4. DOMAIN items = {} /\ filed = {} /\ \A f \in Slots : request[f] = Idle
  BY EmptyAnswer DEF Init
<1> QED
  BY <1>3, <1>4 DEF IInv, FiledStored, ItemsKnown, RowsAppearOnce, RequestsSound

\* Every step keeps the whole of it.
LEMMA NextIInv == ASSUME IInv, [Next]_vars PROVE IInv'
<1>1. /\ page' = page /\ role' = role /\ table' \in [Ids -> Row \cup {Absent}]
      /\ page \in {"proposals", "conflicts"} /\ role \in UserRoles
  BY Frame, TableMoves DEF IInv, TypeOK
<1>2. RequestsFine' /\ ItemsFine' /\ CountersFine'
  BY RequestsKept, ItemsKept, CountersKept
<1>3. (filed \subseteq (1..MaxPresses) \X Ids)' /\ FiledStored'
  BY FiledKept
<1> QED
  BY <1>1, <1>2, <1>3 DEF IInv, TypeOK, RequestsFine, ItemsFine, CountersFine

\* The page's copies and requests are always about rows that exist and have only
\* moved on since.
THEOREM IInvHolds == Spec => []IInv
BY InitIInv, NextIInv, PTL DEF Spec

------------------------------------------------------------------------------
Spins(f) == request[f] # Idle /\ request[f].op = "list" /\ request[f].waiting

\* A list that is waited for is waited for until the spinner is cleared.
LEMMA SpinStays ==
  ASSUME IInv, [Next]_vars, NEW g \in Slots, Spins(g)
  PROVE  Spins(g)' \/ loading' = FALSE
<1>1. request \in [Slots -> {Idle} \cup Request] /\ Idle \notin Request
  BY MarksAssumption DEF IInv, TypeOK
<1>2. request[g] \in Request /\ request[g] # Idle /\ request[g].op = "list" /\ request[g].waiting
  BY <1>1 DEF Spins
<1>3. CASE request'[g] = request[g]
  BY <1>2, <1>3 DEF Spins
<1>4. ASSUME NEW f \in Slots, NEW r, Send(f, r)
      PROVE  request'[g] = request[g]
  BY <1>1, <1>2, <1>4 DEF Send
<1>5. ASSUME NEW f \in Slots, NEW status \in {"done", "refused"}, NEW answer \in Seq(Item),
             Answer(f, status, answer)
      PROVE  Spins(g)'
  <2>1. CASE f # g
    <3>1. request'[g] = request[g]
      BY <1>1, <1>5, <2>1 DEF Answer
    <3> QED
      BY <1>3, <3>1 DEF Spins
  <2>2. CASE f = g
    <3> DEFINE new == [request[g] EXCEPT !.status = status, !.answer = answer]
    <3>1. request'[g] = new
      BY <1>1, <1>2, <1>5, <2>2 DEF Answer
    <3>2. new \in Request /\ new.op = "list" /\ new.waiting
      BY <1>2 DEF Request
    <3> QED
      BY <1>1, <3>1, <3>2 DEF Spins
  <2> QED
    BY <2>1, <2>2
<1>6. ASSUME NEW f \in Slots,
             \/ Load(f) \/ PressCreate(f) \/ PressDetect(f)
             \/ \E i \in DOMAIN items, to \in States : PressTransition(f, i, to)
             \/ \E i \in DOMAIN items : PressApply(f, i)
      PROVE  request'[g] = request[g]
  BY <1>4, <1>6 DEF Load, PressCreate, PressDetect, PressTransition, PressApply
<1>7. ASSUME NEW f \in Slots,
             \/ ServeList(f) \/ ServeMove(f) \/ RefuseMove(f) \/ ReplayDetect(f)
             \/ \E id \in Ids : ServeCreate(f, id) \/ ServeDetect(f, id)
      PROVE  Spins(g)'
  <2>1. CASE f # g
    <3>1. request'[g] = request[g]
      BY <1>1, <1>7, <2>1 DEF ServeList, ServeMove, RefuseMove, ReplayDetect, ServeCreate,
                              ServeDetect, Answer
    <3> QED
      BY <1>3, <3>1 DEF Spins
  <2>2. CASE f = g
    <3>1. ServeList(g)
      BY <1>2, <1>7, <2>2 DEF ServeMove, RefuseMove, ReplayDetect, ServeCreate, ServeDetect,
                              Received
    <3>2. PICK list \in Listings : Answer(g, "done", list)
      BY <3>1 DEF ServeList
    <3>3. list \in Seq(Item)
      BY <3>2, ListingsSound DEF IInv
    <3> QED
      BY <1>5, <3>2, <3>3
  <2> QED
    BY <2>1, <2>2
<1>8. ASSUME NEW f \in Slots, Arrive(f) \/ ArriveError(f) \/ GiveUp(f)
      PROVE  request'[g] = request[g] \/ loading' = FALSE
  <2>1. CASE f # g
    BY <1>1, <1>8, <2>1 DEF Arrive, ArriveError, GiveUp, Settle
  <2>2. CASE f = g
    BY <1>2, <1>8, <2>2 DEF Arrive, ArriveError, GiveUp, Settle, Reloads
  <2> QED
    BY <2>1, <2>2
<1>9. ASSUME NEW f \in Slots, Lost(f) \/ Resend(f)
      PROVE  request'[g] = request[g]
  BY <1>1, <1>2, <1>9 DEF Lost, Resend
<1>10. ASSUME NEW id \in Ids, NEW to \in States, Elsewhere(id, to)
       PROVE  request'[g] = request[g]
  BY <1>10 DEF Elsewhere
<1>11. CASE UNCHANGED vars
  BY <1>3, <1>11 DEF vars, Spins
<1> QED
  BY <1>3, <1>6, <1>7, <1>8, <1>9, <1>10, <1>11 DEF Next

\* A spinner that a step starts stands for the list that step asked for.
LEMMA SpinStarts ==
  ASSUME IInv, [Next]_vars, loading = FALSE, loading' = TRUE
  PROVE  \E f \in Slots : Spins(f)'
<1>1. request \in [Slots -> {Idle} \cup Request] /\ Idle \notin Request
  BY MarksAssumption DEF IInv, TypeOK
<1>2. Sent("list") \in Request /\ Sent("list").op = "list" /\ Sent("list").waiting
  BY FreshRequest DEF IInv, Ops, Moves, Sent
<1>3. ASSUME NEW f \in Slots, request' = [request EXCEPT ![f] = Sent("list")]
      PROVE  Spins(f)'
  BY <1>1, <1>2, <1>3 DEF Spins
<1>4. ASSUME NEW f \in Slots, Load(f) \/ Arrive(f)
      PROVE  Spins(f)'
  <2>1. CASE Load(f)
    BY <1>3, <2>1 DEF Load, Send
  <2>2. CASE Arrive(f)
    <3>1. Reloads(request[f])
      BY <2>2 DEF Arrive, Settle
    <3> QED
      BY <1>3, <2>2, <3>1 DEF Arrive, Settle
  <2> QED
    BY <1>4, <2>1, <2>2
<1>5. ASSUME NEW f \in Slots, ArriveError(f) \/ GiveUp(f)
      PROVE  FALSE
  BY <1>5 DEF ArriveError, Settle, GiveUp
<1>6. ASSUME NEW f \in Slots,
             \/ PressCreate(f) \/ PressDetect(f) \/ ServeList(f) \/ ServeMove(f)
             \/ RefuseMove(f) \/ ReplayDetect(f) \/ Lost(f) \/ Resend(f)
             \/ \E id \in Ids : ServeCreate(f, id) \/ ServeDetect(f, id)
             \/ \E i \in DOMAIN items, to \in States : PressTransition(f, i, to)
             \/ \E i \in DOMAIN items : PressApply(f, i)
      PROVE  FALSE
  BY <1>6 DEF PressCreate, PressDetect, ServeList, ServeMove, RefuseMove, ReplayDetect,
              Lost, Resend, ServeCreate, ServeDetect, PressTransition, PressApply
<1>7. ASSUME NEW id \in Ids, NEW to \in States, Elsewhere(id, to)
      PROVE  FALSE
  BY <1>7 DEF Elsewhere
<1>8. CASE UNCHANGED vars
  BY <1>8 DEF vars
<1> QED
  BY <1>4, <1>5, <1>6, <1>7, <1>8 DEF Next

\* A spinner that was right before a step is right after it.
LEMMA SpinnerKept ==
  ASSUME IInv, SpinnerStops, [Next]_vars
  PROVE  SpinnerStops'
<1>1. loading \in BOOLEAN /\ (loading => \E f \in Slots : Spins(f))
  BY DEF IInv, TypeOK, SpinnerStops, Spins
<1>2. loading' => \E f \in Slots : Spins(f)'
  BY <1>1, SpinStays, SpinStarts, CountersKept DEF CountersFine
<1> QED
  BY <1>2 DEF SpinnerStops, Spins

\* The page shows each conflict once, shows rows of the types it knows, and
\* spins only while a list is under way (stores of proposals and conflicts).
THEOREM PageSoundness == Spec => []PageSound
<1>1. Init => SpinnerStops
  BY DEF Init, SpinnerStops
<1>2. IInv /\ SpinnerStops /\ [Next]_vars => SpinnerStops'
  BY SpinnerKept
<1>3. IInv /\ SpinnerStops => PageSound
  BY DEF IInv, PageSound
<1> QED
  BY <1>1, <1>2, <1>3, IInvHolds, PTL DEF Spec

\* One press of the detect button stores at most one detection, sent again or
\* not (newIdempotencyKey of the conflicts page).
THEOREM SinglePress == Spec => []OneRunPerPress
<1>1. Init => OneRunPerPress
  BY DEF Init, OneRunPerPress
<1>2. IInv /\ OneRunPerPress /\ [Next]_vars => OneRunPerPress'
  <2> SUFFICES ASSUME IInv, OneRunPerPress, [Next]_vars PROVE OneRunPerPress'
    OBVIOUS
  <2>1. CASE filed' = filed
    BY <2>1 DEF OneRunPerPress
  <2>2. CASE filed' # filed
    <3>1. PICK press \in 1..MaxPresses, id \in Ids :
            filed' = filed \cup {<<press, id>>} /\ \A x \in filed : x[1] # press
      BY <2>2, FiledStep
    <3> QED
      BY <3>1 DEF OneRunPerPress
  <2> QED
    BY <2>1, <2>2
<1> QED
  BY <1>1, <1>2, IInvHolds, PTL DEF Spec

------------------------------------------------------------------------------
\* A target that a row offered and the server lets the stored row take is
\* reached from one state only, or from two no conflict goes through both.
LEMMA SameState ==
  ASSUME IInv, NEW f \in Slots, ServeMove(f)
  PROVE  table[request[f].id].state = request[f].seen.state
<1> DEFINE r == request[f]
<1>1. /\ Pressed(r) /\ Takes(f) /\ r.op \in Moves
      /\ Descends(r.seen.state, table[r.id].state)
  BY ServedMove DEF ServeMove, Moves
<1>2. CASE page = "proposals"
  <2>1. CanProposalTransition(r.seen.state, r.to) /\ CanProposalTransition(table[r.id].state, r.to)
    BY <1>1, <1>2 DEF Pressed, Offers, OffersApply, Takes, Allows
  <2> QED
    BY <2>1 DEF CanProposalTransition, ProposalTransitions
<1>3. CASE page = "conflicts"
  <2>1. CanConflictTransition(r.seen.state, r.to) /\ CanConflictTransition(table[r.id].state, r.to)
    BY <1>1, <1>3 DEF Pressed, Offers, OffersApply, Takes, Allows, CanConflictTransition,
                      ConflictTransitions
  <2> QED
    BY <1>1, <1>3, <2>1 DEF CanConflictTransition, ConflictTransitions, Descends
<1> QED
  BY <1>2, <1>3 DEF IInv, TypeOK

\* Whatever the server does for a button, it does to a row in the state that
\* button was shown for.
THEOREM SeenState == Spec => ActsOnSeenState
<1>1. IInv /\ [Next]_vars =>
        [\A f \in Slots : ServeMove(f) => table[request[f].id].state = request[f].seen.state]_vars
  BY SameState
<1> QED
  BY <1>1, IInvHolds, PTL DEF Spec, ActsOnSeenState

\* canTransition of ProposalsPage.vue and the buttons of ConflictsPage.vue ask
\* for what the server allows on the same row, but for an administrator's own
\* proposal.
LEMMA Explained ==
  ASSUME IInv, NEW f \in Slots, RefuseMove(f)
  PROVE  LET r == request[f] IN
           \/ table[r.id] # r.seen
           \/ role = "admin" /\ r.seen.author = "me" /\ r.to \in ReviewTargets
<1> DEFINE r == request[f]
<1> SUFFICES ASSUME table[r.id] = r.seen
             PROVE  role = "admin" /\ r.seen.author = "me" /\ r.to \in ReviewTargets
  OBVIOUS
<1>1. /\ Pressed(r) /\ r.op \in Moves /\ ~ Allows(r.seen, r.to)
      /\ r.seen.author \in {"me", "other"}
  BY ServedMove DEF RefuseMove, Takes, Moves, Row
<1>2. CASE page = "conflicts"
  BY <1>1, <1>2 DEF Pressed, Offers, OffersApply, Allows, HasRole, RouteRoles, Reviewers,
                    CanConflictTransition, ConflictTransitions
<1>3. CASE page = "proposals"
  <2>1. CanProposalTransition(r.seen.state, r.to) /\ CanTransition(r.seen, r.to)
    BY <1>1, <1>3 DEF Pressed, Offers, OffersApply
  <2>2. HasRole(RouteRoles["transitionProposal"])
    BY <2>1 DEF CanTransition, HasRole, RouteRoles, Authors
  <2>3. r.to \notin AuthoringTargets
    BY <1>1, <1>3, <2>1, <2>2 DEF Allows, CanTransition, HasRole
  <2>4. r.to \in ReviewTargets
    BY <2>1, <2>3, Targets DEF AuthoringTargets
  <2> QED
    BY <1>1, <1>3, <2>1, <2>2, <2>3, <2>4 DEF Allows, CanTransition, HasRole, Reviewers
<1> QED
  BY <1>2, <1>3 DEF IInv, TypeOK

\* A button the server turns down was pressed on an old copy, or by an
\* administrator on a proposal of their own.
THEOREM Refusals == Spec => RefusalsAreExplained
<1>1. IInv /\ [Next]_vars =>
        [\A f \in Slots : RefuseMove(f) =>
           LET r == request[f] IN
             \/ table[r.id] # r.seen
             \/ role = "admin" /\ r.seen.author = "me" /\ r.to \in ReviewTargets]_vars
  BY Explained
<1> QED
  BY <1>1, IInvHolds, PTL DEF Spec, RefusalsAreExplained
==============================================================================
