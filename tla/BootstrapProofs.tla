--------------------------- MODULE BootstrapProofs ---------------------------
(***************************************************************************)
(* Proofs about Bootstrap, for any number of servers that start, crash and *)
(* serve at the same time, and any lists of tables and demo accounts; and, *)
(* from then on, about the rows of one table (Parcels).                    *)
(***************************************************************************)
EXTENDS Bootstrap, Parcels, SequenceTheorems, TLAPS

Ops == {"autoMigrate", "dropCheck", "addCheck", "spatial", "dropTrigger",
        "createTrigger", "backfill", "find", "create"}
Statement ==
  [op : Ops] \cup [op : Ops, on : ToSet(Tables) \cup ToSet(Seeds)]

\* Where the triggers, the backfills and the accounts of the list end.
Triggered == 4 + 2 * Len(Tables)
Backfilled == Triggered + Len(Tables)
Ending == Backfilled + 2 * Len(Seeds)

------------------------------------------------------------------------------
\* What the list helpers build, element by element.
LEMMA EachElement ==
  ASSUME NEW X, NEW list \in Seq(X), NEW op \in Ops
  PROVE  /\ Each(op, list) \in Seq([op : Ops, on : X])
         /\ Len(Each(op, list)) = Len(list)
         /\ \A i \in 1..Len(list) : Each(op, list)[i] = [op |-> op, on |-> list[i]]
<1>1. \A i \in 1..Len(list) : [op |-> op, on |-> list[i]] \in [op : Ops, on : X]
  OBVIOUS
<1>2. Len(list) \in Nat
  OBVIOUS
<1> QED
  BY <1>1, <1>2 DEF Each

LEMMA PairsElement ==
  ASSUME NEW X, NEW list \in Seq(X), NEW op1 \in Ops, NEW op2 \in Ops
  PROVE  /\ Pairs(op1, op2, list) \in Seq([op : Ops, on : X])
         /\ Len(Pairs(op1, op2, list)) = 2 * Len(list)
         /\ \A i \in 1..(2 * Len(list)) :
              \E n \in 1..Len(list) :
                \/ /\ i = 2 * n - 1
                   /\ Pairs(op1, op2, list)[i] = [op |-> op1, on |-> list[n]]
                \/ /\ i = 2 * n
                   /\ Pairs(op1, op2, list)[i] = [op |-> op2, on |-> list[n]]
<1>1. Len(list) \in Nat /\ 2 * Len(list) \in Nat
  OBVIOUS
<1>2. ASSUME NEW i \in 1..(2 * Len(list))
      PROVE  LET n == (i + 1) \div 2 IN
             /\ n \in 1..Len(list)
             /\ i % 2 = 1 => i = 2 * n - 1
             /\ i % 2 # 1 => i = 2 * n
  BY <1>1
<1>3. \A i \in 1..(2 * Len(list)) :
        /\ (i + 1) \div 2 \in 1..Len(list)
        /\ list[(i + 1) \div 2] \in X
  BY <1>2
<1>4. Pairs(op1, op2, list) \in [1..(2 * Len(list)) -> [op : Ops, on : X]]
  BY <1>3 DEF Pairs
<1>5. ASSUME NEW i \in 1..(2 * Len(list))
      PROVE  LET n == (i + 1) \div 2 IN
             Pairs(op1, op2, list)[i] =
               [op |-> IF i % 2 = 1 THEN op1 ELSE op2, on |-> list[n]]
  BY DEF Pairs
<1>6. ASSUME NEW i \in 1..(2 * Len(list))
      PROVE  \E n \in 1..Len(list) :
                \/ /\ i = 2 * n - 1
                   /\ Pairs(op1, op2, list)[i] = [op |-> op1, on |-> list[n]]
                \/ /\ i = 2 * n
                   /\ Pairs(op1, op2, list)[i] = [op |-> op2, on |-> list[n]]
  <2> DEFINE n == (i + 1) \div 2
  <2>1. n \in 1..Len(list)
    BY <1>2
  <2>2. CASE i % 2 = 1
    <3>1. i = 2 * n - 1
      BY <1>2, <2>2
    <3>2. Pairs(op1, op2, list)[i] = [op |-> op1, on |-> list[n]]
      BY <1>5, <2>2
    <3> HIDE DEF n
    <3> QED
      BY <2>1, <3>1, <3>2
  <2>3. CASE i % 2 # 1
    <3>1. i = 2 * n
      BY <1>2, <2>3
    <3>2. Pairs(op1, op2, list)[i] = [op |-> op2, on |-> list[n]]
      BY <1>5, <2>3
    <3> HIDE DEF n
    <3> QED
      BY <2>1, <3>1, <3>2
  <2> QED
    BY <2>2, <2>3
<1>7. Pairs(op1, op2, list) \in Seq([op : Ops, on : X])
      /\ Len(Pairs(op1, op2, list)) = 2 * Len(list)
  <2> DEFINE f == Pairs(op1, op2, list)  m == 2 * Len(list)
             S == [op : Ops, on : X]
  <2>1. m \in Nat /\ f \in [1..m -> S]
    BY <1>1, <1>4
  <2> HIDE DEF f, m, S
  <2>2. f \in Seq(S) /\ Len(f) = m
    BY <2>1
  <2> QED
    BY <2>2 DEF f, m, S
<1> QED
  BY <1>6, <1>7

\* Which statement stands where, read from the list.
LEMMA StatementKinds ==
  /\ Len(Statements) = Ending
  /\ Triggered \in Nat /\ Backfilled \in Nat /\ Ending \in Nat
  /\ \A p \in 1..Ending :
       \/ p = 1 /\ Statements[p] = [op |-> "autoMigrate"]
       \/ p = 2 /\ Statements[p] = [op |-> "dropCheck"]
       \/ p = 3 /\ Statements[p] = [op |-> "addCheck"]
       \/ p = 4 /\ Statements[p] = [op |-> "spatial"]
       \/ \E i \in 1..Len(Tables) :
            \/ /\ p = 3 + 2 * i
               /\ Statements[p] = [op |-> "dropTrigger", on |-> Tables[i]]
            \/ /\ p = 4 + 2 * i
               /\ Statements[p] = [op |-> "createTrigger", on |-> Tables[i]]
            \/ /\ p = Triggered + i
               /\ Statements[p] = [op |-> "backfill", on |-> Tables[i]]
       \/ \E i \in 1..Len(Seeds) :
            \/ /\ p = Backfilled + 2 * i - 1
               /\ Statements[p] = [op |-> "find", on |-> Seeds[i]]
            \/ /\ p = Backfilled + 2 * i
               /\ Statements[p] = [op |-> "create", on |-> Seeds[i]]
<1> DEFINE first == <<[op |-> "autoMigrate"], [op |-> "dropCheck"],
                      [op |-> "addCheck"], [op |-> "spatial"]>>
           triggers == Pairs("dropTrigger", "createTrigger", Tables)
           backfills == Each("backfill", Tables)
           accounts == Pairs("find", "create", Seeds)
<1>1. Tables \in Seq(ToSet(Tables)) /\ Seeds \in Seq(ToSet(Seeds))
  BY ListsAssumption
<1>2. Len(Tables) \in Nat /\ Len(Seeds) \in Nat
  BY <1>1
<1>3. /\ first \in Seq(Statement) /\ Len(first) = 4
      /\ first[1] = [op |-> "autoMigrate"] /\ first[2] = [op |-> "dropCheck"]
      /\ first[3] = [op |-> "addCheck"] /\ first[4] = [op |-> "spatial"]
  <2>1. /\ [op |-> "autoMigrate"] \in [op : Ops] /\ [op |-> "dropCheck"] \in [op : Ops]
        /\ [op |-> "addCheck"] \in [op : Ops] /\ [op |-> "spatial"] \in [op : Ops]
    BY DEF Ops
  <2>2. ASSUME NEW S, NEW a \in S, NEW b \in S, NEW c \in S, NEW d \in S
        PROVE  /\ <<a, b, c, d>> \in Seq(S) /\ Len(<<a, b, c, d>>) = 4
               /\ <<a, b, c, d>>[1] = a /\ <<a, b, c, d>>[2] = b
               /\ <<a, b, c, d>>[3] = c /\ <<a, b, c, d>>[4] = d
    OBVIOUS
  <2>3. [op : Ops] \subseteq Statement
    BY DEF Statement
  <2> QED
    BY <2>1, <2>2, <2>3
<1>4. ASSUME NEW X, NEW Y, X \subseteq Y, NEW s \in Seq(X)
      PROVE  s \in Seq(Y)
  BY <1>4
<1>5. /\ [op : Ops, on : ToSet(Tables)] \subseteq Statement
      /\ [op : Ops, on : ToSet(Seeds)] \subseteq Statement
  BY DEF Statement
<1>6. /\ triggers \in Seq(Statement) /\ Len(triggers) = 2 * Len(Tables)
      /\ \A i \in 1..(2 * Len(Tables)) : \E n \in 1..Len(Tables) :
           \/ i = 2 * n - 1 /\ triggers[i] = [op |-> "dropTrigger", on |-> Tables[n]]
           \/ i = 2 * n /\ triggers[i] = [op |-> "createTrigger", on |-> Tables[n]]
  <2>1. "dropTrigger" \in Ops /\ "createTrigger" \in Ops
    BY DEF Ops
  <2>2. /\ triggers \in Seq([op : Ops, on : ToSet(Tables)])
        /\ Len(triggers) = 2 * Len(Tables)
        /\ \A i \in 1..(2 * Len(Tables)) : \E n \in 1..Len(Tables) :
             \/ i = 2 * n - 1 /\ triggers[i] = [op |-> "dropTrigger", on |-> Tables[n]]
             \/ i = 2 * n /\ triggers[i] = [op |-> "createTrigger", on |-> Tables[n]]
    BY <1>1, <2>1, PairsElement, ZenonT(60)
  <2> QED
    BY <1>4, <1>5, <2>2, Zenon
<1>7. /\ backfills \in Seq(Statement) /\ Len(backfills) = Len(Tables)
      /\ \A i \in 1..Len(Tables) : backfills[i] = [op |-> "backfill", on |-> Tables[i]]
  <2>1. "backfill" \in Ops
    BY DEF Ops
  <2>2. /\ backfills \in Seq([op : Ops, on : ToSet(Tables)])
        /\ Len(backfills) = Len(Tables)
        /\ \A i \in 1..Len(Tables) : backfills[i] = [op |-> "backfill", on |-> Tables[i]]
    BY <1>1, <2>1, EachElement, Zenon
  <2> QED
    BY <1>4, <1>5, <2>2, Zenon
<1>8. /\ accounts \in Seq(Statement) /\ Len(accounts) = 2 * Len(Seeds)
      /\ \A i \in 1..(2 * Len(Seeds)) : \E n \in 1..Len(Seeds) :
           \/ i = 2 * n - 1 /\ accounts[i] = [op |-> "find", on |-> Seeds[n]]
           \/ i = 2 * n /\ accounts[i] = [op |-> "create", on |-> Seeds[n]]
  <2>1. "find" \in Ops /\ "create" \in Ops
    BY DEF Ops
  <2>2. /\ accounts \in Seq([op : Ops, on : ToSet(Seeds)])
        /\ Len(accounts) = 2 * Len(Seeds)
        /\ \A i \in 1..(2 * Len(Seeds)) : \E n \in 1..Len(Seeds) :
             \/ i = 2 * n - 1 /\ accounts[i] = [op |-> "find", on |-> Seeds[n]]
             \/ i = 2 * n /\ accounts[i] = [op |-> "create", on |-> Seeds[n]]
    BY <1>1, <2>1, PairsElement, ZenonT(60)
  <2> QED
    BY <1>4, <1>5, <2>2, Zenon
<1>9. Statements = ((first \o triggers) \o backfills) \o accounts
  BY DEF Statements
<1>10. ASSUME NEW S, NEW a \in Seq(S), NEW b \in Seq(S)
       PROVE  /\ a \o b \in Seq(S) /\ Len(a \o b) = Len(a) + Len(b)
              /\ Len(a) \in Nat /\ Len(b) \in Nat
              /\ \A i \in 1..Len(a) : (a \o b)[i] = a[i]
              /\ \A i \in 1..Len(b) : (a \o b)[Len(a) + i] = b[i]
  OBVIOUS
<1> HIDE DEF first, triggers, backfills, accounts
<1>11. /\ first \o triggers \in Seq(Statement)
       /\ Len(first \o triggers) = Triggered
       /\ \A i \in 1..4 : (first \o triggers)[i] = first[i]
       /\ \A i \in 1..(2 * Len(Tables)) : (first \o triggers)[4 + i] = triggers[i]
  <2>0. first \in Seq(Statement) /\ triggers \in Seq(Statement)
    BY <1>3, <1>6
  <2>1. /\ first \o triggers \in Seq(Statement)
        /\ Len(first \o triggers) = Len(first) + Len(triggers)
        /\ \A i \in 1..Len(first) : (first \o triggers)[i] = first[i]
        /\ \A i \in 1..Len(triggers) : (first \o triggers)[Len(first) + i] = triggers[i]
    BY <1>10, <2>0
  <2> QED
    BY <1>3, <1>6, <2>1 DEF Triggered
<1>12. /\ (first \o triggers) \o backfills \in Seq(Statement)
       /\ Len((first \o triggers) \o backfills) = Backfilled
       /\ \A i \in 1..Triggered :
            ((first \o triggers) \o backfills)[i] = (first \o triggers)[i]
       /\ \A i \in 1..Len(Tables) :
            ((first \o triggers) \o backfills)[Triggered + i] = backfills[i]
  <2> DEFINE a == first \o triggers
  <2>1. a \in Seq(Statement) /\ Len(a) = Triggered
    BY <1>11
  <2>2. backfills \in Seq(Statement) /\ Len(backfills) = Len(Tables)
    BY <1>7
  <2> HIDE DEF a
  <2>3. /\ a \o backfills \in Seq(Statement)
        /\ Len(a \o backfills) = Len(a) + Len(backfills)
        /\ \A i \in 1..Len(a) : (a \o backfills)[i] = a[i]
        /\ \A i \in 1..Len(backfills) : (a \o backfills)[Len(a) + i] = backfills[i]
    <3>1. a \in Seq(Statement) /\ backfills \in Seq(Statement)
      BY <2>1, <2>2
    <3> QED
      BY <1>10, <3>1
  <2>4. /\ a \o backfills \in Seq(Statement)
        /\ Len(a \o backfills) = Backfilled
        /\ \A i \in 1..Triggered : (a \o backfills)[i] = a[i]
        /\ \A i \in 1..Len(Tables) : (a \o backfills)[Triggered + i] = backfills[i]
    BY <2>1, <2>2, <2>3 DEF Backfilled
  <2> QED
    BY <2>4 DEF a
<1>13. /\ Len(Statements) = Ending
       /\ \A i \in 1..Backfilled :
            Statements[i] = ((first \o triggers) \o backfills)[i]
       /\ \A i \in 1..(2 * Len(Seeds)) : Statements[Backfilled + i] = accounts[i]
  <2> DEFINE a == (first \o triggers) \o backfills
  <2>1. a \in Seq(Statement) /\ Len(a) = Backfilled
    BY <1>12
  <2>2. accounts \in Seq(Statement) /\ Len(accounts) = 2 * Len(Seeds)
    BY <1>8
  <2>3. Statements = a \o accounts
    BY <1>9
  <2> HIDE DEF a
  <2>4. /\ Len(a \o accounts) = Len(a) + Len(accounts)
        /\ \A i \in 1..Len(a) : (a \o accounts)[i] = a[i]
        /\ \A i \in 1..Len(accounts) : (a \o accounts)[Len(a) + i] = accounts[i]
    <3>1. a \in Seq(Statement) /\ accounts \in Seq(Statement)
      BY <2>1, <2>2
    <3> QED
      BY <1>10, <3>1
  <2>5. /\ Len(Statements) = Ending
        /\ \A i \in 1..Backfilled : Statements[i] = a[i]
        /\ \A i \in 1..(2 * Len(Seeds)) : Statements[Backfilled + i] = accounts[i]
    BY <2>1, <2>2, <2>3, <2>4 DEF Ending
  <2> QED
    BY <2>5 DEF a
<1>14. /\ Triggered \in Nat /\ Backfilled \in Nat /\ Ending \in Nat
       /\ Triggered = 4 + 2 * Len(Tables) /\ Backfilled = Triggered + Len(Tables)
       /\ Ending = Backfilled + 2 * Len(Seeds)
  BY <1>2 DEF Triggered, Backfilled, Ending
<1>15. ASSUME NEW p \in 1..4
       PROVE  \/ p = 1 /\ Statements[p] = [op |-> "autoMigrate"]
              \/ p = 2 /\ Statements[p] = [op |-> "dropCheck"]
              \/ p = 3 /\ Statements[p] = [op |-> "addCheck"]
              \/ p = 4 /\ Statements[p] = [op |-> "spatial"]
  <2>1. Statements[p] = first[p]
    <3>1. p \in 1..Triggered /\ p \in 1..Backfilled
      BY <1>2, <1>14
    <3> QED
      BY <1>11, <1>12, <1>13, <3>1
  <2> QED
    BY <1>3, <2>1
<1>16. ASSUME NEW p \in 5..Triggered
       PROVE  \E i \in 1..Len(Tables) :
                \/ /\ p = 3 + 2 * i
                   /\ Statements[p] = [op |-> "dropTrigger", on |-> Tables[i]]
                \/ /\ p = 4 + 2 * i
                   /\ Statements[p] = [op |-> "createTrigger", on |-> Tables[i]]
  <2>1. p - 4 \in 1..(2 * Len(Tables)) /\ p = 4 + (p - 4)
        /\ p \in 1..Triggered /\ p \in 1..Backfilled
    BY <1>2, <1>14
  <2>2. Statements[p] = triggers[p - 4]
    <3>1. Statements[p] = (first \o triggers)[p]
      BY <1>12, <1>13, <2>1
    <3>2. (first \o triggers)[4 + (p - 4)] = triggers[p - 4]
      BY <1>11, <2>1
    <3> QED
      BY <2>1, <3>1, <3>2
  <2>3. PICK i \in 1..Len(Tables) :
          \/ /\ p - 4 = 2 * i - 1
             /\ triggers[p - 4] = [op |-> "dropTrigger", on |-> Tables[i]]
          \/ /\ p - 4 = 2 * i
             /\ triggers[p - 4] = [op |-> "createTrigger", on |-> Tables[i]]
    BY <1>6, <2>1
  <2>4. p \in Int /\ i \in Int
    BY <1>2, <1>14
  <2>5. (p - 4 = 2 * i - 1 => p = 3 + 2 * i) /\ (p - 4 = 2 * i => p = 4 + 2 * i)
    BY <2>4
  <2> QED
    BY <2>2, <2>3, <2>5
<1>17. ASSUME NEW p \in (Triggered + 1)..Backfilled
       PROVE  \E i \in 1..Len(Tables) :
                /\ p = Triggered + i
                /\ Statements[p] = [op |-> "backfill", on |-> Tables[i]]
  <2> DEFINE i == p - Triggered
  <2>1. i \in 1..Len(Tables) /\ p = Triggered + i /\ p \in 1..Backfilled
    BY <1>2, <1>14
  <2>2. Statements[p] = backfills[i]
    BY <1>12, <1>13, <2>1
  <2> QED
    BY <1>7, <2>1, <2>2
<1>18. ASSUME NEW p \in (Backfilled + 1)..Ending
       PROVE  \E i \in 1..Len(Seeds) :
                \/ /\ p = Backfilled + 2 * i - 1
                   /\ Statements[p] = [op |-> "find", on |-> Seeds[i]]
                \/ /\ p = Backfilled + 2 * i
                   /\ Statements[p] = [op |-> "create", on |-> Seeds[i]]
  <2> DEFINE j == p - Backfilled
  <2>1. j \in 1..(2 * Len(Seeds)) /\ p = Backfilled + j
    BY <1>2, <1>14
  <2>2. Statements[p] = accounts[j]
    BY <1>13, <2>1
  <2>3. PICK i \in 1..Len(Seeds) :
          \/ /\ j = 2 * i - 1
             /\ accounts[j] = [op |-> "find", on |-> Seeds[i]]
          \/ /\ j = 2 * i
             /\ accounts[j] = [op |-> "create", on |-> Seeds[i]]
    BY <1>8, <2>1
  <2>4. (j = 2 * i - 1 => p = Backfilled + 2 * i - 1)
        /\ (j = 2 * i => p = Backfilled + 2 * i)
    BY <1>14, <2>1
  <2> QED
    BY <2>2, <2>3, <2>4
<1>19. \A p \in 1..Ending : \/ p \in 1..4 \/ p \in 5..Triggered
                         \/ p \in (Triggered + 1)..Backfilled
                         \/ p \in (Backfilled + 1)..Ending
  BY <1>2, <1>14
<1>20. ASSUME NEW p \in 1..Ending
       PROVE
       \/ p = 1 /\ Statements[p] = [op |-> "autoMigrate"]
       \/ p = 2 /\ Statements[p] = [op |-> "dropCheck"]
       \/ p = 3 /\ Statements[p] = [op |-> "addCheck"]
       \/ p = 4 /\ Statements[p] = [op |-> "spatial"]
       \/ \E i \in 1..Len(Tables) :
            \/ /\ p = 3 + 2 * i
               /\ Statements[p] = [op |-> "dropTrigger", on |-> Tables[i]]
            \/ /\ p = 4 + 2 * i
               /\ Statements[p] = [op |-> "createTrigger", on |-> Tables[i]]
            \/ /\ p = Triggered + i
               /\ Statements[p] = [op |-> "backfill", on |-> Tables[i]]
       \/ \E i \in 1..Len(Seeds) :
            \/ /\ p = Backfilled + 2 * i - 1
               /\ Statements[p] = [op |-> "find", on |-> Seeds[i]]
            \/ /\ p = Backfilled + 2 * i
               /\ Statements[p] = [op |-> "create", on |-> Seeds[i]]
  <2>1. CASE p \in 1..4
    BY <1>15, <2>1
  <2>2. CASE p \in 5..Triggered
    BY <1>16, <2>2
  <2>3. CASE p \in (Triggered + 1)..Backfilled
    BY <1>17, <2>3
  <2>4. CASE p \in (Backfilled + 1)..Ending
    BY <1>18, <2>4
  <2> QED
    BY <1>19, <2>1, <2>2, <2>3, <2>4
<1> QED
  BY <1>13, <1>14, <1>20

------------------------------------------------------------------------------
\* The server goes to statement q, and no other moves.
MovesTo(s, q) == at' = [at EXCEPT ![s] = q]

\* Some server is down, or has not got beyond statement p.
Behind(p) == \E s \in Servers : at[s] <= p

\* The strengthening.  What is missing from the database is missing because of
\* a server that has yet to come to the statement that puts it there.
SchemaInTime ==
  \A s \in Servers : /\ at[s] > 1 => "tables" \in schema
                     /\ at[s] > 4 => "spatial" \in schema

CheckInTime == check # "current" => Behind(3)

TriggerInTime ==
  \A i \in 1..Len(Tables) : Tables[i] \notin trigger => Behind(4 + 2 * i)

RowsInTime ==
  \A k \in Keys, i \in 1..Len(Tables) :
    k[1] = Tables[i] /\ row[k] # Absent =>
      \/ row[k].geom = row[k].text
      \/ k \in lapsed /\ row[k].geom # Null
      \/ row[k].geom = Null /\ Behind(Triggered + i)

IInv == TypeOK /\ SchemaInTime /\ CheckInTime /\ TriggerInTime /\ RowsInTime

LEMMA Lists ==
  /\ Len(Tables) \in Nat /\ Len(Seeds) \in Nat
  /\ \A i \in 1..Len(Tables) : Tables[i] \in ToSet(Tables)
  /\ \A i \in 1..Len(Seeds) : Seeds[i] \in ToSet(Seeds)
  /\ \A t \in ToSet(Tables) : \E i \in 1..Len(Tables) : t = Tables[i]
  /\ \A i, j \in 1..Len(Tables) : Tables[i] = Tables[j] => i = j
  /\ \A k \in Keys : k[1] \in ToSet(Tables)
  /\ Triggered = 4 + 2 * Len(Tables) /\ Backfilled = Triggered + Len(Tables)
  /\ Ending = Backfilled + 2 * Len(Seeds) /\ Ending \in Nat
<1>1. Len(Tables) \in Nat /\ Len(Seeds) \in Nat
  BY ListsAssumption
<1>2. DOMAIN Tables = 1..Len(Tables) /\ DOMAIN Seeds = 1..Len(Seeds)
  BY ListsAssumption
<1>3. Ending \in Nat
  BY <1>1 DEF Triggered, Backfilled, Ending
<1> QED
  BY <1>1, <1>2, <1>3, ListsAssumption
     DEF Triggered, Backfilled, Ending, ToSet, IsInjective, Keys

\* What a server executes says where it is.
LEMMA Position ==
  ASSUME TypeOK, NEW s \in Servers, NEW op, At(s, op)
  PROVE  LET p == at[s] IN
         /\ p \in 1..Ending
         /\ op = "autoMigrate" => p = 1
         /\ op = "dropCheck" => p = 2
         /\ op = "addCheck" => p = 3
         /\ op = "spatial" => p = 4
         /\ op = "dropTrigger" =>
              \E i \in 1..Len(Tables) : p = 3 + 2 * i /\ On(s) = Tables[i]
         /\ op = "createTrigger" =>
              \E i \in 1..Len(Tables) : p = 4 + 2 * i /\ On(s) = Tables[i]
         /\ op = "backfill" =>
              \E i \in 1..Len(Tables) : p = Triggered + i /\ On(s) = Tables[i]
         /\ op = "find" => p > Backfilled /\ p < Ending /\ On(s) \in ToSet(Seeds)
         /\ op = "create" => p > Backfilled /\ On(s) \in ToSet(Seeds)
<1> DEFINE p == at[s]
<1>1. p \in 1..Ending
  BY StatementKinds DEF TypeOK, At, Starting, Down, Serving
<1>2. Statements[p].op = op /\ On(s) = Statements[p].on
  BY DEF At, On
<1>3. \/ p = 1 /\ Statements[p].op = "autoMigrate"
      \/ p = 2 /\ Statements[p].op = "dropCheck"
      \/ p = 3 /\ Statements[p].op = "addCheck"
      \/ p = 4 /\ Statements[p].op = "spatial"
      \/ \E i \in 1..Len(Tables) :
           /\ Statements[p].on = Tables[i]
           /\ \/ p = 3 + 2 * i /\ Statements[p].op = "dropTrigger"
              \/ p = 4 + 2 * i /\ Statements[p].op = "createTrigger"
              \/ p = Triggered + i /\ Statements[p].op = "backfill"
      \/ \E i \in 1..Len(Seeds) :
           /\ Statements[p].on = Seeds[i]
           /\ \/ p = Backfilled + 2 * i - 1 /\ Statements[p].op = "find"
              \/ p = Backfilled + 2 * i /\ Statements[p].op = "create"
  <2>1. CASE p \in 1..4 /\ \/ p = 1 /\ Statements[p] = [op |-> "autoMigrate"]
                           \/ p = 2 /\ Statements[p] = [op |-> "dropCheck"]
                           \/ p = 3 /\ Statements[p] = [op |-> "addCheck"]
                           \/ p = 4 /\ Statements[p] = [op |-> "spatial"]
    BY <2>1
  <2>2. ASSUME NEW i \in 1..Len(Tables),
               \/ /\ p = 3 + 2 * i
                  /\ Statements[p] = [op |-> "dropTrigger", on |-> Tables[i]]
               \/ /\ p = 4 + 2 * i
                  /\ Statements[p] = [op |-> "createTrigger", on |-> Tables[i]]
               \/ /\ p = Triggered + i
                  /\ Statements[p] = [op |-> "backfill", on |-> Tables[i]]
        PROVE  /\ Statements[p].on = Tables[i]
               /\ \/ p = 3 + 2 * i /\ Statements[p].op = "dropTrigger"
                  \/ p = 4 + 2 * i /\ Statements[p].op = "createTrigger"
                  \/ p = Triggered + i /\ Statements[p].op = "backfill"
    BY <2>2
  <2>3. ASSUME NEW i \in 1..Len(Seeds),
               \/ /\ p = Backfilled + 2 * i - 1
                  /\ Statements[p] = [op |-> "find", on |-> Seeds[i]]
               \/ /\ p = Backfilled + 2 * i
                  /\ Statements[p] = [op |-> "create", on |-> Seeds[i]]
        PROVE  /\ Statements[p].on = Seeds[i]
               /\ \/ p = Backfilled + 2 * i - 1 /\ Statements[p].op = "find"
                  \/ p = Backfilled + 2 * i /\ Statements[p].op = "create"
    BY <2>3
  <2> HIDE DEF p
  <2>4. \/ p \in 1..4 /\ \/ p = 1 /\ Statements[p] = [op |-> "autoMigrate"]
                         \/ p = 2 /\ Statements[p] = [op |-> "dropCheck"]
                         \/ p = 3 /\ Statements[p] = [op |-> "addCheck"]
                         \/ p = 4 /\ Statements[p] = [op |-> "spatial"]
        \/ \E i \in 1..Len(Tables) :
             \/ /\ p = 3 + 2 * i
                /\ Statements[p] = [op |-> "dropTrigger", on |-> Tables[i]]
             \/ /\ p = 4 + 2 * i
                /\ Statements[p] = [op |-> "createTrigger", on |-> Tables[i]]
             \/ /\ p = Triggered + i
                /\ Statements[p] = [op |-> "backfill", on |-> Tables[i]]
        \/ \E i \in 1..Len(Seeds) :
             \/ /\ p = Backfilled + 2 * i - 1
                /\ Statements[p] = [op |-> "find", on |-> Seeds[i]]
             \/ /\ p = Backfilled + 2 * i
                /\ Statements[p] = [op |-> "create", on |-> Seeds[i]]
    BY <1>1, StatementKinds, SMTT(30)
  <2> QED
    BY <2>1, <2>2, <2>3, <2>4, ZenonT(60)
<1> HIDE DEF p
<1>4. ASSUME NEW i \in 1..Len(Seeds)
      PROVE  /\ Seeds[i] \in ToSet(Seeds)
             /\ p = Backfilled + 2 * i - 1 => p > Backfilled /\ p < Ending
             /\ p = Backfilled + 2 * i => p > Backfilled
  BY <1>1, Lists
<1>5. /\ p \in 1..Ending
      /\ op = "autoMigrate" => p = 1
      /\ op = "dropCheck" => p = 2
      /\ op = "addCheck" => p = 3
      /\ op = "spatial" => p = 4
  BY <1>1, <1>2, <1>3
<1>6. /\ op = "dropTrigger" =>
           \E i \in 1..Len(Tables) : p = 3 + 2 * i /\ On(s) = Tables[i]
      /\ op = "createTrigger" =>
           \E i \in 1..Len(Tables) : p = 4 + 2 * i /\ On(s) = Tables[i]
      /\ op = "backfill" =>
           \E i \in 1..Len(Tables) : p = Triggered + i /\ On(s) = Tables[i]
  BY <1>2, <1>3
<1>7. /\ op = "find" => p > Backfilled /\ p < Ending /\ On(s) \in ToSet(Seeds)
      /\ op = "create" => p > Backfilled /\ On(s) \in ToSet(Seeds)
  BY <1>2, <1>3, <1>4
<1> QED
  BY <1>5, <1>6, <1>7 DEF p

LEMMA StaysBehind ==
  ASSUME TypeOK, NEW s \in Servers, NEW q \in Nat, MovesTo(s, q),
         NEW p \in Nat, q <= p \/ (at[s] > p /\ Behind(p))
  PROVE  Behind(p)'
<1>1. CASE q <= p
  BY <1>1 DEF TypeOK, Behind, MovesTo
<1>2. CASE at[s] > p /\ Behind(p)
  <2>1. PICK z \in Servers : at[z] <= p
    BY <1>2 DEF Behind
  <2>2. at[z] \in Nat /\ at[s] \in Nat
    BY StatementKinds DEF TypeOK
  <2>3. z # s
    BY <1>2, <2>1, <2>2
  <2> QED
    BY <2>1, <2>3 DEF TypeOK, Behind, MovesTo
<1> QED
  BY <1>1, <1>2

\* What a step that moves server s to statement q leaves behind is there, unless
\* it was missing before and the server was past it.
Leaves(s, q) ==
  /\ schema \subseteq schema' /\ lapsed' = lapsed
  /\ q > 1 => at[s] > 1 \/ "tables" \in schema'
  /\ q > 4 => at[s] > 4 \/ "spatial" \in schema'
  /\ check' # "current" => q <= 3 \/ (at[s] > 3 /\ check # "current")
  /\ \A i \in 1..Len(Tables) : Tables[i] \notin trigger' =>
       q <= 4 + 2 * i \/ (at[s] > 4 + 2 * i /\ Tables[i] \notin trigger)
  /\ \A k \in Keys : row'[k] = row[k] \/ row'[k].geom = row'[k].text
  /\ \A k \in Keys, i \in 1..Len(Tables) :
       k[1] = Tables[i] /\ row'[k] = row[k] /\ row[k] # Absent /\ row[k].geom = Null
         => q <= Triggered + i \/ at[s] > Triggered + i

\* One server moves on and the invariant is kept.
LEMMA ServerMoves ==
  ASSUME IInv, NEW s \in Servers, NEW q \in Nat, MovesTo(s, q), TypeOK', Leaves(s, q)
  PROVE  IInv'
<1> USE DEF Leaves
<1>1. TypeOK
  BY DEF IInv
<1>2. \A z \in Servers : at'[z] = IF z = s THEN q ELSE at[z]
  BY <1>1 DEF TypeOK, MovesTo
<1>3. SchemaInTime'
  BY <1>2 DEF IInv, SchemaInTime
<1>4. CheckInTime'
  <2>1. check' # "current" => q <= 3 \/ (at[s] > 3 /\ Behind(3))
    BY DEF IInv, CheckInTime
  <2> QED
    BY <1>1, <2>1, StaysBehind DEF CheckInTime
<1>5. TriggerInTime'
  <2> SUFFICES ASSUME NEW i \in 1..Len(Tables), Tables[i] \notin trigger'
               PROVE  Behind(4 + 2 * i)'
    BY DEF TriggerInTime
  <2>1. q <= 4 + 2 * i \/ (at[s] > 4 + 2 * i /\ Behind(4 + 2 * i))
    BY DEF IInv, TriggerInTime
  <2>2. 4 + 2 * i \in Nat
    BY Lists
  <2> QED
    BY <1>1, <2>1, <2>2, StaysBehind
<1>6. RowsInTime'
  <2> SUFFICES ASSUME NEW k \in Keys, NEW i \in 1..Len(Tables),
                      k[1] = Tables[i], row'[k] # Absent, row'[k].geom # row'[k].text
               PROVE  \/ k \in lapsed' /\ row'[k].geom # Null
                      \/ row'[k].geom = Null /\ Behind(Triggered + i)'
    BY DEF RowsInTime
  <2>1. row'[k] = row[k]
    OBVIOUS
  <2>2. \/ k \in lapsed /\ row[k].geom # Null
        \/ row[k].geom = Null /\ Behind(Triggered + i)
    BY <2>1 DEF IInv, RowsInTime
  <2>3. CASE row[k].geom # Null
    BY <2>1, <2>2, <2>3
  <2>4. CASE row[k].geom = Null
    <3>1. q <= Triggered + i \/ (at[s] > Triggered + i /\ Behind(Triggered + i))
      BY <2>1, <2>2, <2>4
    <3>2. Triggered + i \in Nat
      BY StatementKinds, Lists
    <3> QED
      BY <1>1, <2>1, <2>4, <3>1, <3>2, StaysBehind
  <2> QED
    BY <2>3, <2>4
<1> QED
  BY <1>3, <1>4, <1>5, <1>6 DEF IInv

------------------------------------------------------------------------------
\* Where a server may go next is a statement of the list, its end, or nowhere.
LEMMA MovesAreTyped ==
  ASSUME TypeOK, NEW s \in Servers
  PROVE  /\ at[s] \in 0..(Ending + 1) /\ at[s] \in Nat /\ Ending \in Nat
         /\ Starting(s) => at[s] \in 1..Ending
         /\ Launch(s) => at'[s] = 1 /\ MovesTo(s, 1)
         /\ Done(s) => MovesTo(s, at[s] + 1)
         /\ Exit(s) => MovesTo(s, 0)
         /\ \A q \in 0..(Ending + 1) : MovesTo(s, q) =>
              at' \in [Servers -> 0..(Len(Statements) + 1)]
<1>1. Len(Statements) = Ending /\ Ending \in Nat
  BY StatementKinds
<1>2. at \in [Servers -> 0..(Ending + 1)]
  BY <1>1 DEF TypeOK
<1>3. at[s] \in 0..(Ending + 1)
  BY <1>2
<1>4. Starting(s) => at[s] \in 1..Ending
  BY <1>1, <1>3 DEF Starting, Down, Serving
<1>5. ASSUME NEW q \in 0..(Ending + 1), MovesTo(s, q)
      PROVE  at' \in [Servers -> 0..(Len(Statements) + 1)]
  BY <1>1, <1>2, <1>5 DEF MovesTo
<1>6. Launch(s) => at'[s] = 1 /\ MovesTo(s, 1)
  BY <1>2 DEF Launch, MovesTo
<1> QED
  BY <1>1, <1>3, <1>4, <1>5, <1>6 DEF Done, Exit, MovesTo

\* A server that is started, or exits, is behind everything.
LEMMA LaunchOrExit ==
  ASSUME IInv, NEW s \in Servers, NEW q \in 0..1, MovesTo(s, q),
         UNCHANGED database, faults' \in 0..MaxFaults
  PROVE  IInv'
<1>1. Len(Tables) \in Nat /\ Triggered \in Nat /\ Ending \in Nat
  BY Lists, StatementKinds
<1>2. TypeOK'
  <2>1. q \in 0..(Ending + 1)
    BY <1>1
  <2>2. at' \in [Servers -> 0..(Len(Statements) + 1)]
    BY <2>1, MovesAreTyped DEF IInv
  <2> QED
    BY <2>2 DEF IInv, TypeOK, database
<1>3. \A i \in 1..Len(Tables) : q <= 4 + 2 * i /\ q <= Triggered + i
  BY <1>1
<1>4. Leaves(s, q)
  BY <1>3 DEF Leaves, database
<1> QED
  BY <1>2, <1>4, ServerMoves

LEMMA AutoMigrateIInv ==
  ASSUME IInv, NEW s \in Servers, AutoMigrate(s)
  PROVE  IInv'
<1>1. at[s] = 1 /\ MovesTo(s, 2) /\ 2 \in 0..(Ending + 1)
  BY Position, MovesAreTyped DEF IInv, AutoMigrate
<1>2. TypeOK'
  <2>1. at' \in [Servers -> 0..(Len(Statements) + 1)]
    BY <1>1, MovesAreTyped DEF IInv
  <2> QED
    BY <2>1 DEF IInv, TypeOK, AutoMigrate
<1>3. \A i \in 1..Len(Tables) : 2 <= 4 + 2 * i /\ 2 <= Triggered + i
  BY Lists
<1>4. Leaves(s, 2)
  BY <1>1, <1>3 DEF Leaves, AutoMigrate
<1> QED
  BY <1>1, <1>2, <1>4, ServerMoves

LEMMA DropCheckIInv ==
  ASSUME IInv, NEW s \in Servers, DropCheck(s)
  PROVE  IInv'
<1>1. at[s] = 2 /\ MovesTo(s, 3) /\ 3 \in 0..(Ending + 1)
  BY Position, MovesAreTyped DEF IInv, DropCheck
<1>2. TypeOK'
  <2>1. at' \in [Servers -> 0..(Len(Statements) + 1)]
    BY <1>1, MovesAreTyped DEF IInv
  <2> QED
    BY <2>1 DEF IInv, TypeOK, DropCheck
<1>3. \A i \in 1..Len(Tables) : 3 <= 4 + 2 * i /\ 3 <= Triggered + i
  BY Lists
<1>4. Leaves(s, 3)
  BY <1>1, <1>3 DEF Leaves, DropCheck
<1> QED
  BY <1>1, <1>2, <1>4, ServerMoves

LEMMA AddCheckIInv ==
  ASSUME IInv, NEW s \in Servers, AddCheck(s)
  PROVE  IInv'
<1>1. CASE check # "none"
  <2>1. MovesTo(s, 0) /\ UNCHANGED database /\ faults' \in 0..MaxFaults
    BY <1>1 DEF IInv, TypeOK, AddCheck, Exit, MovesTo, database
  <2> QED
    BY <2>1, LaunchOrExit
<1>2. CASE check = "none"
  <2>1. at[s] = 3 /\ MovesTo(s, 4) /\ 4 \in 0..(Ending + 1)
        /\ check' = "current"
    BY <1>2, Position, MovesAreTyped DEF IInv, AddCheck
  <2>2. TypeOK'
    <3>1. at' \in [Servers -> 0..(Len(Statements) + 1)]
      BY <2>1, MovesAreTyped DEF IInv
    <3> QED
      BY <2>1, <3>1 DEF IInv, TypeOK, AddCheck
  <2>3. \A i \in 1..Len(Tables) : 4 <= 4 + 2 * i /\ 4 <= Triggered + i
    BY Lists
  <2>4. Leaves(s, 4)
    BY <1>2, <2>1, <2>3 DEF Leaves, AddCheck
  <2> QED
    BY <2>1, <2>2, <2>4, ServerMoves
<1> QED
  BY <1>1, <1>2

LEMMA AddSpatialIInv ==
  ASSUME IInv, NEW s \in Servers, AddSpatial(s)
  PROVE  IInv'
<1>1. at[s] = 4 /\ MovesTo(s, 5) /\ 5 \in 0..(Ending + 1)
  BY Position, MovesAreTyped DEF IInv, AddSpatial
<1>2. TypeOK'
  <2>1. at' \in [Servers -> 0..(Len(Statements) + 1)]
    BY <1>1, MovesAreTyped DEF IInv
  <2> QED
    BY <2>1 DEF IInv, TypeOK, AddSpatial
<1>3. \A i \in 1..Len(Tables) : 5 <= 4 + 2 * i /\ 5 <= Triggered + i
  BY Lists
<1>4. Leaves(s, 5)
  BY <1>1, <1>3 DEF Leaves, AddSpatial
<1> QED
  BY <1>1, <1>2, <1>4, ServerMoves

\* The server stands before the CREATE TRIGGER that makes up for the drop.
LEMMA DropTriggerIInv ==
  ASSUME IInv, NEW s \in Servers, DropTrigger(s)
  PROVE  IInv'
<1>1. PICK n \in 1..Len(Tables) : at[s] = 3 + 2 * n /\ On(s) = Tables[n]
  BY Position DEF IInv, DropTrigger
<1> DEFINE q == at[s] + 1
<1>2. MovesTo(s, q) /\ q \in 0..(Ending + 1) /\ q = 4 + 2 * n
      /\ at[s] > 4
  <2>1. at[s] \in 1..Ending /\ Ending \in Nat /\ n \in Nat /\ n >= 1
    BY MovesAreTyped, Lists DEF IInv, DropTrigger, At
  <2> QED
    BY <1>1, <2>1, MovesAreTyped DEF IInv, DropTrigger
<1> HIDE DEF q
<1>3. TypeOK'
  <2>1. at' \in [Servers -> 0..(Len(Statements) + 1)]
    BY <1>2, MovesAreTyped DEF IInv
  <2> QED
    BY <2>1 DEF IInv, TypeOK, DropTrigger
<1>4. ASSUME NEW i \in 1..Len(Tables), Tables[i] \notin trigger'
      PROVE  q <= 4 + 2 * i \/ (at[s] > 4 + 2 * i /\ Tables[i] \notin trigger)
  <2>1. CASE i = n
    BY <1>2, <2>1, Lists
  <2>2. CASE i # n
    <3>1. Tables[i] \notin trigger
      BY <1>1, <1>4, <2>2, Lists DEF DropTrigger
    <3>2. i > n => q <= 4 + 2 * i
      BY <1>2, Lists
    <3>3. i < n => at[s] > 4 + 2 * i
      BY <1>1, Lists
    <3> QED
      BY <2>2, <3>1, <3>2, <3>3, Lists
  <2> QED
    BY <2>1, <2>2
<1>5. \A i \in 1..Len(Tables) : q <= Triggered + i
  BY <1>2, Lists
<1>6. at[s] > 3 /\ at[s] > 1
  BY <1>1, Lists
<1>7. Leaves(s, q)
  BY <1>2, <1>4, <1>5, <1>6 DEF Leaves, DropTrigger
<1> QED
  BY <1>2, <1>3, <1>7, ServerMoves

LEMMA CreateTriggerIInv ==
  ASSUME IInv, NEW s \in Servers, CreateTrigger(s)
  PROVE  IInv'
<1>1. CASE On(s) \in trigger
  <2>1. MovesTo(s, 0) /\ UNCHANGED database /\ faults' \in 0..MaxFaults
    BY <1>1 DEF IInv, TypeOK, CreateTrigger, Exit, MovesTo, database
  <2> QED
    BY <2>1, LaunchOrExit
<1>2. CASE On(s) \notin trigger
  <2>1. PICK n \in 1..Len(Tables) : at[s] = 4 + 2 * n /\ On(s) = Tables[n]
    BY Position DEF IInv, CreateTrigger
  <2> DEFINE q == at[s] + 1
  <2>2. MovesTo(s, q) /\ q \in 0..(Ending + 1) /\ q = 5 + 2 * n
        /\ trigger' = trigger \cup {Tables[n]}
    <3>1. at[s] \in 1..Ending /\ Ending \in Nat /\ n \in Nat
      BY MovesAreTyped, Lists DEF IInv, CreateTrigger, At
    <3> QED
      BY <1>2, <2>1, <3>1, MovesAreTyped DEF IInv, CreateTrigger
  <2> HIDE DEF q
  <2>3. TypeOK'
    <3>1. at' \in [Servers -> 0..(Len(Statements) + 1)]
      BY <2>2, MovesAreTyped DEF IInv
    <3> QED
      BY <2>2, <3>1, Lists DEF IInv, TypeOK, CreateTrigger
  <2>4. ASSUME NEW i \in 1..Len(Tables), Tables[i] \notin trigger'
        PROVE  q <= 4 + 2 * i \/ (at[s] > 4 + 2 * i /\ Tables[i] \notin trigger)
    <3>1. i # n /\ Tables[i] \notin trigger
      BY <2>2, <2>4
    <3>2. i > n => q <= 4 + 2 * i
      BY <2>2, Lists
    <3>3. i < n => at[s] > 4 + 2 * i
      BY <2>1, Lists
    <3> QED
      BY <3>1, <3>2, <3>3, Lists
  <2>5. \A i \in 1..Len(Tables) : q <= Triggered + i
    BY <2>2, Lists
  <2>6. at[s] > 4 /\ at[s] > 3 /\ at[s] > 1
    BY <2>1, Lists
  <2>7. Leaves(s, q)
    BY <1>2, <2>2, <2>4, <2>5, <2>6 DEF Leaves, CreateTrigger
  <2> QED
    BY <2>2, <2>3, <2>7, ServerMoves
<1> QED
  BY <1>1, <1>2

\* The backfill leaves no NULL in its table, so the server may go on.
LEMMA BackfillIInv ==
  ASSUME IInv, NEW s \in Servers, Backfill(s)
  PROVE  IInv'
<1>1. PICK n \in 1..Len(Tables) : at[s] = Triggered + n /\ On(s) = Tables[n]
  BY Position DEF IInv, Backfill
<1> DEFINE q == at[s] + 1
<1>2. MovesTo(s, q) /\ q \in 0..(Ending + 1) /\ q = Triggered + n + 1
      /\ at[s] > Triggered
  <2>1. at[s] \in 1..Ending /\ Ending \in Nat /\ n \in Nat /\ n >= 1 /\ Triggered \in Nat
    BY MovesAreTyped, Lists, StatementKinds DEF IInv, Backfill, At
  <2> QED
    BY <1>1, <2>1, MovesAreTyped DEF IInv, Backfill
<1> HIDE DEF q
<1>3. ASSUME NEW k \in Keys
      PROVE  /\ row'[k] \in TableRow \cup {Absent}
             /\ row'[k] = row[k] \/ row'[k].geom = row'[k].text
             /\ k[1] = Tables[n] /\ row'[k] = row[k] /\ row[k] # Absent
                  => row[k].geom # Null
  <2>1. row'[k] = IF k[1] = On(s) /\ Unmaterialized(k)
                  THEN [row[k] EXCEPT !.geom = row[k].text] ELSE row[k]
    BY DEF Backfill
  <2>2. row[k] \in TableRow \cup {Absent}
    BY DEF IInv, TypeOK
  <2>3. CASE k[1] = On(s) /\ Unmaterialized(k)
    <3>1. row[k] \in TableRow /\ row[k].geom = Null
      BY <2>2, <2>3 DEF Unmaterialized
    <3>2. row[k].text \in 1..MaxText /\ row[k].text \in 0..MaxText
      BY <3>1, BoundsAssumption DEF TableRow
    <3>3. row'[k] = [row[k] EXCEPT !.geom = row[k].text]
      BY <2>1, <2>3
    <3>4. row'[k] \in TableRow /\ row'[k].geom = row[k].text
          /\ row'[k].text = row[k].text
      BY <3>1, <3>2, <3>3 DEF TableRow
    <3> QED
      BY <3>1, <3>2, <3>4 DEF Null
  <2>4. CASE ~ (k[1] = On(s) /\ Unmaterialized(k))
    BY <1>1, <2>1, <2>2, <2>4 DEF Unmaterialized
  <2> QED
    BY <2>3, <2>4
<1>4. TypeOK'
  <2>1. at' \in [Servers -> 0..(Len(Statements) + 1)]
    BY <1>2, MovesAreTyped DEF IInv
  <2>2. row' \in [Keys -> TableRow \cup {Absent}]
    <3>1. row' = [k \in Keys |-> row'[k]]
      BY DEF Backfill
    <3> QED
      BY <1>3, <3>1
  <2> QED
    BY <2>1, <2>2 DEF IInv, TypeOK, Backfill
<1>5. \A i \in 1..Len(Tables) : at[s] > 4 + 2 * i
  BY <1>1, Lists
<1>6. ASSUME NEW k \in Keys, NEW i \in 1..Len(Tables),
             k[1] = Tables[i], row'[k] = row[k], row[k] # Absent, row[k].geom = Null
      PROVE  q <= Triggered + i \/ at[s] > Triggered + i
  <2>1. i # n
    BY <1>3, <1>6
  <2> QED
    BY <1>1, <1>2, <2>1, Lists
<1>7. at[s] > 4 /\ at[s] > 3 /\ at[s] > 1
  BY <1>1, Lists
<1>8. schema' = schema /\ check' = check /\ trigger' = trigger /\ lapsed' = lapsed
  BY DEF Backfill
<1>9. \A k \in Keys : row'[k] = row[k] \/ row'[k].geom = row'[k].text
  BY <1>3
<1>10. Leaves(s, q)
  BY <1>5, <1>6, <1>7, <1>8, <1>9 DEF Leaves
<1> QED
  BY <1>2, <1>4, <1>10, ServerMoves

\* Beyond the backfills nothing is left for a server to make up for.
LEMMA SeedIInv ==
  ASSUME IInv, NEW s \in Servers, at[s] > Backfilled,
         NEW q \in 0..(Ending + 1), MovesTo(s, q),
         account' \in [ToSet(Seeds) -> {"seeded", "changed", Absent}],
         UNCHANGED <<schema, check, trigger, row, lapsed, faults>>
  PROVE  IInv'
<1>1. TypeOK'
  <2>1. at' \in [Servers -> 0..(Len(Statements) + 1)]
    BY MovesAreTyped DEF IInv
  <2> QED
    BY <2>1 DEF IInv, TypeOK
<1>2. at[s] \in Nat
  BY MovesAreTyped DEF IInv
<1>3. \A i \in 1..Len(Tables) : at[s] > 4 + 2 * i /\ at[s] > Triggered + i
  BY <1>2, Lists
<1>4. at[s] > 4 /\ at[s] > 3 /\ at[s] > 1
  BY <1>2, Lists
<1>5. Leaves(s, q)
  BY <1>3, <1>4 DEF Leaves
<1> QED
  BY <1>1, <1>5, ServerMoves

LEMMA FindSeedIInv ==
  ASSUME IInv, NEW s \in Servers, FindSeed(s)
  PROVE  IInv'
<1>1. at[s] > Backfilled /\ at[s] < Ending /\ at[s] \in Nat /\ Ending \in Nat
  BY Position, MovesAreTyped DEF IInv, FindSeed
<1>2. PICK q \in {at[s] + 1, at[s] + 2} : MovesTo(s, q)
  BY DEF FindSeed, MovesTo
<1>3. q \in 0..(Ending + 1)
  BY <1>1, <1>2
<1>4. /\ account' \in [ToSet(Seeds) -> {"seeded", "changed", Absent}]
      /\ UNCHANGED <<schema, check, trigger, row, lapsed, faults>>
  BY DEF FindSeed, database, IInv, TypeOK
<1> QED
  BY <1>1, <1>2, <1>3, <1>4, SeedIInv

LEMMA CreateSeedIInv ==
  ASSUME IInv, NEW s \in Servers, CreateSeed(s)
  PROVE  IInv'
<1>1. at[s] > Backfilled /\ at[s] \in 1..Ending /\ Ending \in Nat
      /\ On(s) \in ToSet(Seeds)
  BY Position, MovesAreTyped DEF IInv, CreateSeed, At
<1>2. CASE account[On(s)] = Absent
  <2>1. MovesTo(s, at[s] + 1) /\ at[s] + 1 \in 0..(Ending + 1)
    BY <1>1, <1>2 DEF CreateSeed, Done, MovesTo
  <2>2. account' \in [ToSet(Seeds) -> {"seeded", "changed", Absent}]
    BY <1>1, <1>2 DEF CreateSeed, IInv, TypeOK
  <2> QED
    BY <1>1, <2>1, <2>2, SeedIInv DEF CreateSeed
<1>3. CASE account[On(s)] # Absent
  <2>1. MovesTo(s, 0) /\ UNCHANGED database /\ faults' \in 0..MaxFaults
    BY <1>3 DEF IInv, TypeOK, CreateSeed, Exit, MovesTo, database
  <2> QED
    BY <2>1, LaunchOrExit
<1> QED
  BY <1>2, <1>3

\* A row stored without the trigger is for a server to fill that has still to
\* come to the CREATE TRIGGER, and so to the backfill, of its table.
LEMMA RowStored ==
  ASSUME IInv, NEW k \in Keys, NEW new \in TableRow,
         row' = [row EXCEPT ![k] = new],
         UNCHANGED <<at, schema, check, trigger, account, faults>>,
         lapsed' \subseteq Keys,
         \A j \in Keys : j # k => (j \in lapsed' <=> j \in lapsed),
         \/ new.geom = new.text
         \/ k \in lapsed' /\ new.geom # Null
         \/ new.geom = Null /\ k[1] \notin trigger
  PROVE  IInv'
<1>1. \A j \in Keys : row'[j] = IF j = k THEN new ELSE row[j]
  BY DEF IInv, TypeOK
<1>2. TypeOK'
  BY DEF IInv, TypeOK
<1>3. SchemaInTime' /\ CheckInTime' /\ TriggerInTime'
  BY DEF IInv, SchemaInTime, CheckInTime, TriggerInTime, Behind
<1>4. RowsInTime'
  <2> SUFFICES ASSUME NEW j \in Keys, NEW i \in 1..Len(Tables),
                      j[1] = Tables[i], row'[j] # Absent
               PROVE  \/ row'[j].geom = row'[j].text
                      \/ j \in lapsed' /\ row'[j].geom # Null
                      \/ row'[j].geom = Null /\ Behind(Triggered + i)'
    BY DEF RowsInTime
  <2>1. CASE j # k
    BY <1>1, <2>1 DEF IInv, RowsInTime, Behind
  <2>2. CASE j = k
    <3>1. CASE new.geom = Null /\ k[1] \notin trigger
      <4>1. Behind(4 + 2 * i)
        BY <2>2, <3>1 DEF IInv, TriggerInTime
      <4>2. PICK z \in Servers : at[z] <= 4 + 2 * i
        BY <4>1 DEF Behind
      <4>3. at[z] <= Triggered + i
        BY <4>2, Lists, MovesAreTyped DEF IInv
      <4> QED
        BY <1>1, <2>2, <3>1, <4>3 DEF Behind
    <3>2. CASE ~ (new.geom = Null /\ k[1] \notin trigger)
      BY <1>1, <2>2, <3>2
    <3> QED
      BY <3>1, <3>2
  <2> QED
    BY <2>1, <2>2
<1> QED
  BY <1>2, <1>3, <1>4 DEF IInv

LEMMA InsertIInv ==
  ASSUME IInv, NEW s \in Servers, NEW k \in Keys, Insert(s, k)
  PROVE  IInv'
<1> DEFINE new == Synced(k, 1, Null)
<1>1. /\ new \in TableRow
      /\ new.geom = new.text \/ (new.geom = Null /\ k[1] \notin trigger)
  BY BoundsAssumption DEF Synced, TableRow, Null
<1>2. row' = [row EXCEPT ![k] = new] /\ lapsed' = lapsed
      /\ UNCHANGED <<at, schema, check, trigger, account, faults>>
  BY DEF Insert
<1>3. lapsed' \subseteq Keys
  BY <1>2 DEF IInv, TypeOK
<1> HIDE DEF new
<1> QED
  BY <1>1, <1>2, <1>3, RowStored

LEMMA EditIInv ==
  ASSUME IInv, NEW s \in Servers, NEW k \in Keys, Edit(s, k)
  PROVE  IInv'
<1> DEFINE new == Synced(k, row[k].text + 1, row[k].geom)
<1>1. row[k] \in TableRow /\ row[k].text < MaxText
  BY DEF IInv, TypeOK, Edit
<1>2. row[k].text + 1 \in 1..MaxText /\ row[k].text + 1 \in 0..MaxText
      /\ row[k].geom \in 0..MaxText
  BY <1>1, BoundsAssumption DEF TableRow
<1>3. new \in TableRow
      /\ new.geom = IF k[1] \in trigger THEN new.text ELSE row[k].geom
  BY <1>2 DEF Synced, TableRow
<1>4. row' = [row EXCEPT ![k] = new]
      /\ lapsed' = (IF k[1] \in trigger \/ row[k].geom = Null THEN lapsed \ {k}
                    ELSE lapsed \cup {k})
      /\ UNCHANGED <<at, schema, check, trigger, account, faults>>
  BY DEF Edit, IInv, TypeOK
<1>5. lapsed' \subseteq Keys
      /\ \A j \in Keys : j # k => (j \in lapsed' <=> j \in lapsed)
  BY <1>4 DEF IInv, TypeOK
<1>6. \/ new.geom = new.text
      \/ k \in lapsed' /\ new.geom # Null
      \/ new.geom = Null /\ k[1] \notin trigger
  BY <1>3, <1>4
<1> HIDE DEF new
<1> QED
  BY <1>3, <1>4, <1>5, <1>6, RowStored

LEMMA InitIInv == Init => IInv
<1> SUFFICES ASSUME Init PROVE IInv
  OBVIOUS
<1>1. \A s \in Servers : at[s] = 0
  BY DEF Init
<1>2. ASSUME NEW p \in Nat PROVE Behind(p)
  BY <1>1, ServersAssumption DEF Behind
<1>3. \A k \in Keys : row[k] = Absent \/ row[k] = [text |-> 1, geom |-> Null]
  BY DEF Init
<1>4. TypeOK
  <2>1. Ending \in Nat /\ Len(Statements) = Ending
    BY StatementKinds
  <2>2. [text |-> 1, geom |-> Null] \in TableRow
    BY BoundsAssumption DEF TableRow, Null
  <2>3. at \in [Servers -> 0..(Len(Statements) + 1)]
    BY <2>1 DEF Init
  <2>4. row \in [Keys -> TableRow \cup {Absent}]
    BY <2>2 DEF Init
  <2>5. account \in [ToSet(Seeds) -> {"seeded", "changed", Absent}]
    BY DEF Init
  <2>6. /\ schema \subseteq {"tables", "spatial"} /\ check \in {"none", "legacy", "current"}
        /\ trigger \subseteq ToSet(Tables) /\ lapsed \subseteq Keys
        /\ faults \in 0..MaxFaults
    BY BoundsAssumption DEF Init
  <2> QED
    BY <2>3, <2>4, <2>5, <2>6 DEF TypeOK
<1>5. SchemaInTime
  BY <1>1 DEF SchemaInTime
<1>6. CheckInTime /\ TriggerInTime
  <2>1. \A i \in 1..Len(Tables) : 4 + 2 * i \in Nat
    BY Lists
  <2> QED
    BY <1>2, <2>1 DEF CheckInTime, TriggerInTime
<1>7. RowsInTime
  <2>1. \A i \in 1..Len(Tables) : Triggered + i \in Nat
    BY Lists
  <2> QED
    BY <1>2, <1>3, <2>1 DEF RowsInTime, Null
<1> QED
  BY <1>4, <1>5, <1>6, <1>7 DEF IInv

LEMMA NextIInv == IInv /\ [Next]_vars => IInv'
<1> SUFFICES ASSUME IInv, [Next]_vars PROVE IInv'
  OBVIOUS
<1>1. ASSUME NEW s \in Servers, Launch(s) PROVE IInv'
  <2>1. MovesTo(s, 1) /\ UNCHANGED database /\ faults' \in 0..MaxFaults
    BY <1>1 DEF Launch, MovesTo, IInv, TypeOK
  <2> QED
    BY <2>1, LaunchOrExit
<1>2. ASSUME NEW s \in Servers, Fault(s) PROVE IInv'
  <2>1. MovesTo(s, 0) /\ UNCHANGED database /\ faults' \in 0..MaxFaults
    BY <1>2, BoundsAssumption DEF Fault, Exit, MovesTo, IInv, TypeOK
  <2> QED
    BY <2>1, LaunchOrExit
<1>3. ASSUME NEW s \in Servers, StartUp(s) PROVE IInv'
  BY <1>1, <1>3, AutoMigrateIInv, DropCheckIInv, AddCheckIInv, AddSpatialIInv,
     DropTriggerIInv, CreateTriggerIInv, BackfillIInv, FindSeedIInv, CreateSeedIInv
     DEF StartUp
<1>4. ASSUME NEW a \in ToSet(Seeds), ChangeAccount(a) PROVE IInv'
  BY <1>4 DEF ChangeAccount, IInv, TypeOK, SchemaInTime, CheckInTime,
     TriggerInTime, RowsInTime, Behind
<1>5. CASE UNCHANGED vars
  BY <1>5 DEF vars, database, IInv, TypeOK, SchemaInTime, CheckInTime,
     TriggerInTime, RowsInTime, Behind
<1> QED
  BY <1>2, <1>3, <1>4, <1>5, InsertIInv, EditIInv DEF Next

------------------------------------------------------------------------------
\* Nobody is behind when every server serves.
LEMMA NobodyBehind ==
  ASSUME IInv, AllServe, NEW p \in Nat, p <= Backfilled
  PROVE  ~ Behind(p)
<1>1. \A s \in Servers : at[s] = Ending + 1
  BY StatementKinds DEF AllServe, Serving
<1>2. Backfilled <= Ending /\ Backfilled \in Nat /\ Ending \in Nat
  BY Lists, StatementKinds
<1> QED
  BY <1>1, <1>2 DEF Behind

LEMMA CompleteWhenServing == IInv => SchemaComplete
<1> SUFFICES ASSUME IInv, AllServe
             PROVE  /\ schema = {"tables", "spatial"}
                    /\ check = "current"
                    /\ trigger = ToSet(Tables)
  BY DEF IInv, SchemaComplete
<1>1. schema = {"tables", "spatial"}
  <2>1. PICK s \in Servers : TRUE
    BY ServersAssumption
  <2>2. at[s] > 1 /\ at[s] > 4
    BY Lists, StatementKinds DEF AllServe, Serving
  <2> QED
    BY <2>2 DEF IInv, TypeOK, SchemaInTime
<1>2. check = "current"
  <2>1. 3 \in Nat /\ 3 <= Backfilled
    BY Lists
  <2> QED
    BY <2>1, NobodyBehind DEF IInv, CheckInTime
<1>3. ASSUME NEW t \in ToSet(Tables) PROVE t \in trigger
  <2>1. PICK i \in 1..Len(Tables) : t = Tables[i]
    BY Lists
  <2>2. 4 + 2 * i \in Nat /\ 4 + 2 * i <= Backfilled
    BY Lists
  <2> QED
    BY <2>1, <2>2, NobodyBehind DEF IInv, TriggerInTime
<1> QED
  BY <1>1, <1>2, <1>3 DEF IInv, TypeOK

LEMMA FollowsWhenServing == IInv => GeometryFollows
<1> SUFFICES ASSUME IInv, AllServe, NEW k \in Keys, row[k] # Absent
             PROVE  \/ row[k].geom = row[k].text
                    \/ k \in lapsed /\ row[k].geom # Null
  BY DEF GeometryFollows
<1>1. PICK i \in 1..Len(Tables) : k[1] = Tables[i]
  BY Lists
<1>2. Triggered + i \in Nat /\ Triggered + i <= Backfilled
  BY Lists
<1>3. ~ Behind(Triggered + i)
  BY <1>2, NobodyBehind
<1> QED
  BY <1>1, <1>3 DEF IInv, RowsInTime

\* However many servers start at once, race each other for the constraint and
\* the triggers, fail and start again: when all of them serve, the schema is
\* whole (MigrateAndSeed and migratePostGIS).
THEOREM Completeness == Spec => []SchemaComplete
<1>1. IInv => SchemaComplete
  BY CompleteWhenServing
<1> QED
  BY <1>1, InitIInv, NextIInv, PTL DEF Spec

\* When all servers serve, every spatial column follows its GeoJSON, but for
\* boundaries edited while a trigger was missing (migratePostGIS, the backfill).
THEOREM Materialization == Spec => []GeometryFollows
<1>1. IInv => GeometryFollows
  BY FollowsWhenServing
<1> QED
  BY <1>1, InitIInv, NextIInv, PTL DEF Spec

\* No start, repeated or concurrent, touches an account an administrator has
\* changed (MigrateAndSeed, the loop over the demo accounts).
THEOREM AccountsKept == Spec => StartsKeepAccounts
<1> DEFINE Kept == \A a \in ToSet(Seeds) : account[a] = "changed" => account'[a] = "changed"
<1>1. IInv /\ [Next]_vars => Kept
  <2> SUFFICES ASSUME IInv, Next, NEW a \in ToSet(Seeds), account[a] = "changed"
               PROVE  account'[a] = "changed"
    BY DEF vars
  <2>1. account \in [ToSet(Seeds) -> {"seeded", "changed", Absent}]
    BY DEF IInv, TypeOK
  <2>2. ASSUME NEW s \in Servers, CreateSeed(s) PROVE account'[a] = "changed"
    <3>1. CASE account[On(s)] = Absent
      <4>1. On(s) # a
        BY <3>1, AbsentAssumption
      <4> QED
        BY <2>1, <2>2, <3>1, <4>1 DEF CreateSeed
    <3>2. CASE account[On(s)] # Absent
      BY <2>2, <3>2 DEF CreateSeed
    <3> QED
      BY <3>1, <3>2
  <2>3. ASSUME NEW b \in ToSet(Seeds), ChangeAccount(b) PROVE account'[a] = "changed"
    BY <2>1, <2>3 DEF ChangeAccount
  <2>4. ASSUME NEW s \in Servers, StartUp(s) PROVE account'[a] = "changed"
    BY <2>2, <2>4 DEF StartUp, Launch, AutoMigrate, DropCheck, AddCheck, AddSpatial,
       DropTrigger, CreateTrigger, Backfill, FindSeed, database
  <2>5. ASSUME NEW s \in Servers, NEW k \in Keys, Insert(s, k) \/ Edit(s, k)
        PROVE  account'[a] = "changed"
    BY <2>5 DEF Insert, Edit
  <2>6. ASSUME NEW s \in Servers, Fault(s) PROVE account'[a] = "changed"
    BY <2>6 DEF Fault, database
  <2> QED
    BY <2>3, <2>4, <2>5, <2>6 DEF Next
<1>2. Spec => [][Kept]_vars
  BY <1>1, InitIInv, NextIInv, PTL DEF Spec
<1> QED
  BY <1>2 DEF StartsKeepAccounts

------------------------------------------------------------------------------
(***************************************************************************)
(* What becomes of a table that is served: the parcels (Parcels), for      *)
(* every set of users, parcels, codes and values, any number of requests   *)
(* in flight and every bound on versions.                                  *)
(***************************************************************************)
------------------------------------------------------------------------------
LEMMA ParcelJobKinds ==
  ASSUME ParcelsTypeOK, NEW w \in Workers
  PROVE  /\ job[w].op = "create" => job[w] \in CreateJob
         /\ job[w].op = "update" => job[w] \in UpdateJob
<1>1. job[w] \in {Idle} \cup CreateJob \cup UpdateJob
  BY DEF ParcelsTypeOK
<1> QED BY <1>1 DEF Idle, CreateJob, UpdateJob

LEMMA ParcelRows ==
  ASSUME ParcelsTypeOK, NEW id \in ParcelIds, parcel[id] # NoParcel
  PROVE  parcel[id] \in Row
BY DEF ParcelsTypeOK

LEMMA Overlays ==
  ASSUME NEW data \in Contents, NEW patch \in Patch
  PROVE  /\ Overlay(data, patch) \in Contents
         /\ \A c \in Columns :
              Overlay(data, patch)[c] = IF patch[c] = Keep THEN data[c] ELSE patch[c]
BY DEF Overlay, Contents, Patch

\* The UPDATE keeps a row a row, and its code.
LEMMA WrittenColumns ==
  ASSUME NEW stored \in Row, NEW item \in Row, NEW patch \in Patch
  PROVE  LET new == Written(stored, item, patch) IN
           /\ new \in Row /\ new # NoParcel
           /\ new.code = stored.code /\ new.data = Overlay(item.data, patch)
           /\ new.version = stored.version + 1
<1> DEFINE data == Overlay(item.data, patch)
<1>1. data \in Contents
  BY Overlays DEF Row
<1>2. Written(stored, item, patch) = [stored EXCEPT !.data = data, !.version = @ + 1]
  BY DEF Written
<1> HIDE DEF data
<1>3. Written(stored, item, patch) =
        [code |-> stored.code, data |-> data, version |-> stored.version + 1]
  BY <1>2 DEF Row
<1>4. Written(stored, item, patch) \in Row
  BY <1>1, <1>3 DEF Row
<1> QED BY <1>3, <1>4, NoParcelAssumption DEF data

\* What a committed creation and a committed update do, to one row and its trail.
Created(w) == [code |-> job[w].code, data |-> job[w].data, version |-> 1]
FirstEntry(w) ==
  [by |-> job[w].by, patch |-> job[w].data, before |-> NoStamp, after |-> Stamp(Created(w))]
Creates(w, id) ==
  /\ job[w] \in CreateJob /\ parcel[id] = NoParcel /\ ~ CodeTaken(job[w].code)
  /\ Created(w) \in Row /\ FirstEntry(w) \in Entry
  /\ parcel' = [parcel EXCEPT ![id] = Created(w)]
  /\ trail' = [trail EXCEPT ![id] = <<FirstEntry(w)>>]
  /\ Finish(w)

NextEntry(w) ==
  [by |-> job[w].by, patch |-> job[w].patch, before |-> Stamp(job[w].item),
   after |-> [data |-> Overlay(job[w].item.data, job[w].patch),
              version |-> job[w].item.version]]
NewRow(w, id) == Written(parcel[id], job[w].item, job[w].patch)
Updates(w, id) ==
  /\ job[w] \in UpdateJob /\ job[w].id = id
  /\ parcel[id] # NoParcel /\ parcel[id].version = job[w].version
  /\ NextEntry(w) \in Entry
  /\ parcel' = [parcel EXCEPT ![id] = NewRow(w, id)]
  /\ trail' = [trail EXCEPT ![id] = Append(trail[id], NextEntry(w))]
  /\ Finish(w)

LEMMA CreateIsInsert ==
  ASSUME ParcelsTypeOK, NEW w \in Workers, NEW id \in ParcelIds, CommitCreate(w, id)
  PROVE  Creates(w, id)
<1>1. job[w] \in CreateJob
  BY ParcelJobKinds DEF CommitCreate
<1>2. Created(w) \in Row
  BY <1>1 DEF Created, CreateJob, Row
<1>3. FirstEntry(w) \in Entry
  BY <1>1 DEF FirstEntry, Created, Entry, Stamp, Stamps, CreateJob, Contents, Patch
<1> QED BY <1>1, <1>2, <1>3
        DEF Creates, CommitCreate, Created, FirstEntry, IndexRefuses

LEMMA UpdateIsWrite ==
  ASSUME ParcelsTypeOK, NEW w \in Workers, CommitUpdate(w)
  PROVE  \E id \in ParcelIds : Updates(w, id)
<1> DEFINE id == job[w].id
<1>1. job[w] \in UpdateJob /\ id \in ParcelIds
  BY ParcelJobKinds DEF CommitUpdate, UpdateJob
<1>2. /\ job[w].item \in Row /\ job[w].item.data \in Contents
      /\ job[w].patch \in Patch /\ job[w].by \in Users
      /\ job[w].item.version \in Nat
  BY <1>1 DEF UpdateJob, Row
<1>3. NextEntry(w) \in Entry
  BY <1>2, Overlays DEF NextEntry, Entry, Stamp, Stamps
<1>4. /\ parcel[id] # NoParcel /\ parcel[id].version = job[w].version
      /\ parcel' = [parcel EXCEPT ![id] = NewRow(w, id)]
      /\ trail' = [trail EXCEPT ![id] = Append(trail[id], NextEntry(w))]
      /\ Finish(w)
  BY DEF CommitUpdate, NextEntry, NewRow, AtVersion
<1> QED BY <1>1, <1>3, <1>4 DEF Updates

LEMMA NewRowIsRow ==
  ASSUME ParcelsTypeOK, NEW w \in Workers, NEW id \in ParcelIds, Updates(w, id)
  PROVE  /\ NewRow(w, id) \in Row /\ NewRow(w, id) # NoParcel
         /\ NewRow(w, id).code = parcel[id].code
         /\ NewRow(w, id).data = Overlay(job[w].item.data, job[w].patch)
         /\ NewRow(w, id).version = parcel[id].version + 1
<1>1. parcel[id] \in Row /\ job[w].item \in Row /\ job[w].patch \in Patch
  BY ParcelRows DEF Updates, UpdateJob
<1> QED BY <1>1, WrittenColumns DEF NewRow

\* To the rows a step is an insert, a write, or nothing.
LEMMA ParcelSteps ==
  ASSUME ParcelsTypeOK, [ParcelsNext]_registry
  PROVE  \/ \E w \in Workers, id \in ParcelIds : Creates(w, id) \/ Updates(w, id)
         \/ UNCHANGED rows
BY CreateIsInsert, UpdateIsWrite
   DEF ParcelsNext, registry, rows, FindCode, RefuseCreate, ReadParcel, RefuseUpdate, Abort

------------------------------------------------------------------------------
LEMMA InitParcels == ParcelsInit => ParcelsTypeOK
BY DEF ParcelsInit, ParcelsTypeOK

LEMMA ParcelsTyped == ParcelsTypeOK /\ [ParcelsNext]_registry => ParcelsTypeOK'
<1> SUFFICES ASSUME ParcelsTypeOK, [ParcelsNext]_registry PROVE ParcelsTypeOK'
  OBVIOUS
<1>1. ASSUME NEW w \in Workers, NEW id \in ParcelIds, Creates(w, id)
      PROVE  ParcelsTypeOK'
  BY <1>1 DEF Creates, Finish, ParcelsTypeOK
<1>2. ASSUME NEW w \in Workers, NEW id \in ParcelIds, Updates(w, id)
      PROVE  ParcelsTypeOK'
  <2>1. Append(trail[id], NextEntry(w)) \in Seq(Entry)
    BY <1>2, AppendProperties DEF Updates, ParcelsTypeOK
  <2>2. NewRow(w, id) \in Row
    BY <1>2, NewRowIsRow
  <2> QED BY <1>2, <2>1, <2>2 DEF Updates, Finish, ParcelsTypeOK
<1>3. ASSUME NEW w \in Workers, NEW u \in Users, NEW code \in Codes, NEW data \in Contents,
             FindCode(w, u, code, data)
      PROVE  ParcelsTypeOK'
  <2>1. [op |-> "create", by |-> u, code |-> code, data |-> data] \in CreateJob
    BY DEF CreateJob
  <2> QED BY <1>3, <2>1 DEF FindCode, rows, ParcelsTypeOK
<1>4. ASSUME NEW w \in Workers, NEW u \in Users, NEW id \in ParcelIds, NEW patch \in Patch,
             NEW named \in 1..(MaxVersion + Ahead) \cup {Unnamed},
             ReadParcel(w, u, id, patch, named)
      PROVE  ParcelsTypeOK'
  <2> DEFINE v == IF named = Unnamed THEN parcel[id].version ELSE named
  <2>1. parcel[id] \in Row
    BY <1>4, ParcelRows DEF ReadParcel
  <2>2. v \in Nat
    BY <2>1, VersionAssumption DEF Row
  <2>3. job' = [job EXCEPT ![w] = [op |-> "update", by |-> u, id |-> id, patch |-> patch,
                                   item |-> parcel[id], version |-> v]]
    BY <1>4 DEF ReadParcel
  <2> HIDE DEF v
  <2>4. [op |-> "update", by |-> u, id |-> id, patch |-> patch,
         item |-> parcel[id], version |-> v] \in UpdateJob
    BY <2>1, <2>2 DEF UpdateJob
  <2> QED BY <1>4, <2>3, <2>4 DEF ReadParcel, rows, ParcelsTypeOK
<1>5. ASSUME NEW w \in Workers, RefuseCreate(w) \/ RefuseUpdate(w) \/ Abort(w)
      PROVE  ParcelsTypeOK'
  BY <1>5 DEF RefuseCreate, RefuseUpdate, Abort, Finish, rows, ParcelsTypeOK
<1>6. CASE UNCHANGED registry
  BY <1>6 DEF registry, ParcelsTypeOK
<1> QED BY <1>1, <1>2, <1>3, <1>4, <1>5, <1>6, CreateIsInsert, UpdateIsWrite DEF ParcelsNext

\* Rows, audit rows and requests in flight stay typed, whatever version a PATCH
\* names.
THEOREM ParcelsTyping == ParcelsSpec => []ParcelsTypeOK
BY InitParcels, ParcelsTyped, PTL DEF ParcelsSpec

------------------------------------------------------------------------------
LEMMA CodesStayUnique ==
  ParcelsTypeOK /\ UniqueCodes /\ [ParcelsNext]_registry => UniqueCodes'
<1> SUFFICES ASSUME ParcelsTypeOK, UniqueCodes, [ParcelsNext]_registry PROVE UniqueCodes'
  OBVIOUS
<1>1. ASSUME NEW w \in Workers, NEW id \in ParcelIds, Creates(w, id)
      PROVE  UniqueCodes'
  <2>1. /\ parcel'[id].code = job[w].code
        /\ \A i \in ParcelIds \ {id} : parcel'[i] = parcel[i]
    BY <1>1 DEF Creates, Created, ParcelsTypeOK
  <2>2. \A i \in ParcelIds : parcel[i] # NoParcel => parcel[i].code # job[w].code
    BY <1>1 DEF Creates, CodeTaken
  <2> QED BY <2>1, <2>2 DEF UniqueCodes
<1>2. ASSUME NEW w \in Workers, NEW id \in ParcelIds, Updates(w, id)
      PROVE  UniqueCodes'
  <2>1. /\ parcel'[id].code = parcel[id].code /\ parcel[id] # NoParcel
        /\ \A i \in ParcelIds \ {id} : parcel'[i] = parcel[i]
    BY <1>2, NewRowIsRow DEF Updates, ParcelsTypeOK
  <2> QED BY <2>1 DEF UniqueCodes
<1>3. CASE UNCHANGED rows
  BY <1>3 DEF rows, UniqueCodes
<1> QED BY <1>1, <1>2, <1>3, ParcelSteps

\* No two parcels share a code, however many creations race for it.
THEOREM DistinctCodes == ParcelsSpec => []UniqueCodes
<1>1. ParcelsInit => UniqueCodes
  BY DEF ParcelsInit, UniqueCodes
<1> QED BY <1>1, CodesStayUnique, ParcelsTyping, PTL DEF ParcelsSpec

------------------------------------------------------------------------------
\* What an update under way can rely on: its row is still there, is the row that
\* was read as long as the version is, and the version it will ask for is none
\* that was still to come when it read.
JobIsFresh(w) ==
  job[w].op = "update" =>
    LET j == job[w]  stored == parcel[j.id] IN
      /\ stored # NoParcel
      /\ j.item.version <= stored.version
      /\ j.item.version = stored.version => j.item = stored
      /\ j.version <= j.item.version

JobsAreFresh == \A w \in Workers : JobIsFresh(w)

\* A trail that explains a row.
Explains(t, stored) ==
  /\ Chained(t)
  /\ stored.data = t[Len(t)].after.data /\ stored.version = Len(t)
  /\ \A c \in Columns : \E i \in Edits(t, c) :
       /\ \A j \in Edits(t, c) : j <= i
       /\ stored.data[c] = t[i].patch[c]

LEMMA EditsSurviveIsExplains ==
  EditsSurvive <=> \A id \in ParcelIds : parcel[id] # NoParcel => Explains(trail[id], parcel[id])
BY DEF EditsSurvive, Explains

LEMMA ParcelsMove ==
  ASSUME ParcelsTypeOK, [ParcelsNext]_registry, NEW id \in ParcelIds, parcel[id] # NoParcel
  PROVE  /\ parcel'[id] # NoParcel
         /\ parcel'[id] = parcel[id] \/ parcel'[id].version = parcel[id].version + 1
<1>1. ASSUME NEW w \in Workers, NEW i \in ParcelIds, Creates(w, i)
      PROVE  parcel'[id] = parcel[id]
  BY <1>1 DEF Creates, ParcelsTypeOK
<1>2. ASSUME NEW w \in Workers, NEW i \in ParcelIds, Updates(w, i)
      PROVE  /\ parcel'[id] # NoParcel
             /\ parcel'[id] = parcel[id] \/ parcel'[id].version = parcel[id].version + 1
  BY <1>2, NewRowIsRow DEF Updates, ParcelsTypeOK
<1> QED BY <1>1, <1>2, ParcelSteps DEF rows

LEMMA ParcelJobMoves ==
  ASSUME ParcelsTypeOK, [ParcelsNext]_registry, NEW w \in Workers, job'[w].op = "update"
  PROVE  \/ job'[w] = job[w]
         \/ \E u \in Users, id \in ParcelIds, patch \in Patch,
               named \in 1..(MaxVersion + Ahead) \cup {Unnamed} :
               ReadParcel(w, u, id, patch, named)
<1>1. ASSUME NEW v \in Workers,
             \/ \E id \in ParcelIds : CommitCreate(v, id)
             \/ CommitUpdate(v) \/ RefuseCreate(v) \/ RefuseUpdate(v) \/ Abort(v)
      PROVE  job'[w] = job[w]
  BY <1>1 DEF CommitCreate, CommitUpdate, RefuseCreate, RefuseUpdate, Abort, Finish, Idle, ParcelsTypeOK
<1>2. ASSUME NEW v \in Workers, NEW u \in Users, NEW code \in Codes, NEW data \in Contents,
             FindCode(v, u, code, data)
      PROVE  job'[w] = job[w]
  BY <1>2 DEF FindCode, ParcelsTypeOK
<1>3. ASSUME NEW v \in Workers, v # w, NEW u \in Users, NEW id \in ParcelIds, NEW patch \in Patch,
             NEW named \in 1..(MaxVersion + Ahead) \cup {Unnamed},
             ReadParcel(v, u, id, patch, named)
      PROVE  job'[w] = job[w]
  BY <1>3 DEF ReadParcel, ParcelsTypeOK
<1>4. CASE UNCHANGED registry
  BY <1>4 DEF registry
<1> QED BY <1>1, <1>2, <1>3, <1>4 DEF ParcelsNext

LEMMA JobsStayFresh ==
  ASSUME Ahead = 0, ParcelsTypeOK, JobsAreFresh, [ParcelsNext]_registry
  PROVE  JobsAreFresh'
<1> SUFFICES ASSUME NEW w \in Workers, job'[w].op = "update" PROVE JobIsFresh(w)'
  BY DEF JobsAreFresh, JobIsFresh
<1>1. CASE job'[w] = job[w]
  <2> DEFINE id == job[w].id
  <2>1. /\ job[w] \in UpdateJob /\ JobIsFresh(w)
        /\ parcel[id] # NoParcel
    BY <1>1, ParcelJobKinds DEF JobsAreFresh, JobIsFresh
  <2>2. /\ id \in ParcelIds /\ parcel[id] \in Row
        /\ parcel[id].version \in Nat /\ job[w].item.version \in Nat
    BY <2>1, ParcelRows DEF UpdateJob, Row
  <2>3. /\ parcel'[id] # NoParcel
        /\ parcel'[id] = parcel[id] \/ parcel'[id].version = parcel[id].version + 1
    BY <2>1, <2>2, ParcelsMove
  <2> QED BY <1>1, <2>1, <2>2, <2>3 DEF JobIsFresh
<1>2. ASSUME NEW u \in Users, NEW id \in ParcelIds, NEW patch \in Patch,
             NEW named \in 1..(MaxVersion + Ahead) \cup {Unnamed},
             ReadParcel(w, u, id, patch, named)
      PROVE  JobIsFresh(w)'
  <2> DEFINE v == IF named = Unnamed THEN parcel[id].version ELSE named
  <2>1. parcel[id] # NoParcel /\ parcel[id] \in Row /\ UNCHANGED parcel
    BY <1>2, ParcelRows DEF ReadParcel, rows
  <2>2. parcel[id].version \in Nat
    BY <2>1 DEF Row
  <2>3. v <= parcel[id].version
    BY <1>2, <2>2 DEF ReadParcel
  <2>4. job'[w] = [op |-> "update", by |-> u, id |-> id, patch |-> patch,
                   item |-> parcel[id], version |-> v]
    BY <1>2 DEF ReadParcel, ParcelsTypeOK
  <2> HIDE DEF v
  <2> QED BY <2>1, <2>2, <2>3, <2>4 DEF JobIsFresh
<1> QED BY <1>1, <1>2, ParcelJobMoves

\* An update whose version is found in the row found the very row it had read.
LEMMA UpdatesCopy ==
  ASSUME ParcelsTypeOK, JobsAreFresh, NEW w \in Workers, NEW id \in ParcelIds, Updates(w, id)
  PROVE  job[w].item = parcel[id]
<1>1. job[w] \in UpdateJob /\ job[w].op = "update" /\ job[w].id = id /\ parcel[id] # NoParcel
  BY DEF Updates, UpdateJob
<1>2. /\ parcel[id].version = job[w].version
      /\ parcel[id].version \in Nat /\ job[w].item.version \in Nat
  BY <1>1, ParcelRows DEF Updates, UpdateJob, Row
<1> QED BY <1>1, <1>2 DEF JobsAreFresh, JobIsFresh

LEMMA FirstEntryExplains ==
  ASSUME NEW w \in Workers, NEW id \in ParcelIds, Creates(w, id)
  PROVE  Explains(<<FirstEntry(w)>>, Created(w))
<1> DEFINE e == FirstEntry(w)  t == <<FirstEntry(w)>>
<1>1. e.before = NoStamp /\ e.after.data = Created(w).data /\ e.patch = Created(w).data
  BY DEF FirstEntry, Stamp, Created
<1>2. Created(w).version = 1 /\ Created(w).data \in Contents
  BY DEF Creates, Created, CreateJob
<1> HIDE DEF e
<1>3. Len(t) = 1 /\ t[1] = e
  BY DEF e
<1> HIDE DEF t
<1>4. Chained(t)
  BY <1>1, <1>3 DEF Chained
<1>5. ASSUME NEW c \in Columns
      PROVE  Edits(t, c) = {1} /\ Created(w).data[c] = t[1].patch[c]
  <2>1. e.patch[c] # Keep
    BY <1>1, <1>2, MarksAssumption DEF Contents
  <2> QED BY <1>1, <1>3, <2>1 DEF Edits
<1>6. Explains(t, Created(w))
  BY <1>1, <1>2, <1>3, <1>4, <1>5 DEF Explains
<1> QED BY <1>6 DEF t

\* One more audit row, from a copy that is the row, explains what was written.
LEMMA NextEntryExplains ==
  ASSUME ParcelsTypeOK, NEW w \in Workers, NEW id \in ParcelIds, Updates(w, id),
         job[w].item = parcel[id], Explains(trail[id], parcel[id])
  PROVE  Explains(Append(trail[id], NextEntry(w)), NewRow(w, id))
<1> DEFINE t == trail[id]  e == NextEntry(w)  u == Append(trail[id], NextEntry(w))
           new == NewRow(w, id)
<1>1. /\ u \in Seq(Entry) /\ Len(u) = Len(t) + 1 /\ u[Len(u)] = e
      /\ \A i \in 1..Len(t) : u[i] = t[i]
      /\ Len(t) \in Nat
  BY AppendProperties, LenProperties DEF Updates, ParcelsTypeOK
<1>2. /\ parcel[id] \in Row /\ parcel[id].version \in Nat /\ parcel[id].data \in Contents
      /\ job[w].patch \in Patch
  BY ParcelRows DEF Updates, UpdateJob, Row
<1>3. /\ e.patch = job[w].patch
      /\ e.before = [data |-> parcel[id].data, version |-> parcel[id].version]
      /\ e.after.data = Overlay(parcel[id].data, job[w].patch)
  BY DEF NextEntry, Stamp
<1>4. /\ new.data = Overlay(parcel[id].data, job[w].patch)
      /\ new.version = parcel[id].version + 1
  BY NewRowIsRow
<1>5. /\ Chained(t) /\ parcel[id].data = t[Len(t)].after.data /\ parcel[id].version = Len(t)
      /\ \A c \in Columns : \E i \in Edits(t, c) :
           /\ \A j \in Edits(t, c) : j <= i
           /\ parcel[id].data[c] = t[i].patch[c]
  BY DEF Explains
<1>6. Len(t) > 0
  <2>1. "boundary" \in Columns
    BY DEF Columns
  <2>2. PICK i \in Edits(t, "boundary") : TRUE
    BY <1>5, <2>1
  <2> QED BY <1>1, <2>2 DEF Edits
<1> HIDE DEF t, e, u, new
<1>7. Chained(u)
  <2>1. u[1].before = NoStamp
    BY <1>1, <1>5, <1>6 DEF Chained
  <2>2. ASSUME NEW i \in 2..Len(u)
        PROVE  u[i].before = [data |-> u[i - 1].after.data, version |-> i - 1]
    <3>1. CASE i = Len(u)
      <4>1. u[i] = e /\ i - 1 = Len(t) /\ u[i - 1] = t[Len(t)]
        BY <1>1, <1>6, <3>1
      <4> QED BY <1>3, <1>5, <4>1
    <3>2. CASE i # Len(u)
      <4>1. i \in 2..Len(t) /\ u[i] = t[i] /\ u[i - 1] = t[i - 1]
        BY <1>1, <2>2, <3>2
      <4> QED BY <1>5, <4>1 DEF Chained
    <3> QED BY <3>1, <3>2
  <2> QED BY <2>1, <2>2 DEF Chained
<1>8. ASSUME NEW c \in Columns
      PROVE  \E i \in Edits(u, c) : /\ \A j \in Edits(u, c) : j <= i
                                    /\ new.data[c] = u[i].patch[c]
  <2>1. new.data[c] = IF e.patch[c] = Keep THEN parcel[id].data[c] ELSE e.patch[c]
    BY <1>2, <1>3, <1>4, Overlays
  <2>2. CASE e.patch[c] = Keep
    <3>1. Edits(u, c) = Edits(t, c)
      BY <1>1, <2>2 DEF Edits
    <3>2. PICK i \in Edits(t, c) : /\ \A j \in Edits(t, c) : j <= i
                                   /\ parcel[id].data[c] = t[i].patch[c]
      BY <1>5
    <3>3. u[i] = t[i]
      BY <1>1, <3>2 DEF Edits
    <3> QED BY <2>1, <2>2, <3>1, <3>2, <3>3
  <2>3. CASE e.patch[c] # Keep
    <3>1. Len(u) \in Edits(u, c) /\ \A j \in Edits(u, c) : j <= Len(u)
      BY <1>1, <2>3 DEF Edits
    <3> QED BY <1>1, <2>1, <2>3, <3>1
  <2> QED BY <2>2, <2>3
<1>9. new.data = u[Len(u)].after.data /\ new.version = Len(u)
  BY <1>1, <1>3, <1>4, <1>5
<1>10. Explains(u, new)
  BY <1>7, <1>8, <1>9 DEF Explains
<1> QED BY <1>10 DEF u, new

LEMMA EditsStay ==
  ASSUME ParcelsTypeOK, JobsAreFresh, EditsSurvive, [ParcelsNext]_registry
  PROVE  EditsSurvive'
<1> SUFFICES ASSUME NEW i \in ParcelIds, parcel'[i] # NoParcel
             PROVE  Explains(trail'[i], parcel'[i])
  BY DEF EditsSurvive, Explains
<1>1. parcel[i] # NoParcel => Explains(trail[i], parcel[i])
  BY EditsSurviveIsExplains
<1>2. ASSUME NEW w \in Workers, NEW id \in ParcelIds, Creates(w, id)
      PROVE  Explains(trail'[i], parcel'[i])
  <2>1. CASE i = id
    BY <1>2, <2>1, FirstEntryExplains DEF Creates, ParcelsTypeOK
  <2>2. CASE i # id
    BY <1>1, <1>2, <2>2 DEF Creates, ParcelsTypeOK
  <2> QED BY <2>1, <2>2
<1>3. ASSUME NEW w \in Workers, NEW id \in ParcelIds, Updates(w, id)
      PROVE  Explains(trail'[i], parcel'[i])
  <2>1. CASE i = id
    <3>1. job[w].item = parcel[id] /\ parcel[id] # NoParcel
      BY <1>3, UpdatesCopy DEF Updates
    <3>2. parcel'[id] = NewRow(w, id) /\ trail'[id] = Append(trail[id], NextEntry(w))
      BY <1>3 DEF Updates, ParcelsTypeOK
    <3> QED BY <1>1, <1>3, <2>1, <3>1, <3>2, NextEntryExplains
  <2>2. CASE i # id
    BY <1>1, <1>3, <2>2 DEF Updates, ParcelsTypeOK
  <2> QED BY <2>1, <2>2
<1>4. CASE UNCHANGED rows
  BY <1>1, <1>4 DEF rows
<1> QED BY <1>2, <1>3, <1>4, ParcelSteps

\* If no PATCH names a version that is still to come, no committed edit is lost:
\* every column shows the last request that set it, and the trail explains the
\* stored row without a gap.  (With Ahead = 1 TLC finds the edit that is undone.)
THEOREM NoLostEdit ==
  ASSUME Ahead = 0
  PROVE  ParcelsSpec => []EditsSurvive
<1>1. ParcelsInit => JobsAreFresh /\ EditsSurvive
  BY DEF ParcelsInit, JobsAreFresh, JobIsFresh, Idle, EditsSurvive
<1>2. ParcelsTypeOK /\ JobsAreFresh /\ EditsSurvive /\ [ParcelsNext]_registry => (JobsAreFresh /\ EditsSurvive)'
  BY JobsStayFresh, EditsStay
<1> QED BY <1>1, <1>2, ParcelsTyping, PTL DEF ParcelsSpec
==============================================================================
