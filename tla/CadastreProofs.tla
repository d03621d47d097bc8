--------------------------- MODULE CadastreProofs ---------------------------
(***************************************************************************)
(* Proofs about Conflicts, and about Cadastre, which composes it with the  *)
(* detections that file the conflicts and with the versions of parcels.    *)
(* Conflicts: what its requests rely on, and what its trail says, for      *)
(* every number of accounts, conflicts, proposals and requests in flight.  *)
(* Cadastre: Conflicts keeps its promises there, and the versions filed    *)
(* from a proposal to the draft derived from its conflict are in order.    *)
(***************************************************************************)
EXTENDS Cadastre, TLAPS

\* What a request in flight can rely on although it works from an old read: the
\* move it is about to make is a legal one from the state it read.
JobIsChecked(w) ==
  /\ job[w].op = "transition" =>
       CanConflictTransition(job[w].item.state, job[w].to)
  /\ job[w].op = "applying" => Applicable(job[w].item)

JobsAreChecked == \A w \in Workers : JobIsChecked(w)

\* The three properties of one conflict.
AppliedOnceAt(c) ==
  \/ derived[c] = << >> /\ Applications(trail[c]) = {}
  \/ /\ Len(derived[c]) = 1
     /\ conflict[c].state \in {"resolved", "closed"}
     /\ \E i \in 1..Len(trail[c]) :
          /\ Applications(trail[c]) = {i}
          /\ trail[c][i].by = derived[c][1].createdBy

ResolverAt(c) ==
  LET t == trail[c]  R == Resolutions(t) IN
    IF R = {} THEN conflict[c].resolvedBy = Nobody
    ELSE \E i \in R : (\A j \in R : j <= i) /\ conflict[c].resolvedBy = t[i].by

IInv == TypeOK /\ JobsAreChecked /\ TrailReplays /\ AppliedOnce /\ ResolverOfRecord

------------------------------------------------------------------------------
\* A request that has left idle holds a record of one of the two operations.
LEMMA JobKinds ==
  ASSUME TypeOK, NEW w \in Workers
  PROVE  /\ job[w].op = "transition" => job[w] \in TransitionJob
         /\ job[w].op = "applying" => job[w] \in ApplyJob
<1>1. job[w] \in {Idle} \cup TransitionJob \cup ApplyJob
  BY DEF TypeOK
<1> QED
  BY <1>1 DEF Idle, TransitionJob, ApplyJob

\* The UPDATE keeps a row a row, and names the resolver it is given.
LEMMA SettledRow ==
  ASSUME NEW row \in ConflictRow, NEW to \in ConflictStates,
         NEW who \in Users \cup {Nobody}
  PROVE  /\ Settled(row, to, who) \in ConflictRow
         /\ Settled(row, to, who).state = to
         /\ who # Nobody => Settled(row, to, who).resolvedBy = who
         /\ who = Nobody => Settled(row, to, who).resolvedBy = row.resolvedBy
BY DEF Settled, ConflictRow

\* One more audit row: what the sequence operators say of it, once for all.
LEMMA Appended ==
  ASSUME NEW S, NEW t \in Seq(S), NEW e \in S
  PROVE  /\ Append(t, e) \in Seq(S) /\ Append(t, e) # << >>
         /\ Len(t) \in Nat /\ Len(Append(t, e)) = Len(t) + 1
         /\ \A i \in 1..Len(t) : Append(t, e)[i] = t[i]
         /\ Append(t, e)[Len(t) + 1] = e
OBVIOUS

\* A row from, to of a legal edge extends a trail that ends at from.
LEMMA TrailGrows ==
  ASSUME NEW t \in Seq(Entry), NEW state, Replays(t, state),
         NEW e \in Entry, e.before = state, CanConflictTransition(e.before, e.after)
  PROVE  Replays(Append(t, e), e.after)
<1> DEFINE n == Len(t)  u == Append(t, e)
<1>1. /\ u \in Seq(Entry) /\ u # << >> /\ n \in Nat /\ Len(u) = n + 1
      /\ \A i \in 1..n : u[i] = t[i]
      /\ u[n + 1] = e
  BY Appended
<1>2. t = << >> <=> n = 0
  OBVIOUS
<1> HIDE DEF u, n
<1>3. ASSUME NEW i \in 1..n
      PROVE  /\ u[i].before = IF i = 1 THEN "detected" ELSE u[i - 1].after
             /\ CanConflictTransition(u[i].before, u[i].after)
  <2>1. i \in 1..Len(t)
    BY DEF n
  <2>2. t[i].before = IF i = 1 THEN "detected" ELSE t[i - 1].after
    BY <2>1 DEF Replays
  <2>3. CanConflictTransition(t[i].before, t[i].after)
    BY <2>1 DEF Replays
  <2>4. u[i] = t[i]
    BY <1>1
  <2>5. i = 1 \/ (i # 1 /\ u[i - 1] = t[i - 1])
    BY <1>1
  <2>6. u[i].before = IF i = 1 THEN "detected" ELSE u[i - 1].after
    BY <2>2, <2>4, <2>5
  <2>7. CanConflictTransition(u[i].before, u[i].after)
    BY <2>3, <2>4
  <2> QED
    BY <2>6, <2>7
<1>4. state = IF t = << >> THEN "detected" ELSE t[n].after
  BY DEF Replays, n
<1>5. u[n + 1].before = IF n + 1 = 1 THEN "detected" ELSE u[n + 1 - 1].after
  <2>1. CASE n = 0
    BY <1>1, <1>2, <1>4, <2>1
  <2>2. CASE n # 0
    <3>1. n \in 1..n /\ n + 1 - 1 = n /\ n + 1 # 1
      BY <1>1, <2>2
    <3>2. u[n] = t[n]
      BY <1>1, <3>1
    <3>3. u[n + 1].before = t[n].after
      BY <1>1, <1>2, <1>4, <2>2
    <3> QED
      BY <3>1, <3>2, <3>3
  <2> QED
    BY <2>1, <2>2
<1>6. \A i \in 1..(n + 1) : i \in 1..n \/ i = n + 1
  BY <1>1
<1>7. \A i \in 1..Len(u) :
        /\ u[i].before = IF i = 1 THEN "detected" ELSE u[i - 1].after
        /\ CanConflictTransition(u[i].before, u[i].after)
  BY <1>1, <1>3, <1>5, <1>6
<1> QED
  BY <1>1, <1>7 DEF Replays, u

\* Which rows of a longer trail are applications, and which resolve.
LEMMA HistoryGrows ==
  ASSUME NEW t \in Seq(Entry), NEW e \in Entry
  PROVE  LET u == Append(t, e)  n == Len(t) IN
         /\ Applications(u) = Applications(t) \cup
              (IF e.action = "suggestion_applied" THEN {n + 1} ELSE {})
         /\ Resolutions(u) = Resolutions(t) \cup
              (IF Resolving(e.after) THEN {n + 1} ELSE {})
<1> DEFINE n == Len(t)  u == Append(t, e)
<1>1. /\ n \in Nat /\ Len(u) = n + 1 /\ u[n + 1] = e
      /\ \A i \in 1..n : u[i] = t[i]
  BY Appended
<1>2. 1..(n + 1) = (1..n) \cup {n + 1}
  BY <1>1
<1> HIDE DEF u, n
<1>3. Applications(u) = Applications(t) \cup
        (IF e.action = "suggestion_applied" THEN {n + 1} ELSE {})
  BY <1>1, <1>2 DEF Applications, n
<1>4. Resolutions(u) = Resolutions(t) \cup
        (IF Resolving(e.after) THEN {n + 1} ELSE {})
  BY <1>1, <1>2 DEF Resolutions, n
<1> QED
  BY <1>3, <1>4 DEF u, n

------------------------------------------------------------------------------
\* What the two commits have in common: conflict c is found in the state that
\* was read, moved along a legal edge, and given one audit row.
Commits(c, e, who) ==
  /\ InState(c, e.before)
  /\ CanConflictTransition(e.before, e.after)
  /\ conflict' = [conflict EXCEPT ![c] = Settled(@, e.after, who)]
  /\ trail' = [trail EXCEPT ![c] = Append(@, e)]

LEMMA CommitKeepsTrail ==
  ASSUME TypeOK, TrailReplays, NEW c \in ConflictIds, NEW e \in Entry,
         NEW who \in Users \cup {Nobody}, Commits(c, e, who)
  PROVE  TrailReplays'
<1> SUFFICES ASSUME NEW d \in ConflictIds PROVE Replays(trail[d], conflict[d].state)'
  BY DEF TrailReplays
<1>1. trail[c] \in Seq(Entry) /\ conflict[c] \in ConflictRow
      /\ e.after \in ConflictStates
  BY DEF TypeOK, Entry
<1>2. CASE d = c
  <2>1. trail'[c] = Append(trail[c], e) /\ conflict'[c] = Settled(conflict[c], e.after, who)
    BY DEF Commits, TypeOK
  <2>2. conflict'[c].state = e.after
    BY <1>1, <2>1, SettledRow
  <2>3. Replays(trail[c], conflict[c].state) /\ e.before = conflict[c].state
        /\ CanConflictTransition(e.before, e.after)
    BY DEF TrailReplays, Commits, InState
  <2>4. Replays(Append(trail[c], e), e.after)
    BY <1>1, <2>3, TrailGrows
  <2> QED
    BY <1>2, <2>1, <2>2, <2>4 DEF Replays
<1>3. CASE d # c
  <2>1. trail'[d] = trail[d] /\ conflict'[d] = conflict[d]
    BY <1>3 DEF Commits, TypeOK
  <2> QED
    BY <2>1 DEF TrailReplays, Replays
<1> QED
  BY <1>2, <1>3

LEMMA CommitKeepsResolver ==
  ASSUME TypeOK, ResolverOfRecord, NEW c \in ConflictIds, NEW e \in Entry,
         NEW who \in Users \cup {Nobody}, Commits(c, e, who),
         who = IF Resolving(e.after) THEN e.by ELSE Nobody
  PROVE  ResolverOfRecord'
<1> SUFFICES ASSUME NEW d \in ConflictIds PROVE ResolverAt(d)'
  BY DEF ResolverOfRecord, ResolverAt
<1>0. ResolverAt(d)
  BY DEF ResolverOfRecord, ResolverAt
<1>1. trail[c] \in Seq(Entry) /\ conflict[c] \in ConflictRow
      /\ e.after \in ConflictStates /\ e.by \in Users
  BY DEF TypeOK, Entry
<1>2. CASE d = c
  <2> DEFINE t == trail[c]  u == Append(t, e)  n == Len(t)
  <2>1. trail'[c] = u /\ conflict'[c] = Settled(conflict[c], e.after, who)
    BY DEF Commits, TypeOK
  <2>2. Resolutions(u) = Resolutions(t) \cup
          (IF Resolving(e.after) THEN {n + 1} ELSE {})
    BY <1>1, HistoryGrows
  <2>3. n \in Nat /\ u[n + 1] = e /\ \A i \in 1..n : u[i] = t[i]
    BY <1>1, Appended
  <2>4. Resolutions(t) \subseteq 1..n
    BY DEF Resolutions
  <2> HIDE DEF t, u, n
  <2>5. CASE Resolving(e.after)
    <3>1. conflict'[c].resolvedBy = e.by
      BY <1>1, <2>1, <2>5, SettledRow, NobodyAssumption
    <3>2. n + 1 \in Resolutions(u) /\ \A j \in Resolutions(u) : j <= n + 1
      BY <2>2, <2>3, <2>4, <2>5
    <3> QED
      BY <1>2, <2>1, <2>3, <3>1, <3>2 DEF ResolverAt
  <2>6. CASE ~ Resolving(e.after)
    <3>1. conflict'[c].resolvedBy = conflict[c].resolvedBy
      BY <1>1, <2>1, <2>6, SettledRow
    <3>2. Resolutions(u) = Resolutions(t)
      BY <2>2, <2>6
    <3>3. \A i \in Resolutions(t) : u[i].by = t[i].by
      BY <2>3, <2>4
    <3> QED
      BY <1>0, <1>2, <2>1, <3>1, <3>2, <3>3 DEF ResolverAt, t
  <2> QED
    BY <2>5, <2>6
<1>3. CASE d # c
  <2>1. trail'[d] = trail[d] /\ conflict'[d] = conflict[d]
    BY <1>3 DEF Commits, TypeOK
  <2> QED
    BY <1>0, <2>1 DEF ResolverAt
<1> QED
  BY <1>2, <1>3

\* A conflict other than the one a commit moves keeps what is said of it.
LEMMA OthersApplied ==
  ASSUME NEW d \in ConflictIds, AppliedOnceAt(d), trail'[d] = trail[d],
         conflict'[d] = conflict[d], derived'[d] = derived[d]
  PROVE  AppliedOnceAt(d)'
BY DEF AppliedOnceAt

------------------------------------------------------------------------------
LEMMA InitIInv == Init => IInv
<1> SUFFICES ASSUME Init PROVE IInv
  OBVIOUS
<1>1. TypeOK
  BY DEF Init, TypeOK, ConflictRow, ConflictStates, Idle
<1>2. JobsAreChecked
  BY DEF Init, JobsAreChecked, JobIsChecked, Idle
<1>3. TrailReplays
  BY DEF Init, TrailReplays, Replays
<1>4. AppliedOnce
  BY DEF Init, AppliedOnce, Applications
<1>5. ResolverOfRecord
  BY DEF Init, ResolverOfRecord, Resolutions
<1> QED
  BY <1>1, <1>2, <1>3, <1>4, <1>5 DEF IInv

\* A step that touches no table keeps whatever is said of the tables.
LEMMA RowsStay ==
  ASSUME TrailReplays, AppliedOnce, ResolverOfRecord, UNCHANGED rows
  PROVE  TrailReplays' /\ AppliedOnce' /\ ResolverOfRecord'
BY DEF rows, TrailReplays, Replays, AppliedOnce, Applications, ResolverOfRecord,
       Resolutions

\* A worker that finishes relies on nothing; the others go on as they were.
LEMMA FinishKeepsJobs ==
  ASSUME TypeOK, JobsAreChecked, NEW w \in Workers, Finish(w)
  PROVE  JobsAreChecked' /\ job' \in [Workers -> {Idle} \cup TransitionJob \cup ApplyJob]
<1>1. \A v \in Workers : job'[v] = IF v = w THEN Idle ELSE job[v]
  BY DEF Finish, TypeOK
<1> QED
  BY <1>1 DEF Finish, TypeOK, JobsAreChecked, JobIsChecked, Idle

LEMMA CommitTransitionIInv ==
  ASSUME IInv, NEW w \in Workers, CommitTransition(w)
  PROVE  IInv'
<1> DEFINE c == job[w].c
           who == IF Resolving(job[w].to) THEN job[w].by ELSE Nobody
           e == [by |-> job[w].by, action |-> "state_changed",
                 before |-> job[w].item.state, after |-> job[w].to]
<1>1. job[w].op = "transition" /\ job[w] \in TransitionJob
  BY JobKinds DEF IInv, CommitTransition
<1>2. c \in ConflictIds /\ e \in Entry /\ who \in Users \cup {Nobody}
      /\ e.after = job[w].to /\ e.by = job[w].by /\ job[w].to \in ConflictStates
  BY <1>1 DEF TransitionJob, Entry, ConflictRow
<1>3. CanConflictTransition(e.before, e.after)
  BY <1>1 DEF IInv, JobsAreChecked, JobIsChecked
<1>4. Commits(c, e, who)
  BY <1>3 DEF CommitTransition, Commits, Record
<1>5. derived' = derived /\ UNCHANGED context /\ Finish(w)
  BY DEF CommitTransition
<1>6. JobsAreChecked' /\ job' \in [Workers -> {Idle} \cup TransitionJob \cup ApplyJob]
  BY <1>5, FinishKeepsJobs DEF IInv
<1> HIDE DEF c, who, e
<1>7. conflict[c] \in ConflictRow /\ trail[c] \in Seq(Entry)
  BY <1>2 DEF IInv, TypeOK
<1>8. Settled(conflict[c], e.after, who) \in ConflictRow
      /\ Settled(conflict[c], e.after, who).state = e.after
  BY <1>2, <1>7, SettledRow
<1>9. TypeOK'
  <2>1. conflict' \in [ConflictIds -> ConflictRow]
    BY <1>4, <1>8 DEF Commits, IInv, TypeOK
  <2>2. trail' \in [ConflictIds -> Seq(Entry)]
    BY <1>2, <1>4, <1>7, Appended DEF Commits, IInv, TypeOK
  <2> QED
    BY <1>5, <1>6, <2>1, <2>2 DEF IInv, TypeOK, context
<1>10. TrailReplays'
  BY <1>2, <1>4, CommitKeepsTrail DEF IInv
<1>11. ResolverOfRecord'
  <2>1. who = IF Resolving(e.after) THEN e.by ELSE Nobody
    BY <1>2 DEF who
  <2> QED
    BY <1>2, <1>4, <2>1, CommitKeepsResolver DEF IInv
<1>12. AppliedOnce'
  <2> SUFFICES ASSUME NEW d \in ConflictIds PROVE AppliedOnceAt(d)'
    BY DEF AppliedOnce, AppliedOnceAt
  <2>1. AppliedOnceAt(d)
    BY DEF IInv, AppliedOnce, AppliedOnceAt
  <2>2. CASE d # c
    BY <1>4, <1>5, <2>1, <2>2, OthersApplied DEF Commits, IInv, TypeOK
  <2>3. CASE d = c
    <3>1. trail'[c] = Append(trail[c], e) /\ conflict'[c].state = e.after
          /\ e.before = conflict[c].state
      BY <1>2, <1>4, <1>8 DEF Commits, InState, IInv, TypeOK
    <3>2. Applications(trail'[c]) = Applications(trail[c])
      BY <1>2, <1>7, <3>1, HistoryGrows DEF e
    <3>3. conflict[c].state \in {"resolved", "closed"} => e.after = "closed"
      BY <1>3, <3>1 DEF CanConflictTransition, ConflictTransitions
    <3>4. /\ Len(trail[c]) \in Nat /\ Len(trail'[c]) = Len(trail[c]) + 1
          /\ \A i \in 1..Len(trail[c]) : trail'[c][i] = trail[c][i]
      BY <1>2, <1>7, <3>1, Appended
    <3>5. CASE derived[c] = << >> /\ Applications(trail[c]) = {}
      BY <1>5, <2>3, <3>2, <3>5 DEF AppliedOnceAt
    <3>6. CASE /\ Len(derived[c]) = 1
               /\ conflict[c].state \in {"resolved", "closed"}
               /\ \E i \in 1..Len(trail[c]) :
                    /\ Applications(trail[c]) = {i}
                    /\ trail[c][i].by = derived[c][1].createdBy
      <4>1. PICK i \in 1..Len(trail[c]) : /\ Applications(trail[c]) = {i}
                                          /\ trail[c][i].by = derived[c][1].createdBy
        BY <3>6
      <4>2. i \in 1..Len(trail'[c]) /\ trail'[c][i].by = derived'[c][1].createdBy
            /\ Applications(trail'[c]) = {i}
        BY <1>5, <3>2, <3>4, <4>1
      <4> QED
        BY <1>5, <2>3, <3>1, <3>3, <3>6, <4>2 DEF AppliedOnceAt
    <3> QED
      BY <2>1, <2>3, <3>5, <3>6 DEF AppliedOnceAt
  <2> QED
    BY <2>2, <2>3
<1> QED
  BY <1>6, <1>9, <1>10, <1>11, <1>12 DEF IInv

LEMMA CommitApplyIInv ==
  ASSUME IInv, NEW w \in Workers, CommitApply(w)
  PROVE  IInv'
<1> DEFINE c == job[w].c
           u == job[w].by
           draft == [createdBy |-> u, version |-> job[w].version + 1,
                     base |-> job[w].base]
           e == [by |-> u, action |-> "suggestion_applied",
                 before |-> job[w].item.state, after |-> "resolved"]
<1>1. job[w].op = "applying" /\ job[w] \in ApplyJob
  BY JobKinds DEF IInv, CommitApply
<1>2. /\ c \in ConflictIds /\ u \in Users /\ e \in Entry /\ draft \in Draft
      /\ e.after = "resolved" /\ e.by = u /\ draft.createdBy = u
      /\ e.action = "suggestion_applied" /\ "resolved" \in ConflictStates
  BY <1>1 DEF ApplyJob, Entry, Draft, ConflictRow, ConflictStates
<1>3. e.before = "resolution_proposed" /\ CanConflictTransition(e.before, e.after)
  BY <1>1 DEF IInv, JobsAreChecked, JobIsChecked, Applicable, CanConflictTransition,
              ConflictTransitions
<1>4. Commits(c, e, u)
  BY <1>3 DEF CommitApply, Commits, Record
<1>5. derived' = [derived EXCEPT ![c] = Append(@, draft)] /\ UNCHANGED context /\ Finish(w)
  BY DEF CommitApply
<1>6. JobsAreChecked' /\ job' \in [Workers -> {Idle} \cup TransitionJob \cup ApplyJob]
  BY <1>5, FinishKeepsJobs DEF IInv
<1> HIDE DEF c, u, draft, e
<1>7. conflict[c] \in ConflictRow /\ trail[c] \in Seq(Entry) /\ derived[c] \in Seq(Draft)
  BY <1>2 DEF IInv, TypeOK
<1>8. Settled(conflict[c], e.after, u) \in ConflictRow
      /\ Settled(conflict[c], e.after, u).state = e.after
  BY <1>2, <1>7, SettledRow
<1>9. TypeOK'
  <2>1. conflict' \in [ConflictIds -> ConflictRow]
    BY <1>4, <1>8 DEF Commits, IInv, TypeOK
  <2>2. trail' \in [ConflictIds -> Seq(Entry)]
    BY <1>2, <1>4, <1>7, Appended DEF Commits, IInv, TypeOK
  <2>3. derived' \in [ConflictIds -> Seq(Draft)]
    BY <1>2, <1>5, <1>7, Appended DEF IInv, TypeOK
  <2> QED
    BY <1>5, <1>6, <2>1, <2>2, <2>3 DEF IInv, TypeOK, context
<1>10. TrailReplays'
  BY <1>2, <1>4, CommitKeepsTrail DEF IInv
<1>11. ResolverOfRecord'
  <2>1. u = IF Resolving(e.after) THEN e.by ELSE Nobody
    BY <1>2 DEF Resolving
  <2> QED
    BY <1>2, <1>4, <2>1, CommitKeepsResolver DEF IInv
<1>12. AppliedOnce'
  <2> SUFFICES ASSUME NEW d \in ConflictIds PROVE AppliedOnceAt(d)'
    BY DEF AppliedOnce, AppliedOnceAt
  <2>1. AppliedOnceAt(d)
    BY DEF IInv, AppliedOnce, AppliedOnceAt
  <2>2. CASE d # c
    BY <1>4, <1>5, <2>1, <2>2, OthersApplied DEF Commits, IInv, TypeOK
  <2>3. CASE d = c
    <3>1. trail'[c] = Append(trail[c], e) /\ conflict'[c].state = "resolved"
          /\ conflict[c].state = "resolution_proposed"
      BY <1>2, <1>3, <1>4, <1>8 DEF Commits, InState, IInv, TypeOK
    <3>2. derived[c] = << >> /\ Applications(trail[c]) = {}
      BY <2>1, <2>3, <3>1 DEF AppliedOnceAt
    <3>3. derived'[c] = Append(derived[c], draft)
      BY <1>2, <1>5 DEF IInv, TypeOK
    <3>4. Len(derived'[c]) = 1 /\ derived'[c][1] = draft
      BY <3>2, <3>3
    <3>5. /\ Len(trail[c]) \in Nat /\ Len(trail'[c]) = Len(trail[c]) + 1
          /\ trail'[c][Len(trail[c]) + 1] = e
      BY <1>2, <1>7, <3>1, Appended
    <3>6. Applications(trail'[c]) = {Len(trail[c]) + 1}
      BY <1>2, <1>7, <3>1, <3>2, HistoryGrows
    <3> QED
      BY <1>2, <2>3, <3>1, <3>4, <3>5, <3>6 DEF AppliedOnceAt
  <2> QED
    BY <2>2, <2>3
<1> QED
  BY <1>6, <1>9, <1>10, <1>11, <1>12 DEF IInv

\* The reads of a request: they change only what its worker holds.
LEMMA ReadsIInv ==
  ASSUME IInv, NEW w \in Workers, UNCHANGED <<rows, context>>,
         NEW new \in TransitionJob \cup ApplyJob, job' = [job EXCEPT ![w] = new],
         new.op = "transition" => CanConflictTransition(new.item.state, new.to),
         new.op = "applying" => Applicable(new.item)
  PROVE  IInv'
<1>1. \A v \in Workers : job'[v] = IF v = w THEN new ELSE job[v]
  BY DEF IInv, TypeOK
<1>2. JobsAreChecked'
  BY <1>1 DEF IInv, JobsAreChecked, JobIsChecked
<1>3. TypeOK'
  BY DEF IInv, TypeOK, rows, context
<1>4. TrailReplays' /\ AppliedOnce' /\ ResolverOfRecord'
  BY RowsStay DEF IInv
<1> QED
  BY <1>2, <1>3, <1>4 DEF IInv

LEMMA NextIInv == IInv /\ [Next]_vars => IInv'
<1> SUFFICES ASSUME IInv, [Next]_vars PROVE IInv'
  OBVIOUS
<1>1. ASSUME NEW w \in Workers, NEW u \in Users, NEW c \in ConflictIds,
             NEW to \in ConflictStates, ReadConflict(w, u, c, to)
      PROVE  IInv'
  <2> DEFINE new == [op |-> "transition", by |-> u, c |-> c,
                     item |-> conflict[c], to |-> to]
  <2>1. new \in TransitionJob
    BY DEF IInv, TypeOK, TransitionJob
  <2>2. job' = [job EXCEPT ![w] = new] /\ UNCHANGED <<rows, context>>
        /\ CanConflictTransition(new.item.state, new.to)
    BY <1>1 DEF ReadConflict
  <2> QED
    BY <2>1, <2>2, ReadsIInv
<1>2. ASSUME NEW w \in Workers, NEW u \in Users, NEW c \in ConflictIds,
             ReadForApply(w, u, c)
      PROVE  IInv'
  <2> DEFINE new == [op |-> "applying", by |-> u, c |-> c, item |-> conflict[c],
                     version |-> 0, base |-> 0]
  <2>1. new \in ApplyJob
    BY DEF IInv, TypeOK, ApplyJob
  <2>2. job' = [job EXCEPT ![w] = new] /\ UNCHANGED <<rows, context>>
        /\ Applicable(new.item)
    BY <1>2 DEF ReadForApply
  <2> QED
    BY <2>1, <2>2, ReadsIInv
<1>3. ASSUME NEW w \in Workers, ReadSourceProposal(w) PROVE IInv'
  <2> DEFINE new == [job[w] EXCEPT !.version = proposalVersion[SourceOf[job[w].c]]]
  <2>1. job[w] \in ApplyJob /\ job[w].op = "applying"
    BY <1>3, JobKinds DEF IInv, ReadSourceProposal
  <2>2. proposalVersion[SourceOf[job[w].c]] \in Nat
    BY <2>1, SourceAssumption DEF IInv, TypeOK, ApplyJob
  <2>3. new \in ApplyJob /\ new.op = "applying" /\ new.item = job[w].item
    BY <2>1, <2>2 DEF ApplyJob
  <2>4. job' = [job EXCEPT ![w] = new] /\ UNCHANGED <<rows, context>>
    BY <1>3 DEF ReadSourceProposal
  <2>5. Applicable(new.item)
    BY <2>1, <2>3 DEF IInv, JobsAreChecked, JobIsChecked
  <2> HIDE DEF new
  <2> QED
    BY <2>3, <2>4, <2>5, ReadsIInv
<1>4. ASSUME NEW w \in Workers, ReadParcel(w) PROVE IInv'
  <2> DEFINE new == [job[w] EXCEPT !.base = boundaryVersion]
  <2>1. job[w] \in ApplyJob /\ job[w].op = "applying"
    BY <1>4, JobKinds DEF IInv, ReadParcel
  <2>2. new \in ApplyJob /\ new.op = "applying" /\ new.item = job[w].item
    BY <2>1 DEF IInv, TypeOK, ApplyJob
  <2>3. job' = [job EXCEPT ![w] = new] /\ UNCHANGED <<rows, context>>
    BY <1>4 DEF ReadParcel
  <2>4. Applicable(new.item)
    BY <2>1, <2>2 DEF IInv, JobsAreChecked, JobIsChecked
  <2> HIDE DEF new
  <2> QED
    BY <2>2, <2>3, <2>4, ReadsIInv
<1>5. ASSUME NEW w \in Workers, CommitTransition(w) PROVE IInv'
  BY <1>5, CommitTransitionIInv
<1>6. ASSUME NEW w \in Workers, CommitApply(w) PROVE IInv'
  BY <1>6, CommitApplyIInv
<1>7. ASSUME NEW w \in Workers, Refuse(w) \/ Abort(w) PROVE IInv'
  <2>1. Finish(w) /\ UNCHANGED <<rows, context>>
    BY <1>7 DEF Refuse, Abort
  <2>2. JobsAreChecked' /\ job' \in [Workers -> {Idle} \cup TransitionJob \cup ApplyJob]
    BY <2>1, FinishKeepsJobs DEF IInv
  <2>3. TrailReplays' /\ AppliedOnce' /\ ResolverOfRecord'
    BY <2>1, RowsStay DEF IInv
  <2> QED
    BY <2>1, <2>2, <2>3 DEF IInv, TypeOK, rows, context
<1>8. ASSUME NEW p \in Proposals, ProposalMoves(p) PROVE IInv'
  <2>1. UNCHANGED rows /\ job' = job /\ TypeOK'
    BY <1>8 DEF ProposalMoves, IInv, TypeOK, rows
  <2> QED
    BY <2>1, RowsStay DEF IInv, JobsAreChecked, JobIsChecked
<1>9. CASE ParcelMoves
  <2>1. UNCHANGED rows /\ job' = job /\ TypeOK'
    BY <1>9 DEF ParcelMoves, IInv, TypeOK, rows
  <2> QED
    BY <2>1, RowsStay DEF IInv, JobsAreChecked, JobIsChecked
<1>10. CASE UNCHANGED vars
  <2>1. UNCHANGED rows /\ job' = job /\ TypeOK'
    BY <1>10 DEF vars, IInv, TypeOK, rows
  <2> QED
    BY <2>1, RowsStay DEF IInv, JobsAreChecked, JobIsChecked
<1> QED
  BY <1>1, <1>2, <1>3, <1>4, <1>5, <1>6, <1>7, <1>8, <1>9, <1>10 DEF Next

LEMMA Invariance == Spec => []IInv
BY InitIInv, NextIInv, PTL DEF Spec

------------------------------------------------------------------------------
\* Rows, drafts, audit entries and requests in flight stay typed.
THEOREM Typing == Spec => []TypeOK
<1>1. IInv => TypeOK
  BY DEF IInv
<1> QED
  BY <1>1, Invariance, PTL

\* The audit rows of every conflict lead along legal edges from detected to the
\* stored state (TransitionConflict and ApplyConflictSuggestion together).
THEOREM AuditTrail == Spec => []TrailReplays
<1>1. IInv => TrailReplays
  BY DEF IInv
<1> QED
  BY <1>1, Invariance, PTL

\* However many reviewers apply a suggestion or resolve by hand, at most one
\* draft is derived from a conflict, and exactly when the trail says so.
THEOREM SingleApplication == Spec => []AppliedOnce
<1>1. IInv => AppliedOnce
  BY DEF IInv
<1> QED
  BY <1>1, Invariance, PTL

\* resolved_by is always the account of the last row that resolved or closed.
THEOREM Resolver == Spec => []ResolverOfRecord
<1>1. IInv => ResolverOfRecord
  BY DEF IInv
<1> QED
  BY <1>1, Invariance, PTL

------------------------------------------------------------------------------
\* What a detection under way knows: the boundaries it has read were there at
\* some time since its request came, and are no older than its proposal.
DeskInOrder(w) ==
  LET d == desk[w] IN
    /\ d # Idle /\ d.op = "propose" => d.base <= boundaryVersion
    /\ d # Idle /\ d.op # "propose" =>
         /\ base[SourceOf[d.c]] # 0
         /\ d.found.since[1] <= boundaryVersion /\ d.found.since[2] <= around
    /\ d # Idle /\ d.op \in {"around", "store"} =>
         /\ base[SourceOf[d.c]] <= d.found.own
         /\ d.found.since[1] <= d.found.own /\ d.found.own <= boundaryVersion
    /\ d # Idle /\ d.op = "store" =>
         d.found.since[2] <= d.found.around /\ d.found.around <= around

\* A request of Conflicts works on a conflict that is filed, and a draft about
\* to be stored names a base no older than the evidence.
JobInOrder(w) ==
  job[w] # Idle =>
    /\ evidence[job[w].c] # Unfiled
    /\ (job[w].op = "applying" /\ job[w].base # 0) =>
         evidence[job[w].c] <= job[w].base /\ job[w].base <= boundaryVersion

ConflictInOrder(c) ==
  /\ evidence[c] = Unfiled => derived[c] = << >>
  /\ evidence[c] # Unfiled =>
       /\ base[SourceOf[c]] # 0
       /\ base[SourceOf[c]] <= evidence[c] /\ evidence[c] <= boundaryVersion
       /\ \A i \in DOMAIN derived[c] : derived[c][i].base \in evidence[c]..boundaryVersion

CInv ==
  /\ CadastreTypeOK
  /\ boundaryVersion \in Versions
  /\ \A p \in Proposals : base[p] <= boundaryVersion
  /\ \A w \in Workers : DeskInOrder(w) /\ JobInOrder(w)
  /\ \A c \in ConflictIds : ConflictInOrder(c)

------------------------------------------------------------------------------
\* Cadastre runs Conflicts: each of its steps is one of Conflicts or leaves
\* the rows and requests of Conflicts alone.
THEOREM Embedding == CadastreSpec => Spec
<1>1. CadastreInit => Init
  BY DEF CadastreInit
<1>2. [CadastreNext]_cadastre => [Next]_vars
  BY DEF CadastreNext, cadastre, ConflictStep, ReadBase, CommitProposal, BeginDetection,
         ReadOwn, ReadAround, StoreConflict, Drop, NeighbourMoves
<1> QED
  BY <1>1, <1>2, PTL DEF CadastreSpec, Spec

------------------------------------------------------------------------------
LEMMA InitCInv == CadastreInit => CInv
BY BoundsAssumption, SourceAssumption
DEF CadastreInit, Init, CInv, CadastreTypeOK, DeskInOrder, JobInOrder, ConflictInOrder,
    Versions, Idle

\* The parcel only moves forward, within its bound.
LEMMA BoundaryGrows ==
  ASSUME TypeOK, boundaryVersion \in Versions, Next
  PROVE  boundaryVersion' \in Versions /\ boundaryVersion <= boundaryVersion'
<1>1. CASE ParcelMoves
  BY <1>1, BoundsAssumption DEF ParcelMoves, TypeOK, Versions
<1>2. CASE ~ ParcelMoves
  <2>1. UNCHANGED boundaryVersion
    BY <1>2 DEF Next, ReadConflict, CommitTransition, ReadForApply, ReadSourceProposal,
                ReadParcel, CommitApply, Refuse, Abort, ProposalMoves, context, rows
  <2> QED
    BY <2>1, BoundsAssumption DEF Versions
<1> QED
  BY <1>1, <1>2

\* What a step of Conflicts may do to the two variables Cadastre relies on.
LEMMA JobsMove ==
  ASSUME TypeOK, TypeOK', CInv, ConflictStep, NEW w \in Workers
  PROVE  JobInOrder(w)'
<1> DEFINE Same == job[w] # Idle /\ job'[w].op = job[w].op /\ job'[w].c = job[w].c /\ job'[w].base = job[w].base
<1>1. boundaryVersion' \in Versions /\ boundaryVersion <= boundaryVersion'
  BY BoundaryGrows DEF CInv, ConflictStep
<1>2. UNCHANGED evidence /\ (job'[w] # Idle => evidence[job'[w].c] # Unfiled)
  BY DEF ConflictStep, files
<1>3. CASE job'[w] = job[w] \/ Same
  <2>1. SUFFICES ASSUME job[w] # Idle, job[w].op = "applying", job[w].base # 0
                 PROVE  evidence[job[w].c] <= job[w].base /\ job[w].base <= boundaryVersion'
    BY <1>2, <1>3 DEF JobInOrder
  <2>2. /\ evidence[job[w].c] # Unfiled /\ evidence[job[w].c] <= job[w].base
        /\ job[w].base <= boundaryVersion
    BY <2>1 DEF CInv, JobInOrder
  <2>3. job[w].base \in Nat
    BY <2>1, JobKinds DEF ApplyJob
  <2> QED
    BY <1>1, <2>2, <2>3, BoundsAssumption DEF CInv, Versions
<1>4. CASE job'[w] = Idle
  BY <1>4 DEF JobInOrder
<1>5. CASE job'[w].op = "transition"
  BY <1>2, <1>5 DEF JobInOrder
<1>6. CASE job'[w].op = "applying" /\ job'[w].base = 0
  BY <1>2, <1>6 DEF JobInOrder
<1>7. CASE ReadParcel(w)
  <2>1. /\ job[w].op = "applying" /\ job[w] \in ApplyJob /\ job[w] # Idle
    BY <1>7, JobKinds DEF ReadParcel, Idle
  <2>2. job'[w] = [job[w] EXCEPT !.base = boundaryVersion] /\ UNCHANGED boundaryVersion
    BY <1>7 DEF ReadParcel, context, TypeOK
  <2>3. job'[w].c = job[w].c /\ job'[w].base = boundaryVersion
    BY <2>1, <2>2 DEF ApplyJob
  <2>4. job[w].c \in ConflictIds /\ evidence[job[w].c] # Unfiled
    BY <2>1 DEF CInv, JobInOrder, ApplyJob
  <2>5. evidence[job[w].c] <= boundaryVersion
    BY <2>4 DEF CInv, ConflictInOrder
  <2> QED
    BY <1>1, <1>2, <2>2, <2>3, <2>4, <2>5, BoundsAssumption DEF CInv, JobInOrder, Versions
<1>8. \/ job'[w] = job[w] \/ Same \/ job'[w] = Idle
      \/ job'[w].op = "transition" \/ (job'[w].op = "applying" /\ job'[w].base = 0)
      \/ ReadParcel(w)
  <2>1. PICK v \in Workers :
          \/ \E u \in Users, c \in ConflictIds, to \in ConflictStates : ReadConflict(v, u, c, to)
          \/ CommitTransition(v)
          \/ \E u \in Users, c \in ConflictIds : ReadForApply(v, u, c)
          \/ ReadSourceProposal(v) \/ ReadParcel(v) \/ CommitApply(v) \/ Refuse(v) \/ Abort(v)
          \/ UNCHANGED job
    BY DEF ConflictStep, Next, ProposalMoves, ParcelMoves
  <2>2. CASE UNCHANGED job
    BY <2>2
  <2>3. CASE \E u \in Users, c \in ConflictIds, to \in ConflictStates : ReadConflict(v, u, c, to)
    BY <2>3 DEF ReadConflict, TypeOK
  <2>4. CASE \E u \in Users, c \in ConflictIds : ReadForApply(v, u, c)
    BY <2>4 DEF ReadForApply, TypeOK
  <2>5. CASE CommitTransition(v) \/ CommitApply(v) \/ Refuse(v) \/ Abort(v)
    BY <2>5 DEF CommitTransition, CommitApply, Refuse, Abort, Finish, TypeOK
  <2>6. CASE ReadSourceProposal(v)
    <3>1. v # w => job'[w] = job[w]
      BY <2>6 DEF ReadSourceProposal, TypeOK
    <3>2. v = w => job[w] \in ApplyJob /\ job[w].base \in Nat
      BY <2>6, JobKinds DEF ReadSourceProposal, ApplyJob
    <3>3. v = w => job'[w] = [job[w] EXCEPT !.version = proposalVersion[SourceOf[job[w].c]]]
      BY <2>6 DEF ReadSourceProposal, TypeOK
    <3>4. v = w => Same
      BY <3>2, <3>3 DEF ApplyJob, Idle
    <3> QED
      BY <3>1, <3>4
  <2>7. CASE ReadParcel(v)
    BY <2>7 DEF ReadParcel, TypeOK
  <2> QED
    BY <2>1, <2>2, <2>3, <2>4, <2>5, <2>6, <2>7
<1> QED
  BY <1>3, <1>4, <1>5, <1>6, <1>7, <1>8

\* A draft is only added by Apply, whose base is in order.
LEMMA DraftsMove ==
  ASSUME TypeOK, TypeOK', CInv, ConflictStep, NEW c \in ConflictIds
  PROVE  ConflictInOrder(c)'
<1>1. boundaryVersion \in Nat /\ boundaryVersion' \in Nat /\ boundaryVersion <= boundaryVersion'
  BY BoundaryGrows, BoundsAssumption DEF CInv, ConflictStep, Versions
<1>2. UNCHANGED <<base, evidence>> /\ ConflictInOrder(c)
  BY DEF ConflictStep, files, CInv
<1>3. evidence[c] # Unfiled => evidence[c] \in Nat
  BY BoundsAssumption DEF CInv, CadastreTypeOK, Versions
<1>4. derived[c] \in Seq(Draft)
  BY DEF TypeOK
<1>5. CASE derived'[c] = derived[c]
  <2>1. SUFFICES ASSUME evidence[c] # Unfiled, NEW i \in DOMAIN derived[c]
                 PROVE  /\ evidence[c] <= boundaryVersion'
                        /\ derived[c][i].base \in evidence[c]..boundaryVersion'
    <3>1. CASE evidence[c] = Unfiled
      BY <1>2, <1>5, <3>1 DEF ConflictInOrder
    <3>2. CASE evidence[c] # Unfiled
      <4>1. evidence[c] <= boundaryVersion'
        BY <1>1, <1>2, <1>3, <3>2 DEF ConflictInOrder
      <4> QED
        BY <1>2, <1>5, <2>1, <3>2, <4>1 DEF ConflictInOrder
    <3> QED
      BY <3>1, <3>2
  <2>2. evidence[c] <= boundaryVersion /\ derived[c][i].base \in evidence[c]..boundaryVersion
    BY <1>2, <2>1 DEF ConflictInOrder
  <2> QED
    BY <1>1, <1>3, <2>1, <2>2
<1>6. ASSUME NEW v \in Workers, CommitApply(v), job[v].c = c
      PROVE  ConflictInOrder(c)'
  <2>1. job[v] \in ApplyJob /\ job[v] # Idle /\ job[v].base # 0 /\ job[v].op = "applying"
    BY <1>6, JobKinds DEF CommitApply, Idle
  <2>2. /\ evidence[c] # Unfiled /\ evidence[c] <= job[v].base
        /\ job[v].base <= boundaryVersion
    BY <1>6, <2>1 DEF CInv, JobInOrder
  <2>3. job[v].base \in Nat /\ UNCHANGED boundaryVersion
    BY <1>6, <2>1 DEF ApplyJob, CommitApply, context
  <2> DEFINE d == [createdBy |-> job[v].by, version |-> job[v].version + 1, base |-> job[v].base]
  <2>4. derived'[c] = Append(derived[c], d)
    BY <1>6 DEF CommitApply, TypeOK
  <2>5. d \in Draft /\ d.base = job[v].base
    BY <2>1 DEF Draft, ApplyJob
  <2>6. /\ DOMAIN derived'[c] = 1..(Len(derived[c]) + 1) /\ Len(derived[c]) \in Nat
        /\ derived'[c][Len(derived[c]) + 1] = d
        /\ \A i \in 1..Len(derived[c]) : derived'[c][i] = derived[c][i]
        /\ DOMAIN derived[c] = 1..Len(derived[c])
    <3> HIDE DEF d
    <3>1. derived'[c] \in Seq(Draft)
      BY <1>4, <2>4, <2>5, Appended
    <3> QED
      BY <1>4, <2>4, <2>5, <3>1, Appended
  <2> HIDE DEF d
  <2>7. ASSUME NEW i \in DOMAIN derived'[c]
        PROVE  derived'[c][i].base \in evidence[c]..boundaryVersion
    <3>1. CASE i = Len(derived[c]) + 1
      BY <1>1, <1>3, <2>2, <2>3, <2>5, <2>6, <3>1
    <3>2. CASE i # Len(derived[c]) + 1
      <4>1. i \in DOMAIN derived[c] /\ derived'[c][i] = derived[c][i]
        BY <2>6, <2>7, <3>2
      <4> QED
        BY <1>2, <2>2, <4>1 DEF ConflictInOrder
    <3> QED
      BY <3>1, <3>2
  <2> QED
    BY <1>2, <2>2, <2>3, <2>7 DEF ConflictInOrder
<1>7. \/ derived'[c] = derived[c]
      \/ \E v \in Workers : CommitApply(v) /\ job[v].c = c
  <2>1. ASSUME NEW v \in Workers, CommitApply(v), job[v].c # c
        PROVE  derived'[c] = derived[c]
    BY <2>1 DEF CommitApply, TypeOK
  <2>2. ASSUME ~ \E v \in Workers : CommitApply(v)
        PROVE  UNCHANGED derived
    BY <2>2 DEF ConflictStep, Next, ReadConflict, CommitTransition, ReadForApply,
                ReadSourceProposal, ReadParcel, Refuse, Abort, ProposalMoves, ParcelMoves, rows
  <2> QED
    BY <2>1, <2>2
<1> QED
  BY <1>5, <1>6, <1>7

LEMMA ConflictStepCInv ==
  ASSUME TypeOK, TypeOK', CInv, ConflictStep
  PROVE  CInv'
<1>1. boundaryVersion' \in Versions /\ boundaryVersion <= boundaryVersion'
  BY BoundaryGrows DEF CInv, ConflictStep
<1>2. UNCHANGED <<base, evidence, around, desk>>
  BY DEF ConflictStep, files
<1>3. CadastreTypeOK'
  BY <1>2 DEF CInv, CadastreTypeOK, ConflictStep, Versions, Input, Desk
<1>4. \A p \in Proposals : base[p] <= boundaryVersion'
  BY <1>1, BoundsAssumption DEF CInv, CadastreTypeOK, Versions
<1>5. ASSUME NEW w \in Workers
      PROVE  DeskInOrder(w)'
  <2>1. DeskInOrder(w) /\ boundaryVersion \in Nat /\ boundaryVersion' \in Nat
    BY <1>1, BoundsAssumption DEF CInv, Versions
  <2>2. CASE desk[w] = Idle
    BY <1>2, <2>2 DEF DeskInOrder
  <2>3. CASE desk[w] # Idle /\ desk[w].op = "propose"
    <3>1. desk[w] \in [op : {"propose"}, p : Proposals, base : Versions]
      BY <2>3 DEF CInv, CadastreTypeOK, Desk
    <3>2. desk[w].base \in Nat /\ desk[w].base <= boundaryVersion
      BY <2>1, <2>3, <3>1, BoundsAssumption DEF DeskInOrder, Versions
    <3> QED
      BY <1>1, <1>2, <2>1, <2>3, <3>2 DEF DeskInOrder
  <2>4. CASE desk[w] # Idle /\ desk[w].op # "propose"
    <3>1. desk[w] \in [op : {"own", "around", "store"}, c : ConflictIds, found : Input]
      BY <2>4 DEF CInv, CadastreTypeOK, Desk
    <3>2. /\ desk[w].found.own \in Nat /\ desk[w].found.since[1] \in Nat
      BY <3>1, BoundsAssumption DEF Input, Versions
    <3>3. desk[w].found.own <= boundaryVersion => desk[w].found.own <= boundaryVersion'
      BY <1>1, <2>1, <3>2
    <3>4. desk[w].found.since[1] <= boundaryVersion'
      BY <1>1, <2>1, <2>4, <3>2 DEF DeskInOrder
    <3> QED
      BY <1>2, <2>1, <2>4, <3>3, <3>4 DEF DeskInOrder
  <2> QED
    BY <2>2, <2>3, <2>4
<1>6. \A w \in Workers : JobInOrder(w)'
  BY JobsMove
<1>7. \A c \in ConflictIds : ConflictInOrder(c)'
  BY DraftsMove
<1> QED
  BY <1>1, <1>2, <1>3, <1>4, <1>5, <1>6, <1>7 DEF CInv

------------------------------------------------------------------------------
\* What a worker at the desk holds, by operation.
LEMMA DeskKinds ==
  ASSUME CadastreTypeOK, NEW w \in Workers, desk[w] # Idle
  PROVE  /\ desk[w].op = "propose" =>
              desk[w].p \in Proposals /\ desk[w].base \in Versions
         /\ desk[w].op # "propose" =>
              /\ desk[w] \in [op : {"own", "around", "store"}, c : ConflictIds, found : Input]
              /\ desk[w].c \in ConflictIds /\ SourceOf[desk[w].c] \in Proposals
              /\ desk[w].found.own \in Versions /\ desk[w].found.around \in Versions
              /\ desk[w].found.since[1] \in Versions /\ desk[w].found.since[2] \in Versions
BY SourceAssumption DEF CadastreTypeOK, Desk, Input

\* A step at the desk that files nothing keeps the rest in order.
LEMMA DeskMoves ==
  ASSUME TypeOK, CInv, CadastreTypeOK', UNCHANGED <<vars, files, around>>,
         NEW w \in Workers, \A v \in Workers : v # w => desk'[v] = desk[v],
         DeskInOrder(w)'
  PROVE  CInv'
<1>1. \A v \in Workers : DeskInOrder(v)'
  <2>1. ASSUME NEW v \in Workers, v # w
        PROVE  DeskInOrder(v)'
    <3>1. DeskInOrder(v) /\ desk'[v] = desk[v]
      BY <2>1 DEF CInv
    <3> QED
      BY <3>1 DEF DeskInOrder, vars, context, files
  <2> QED
    BY <2>1
<1>2. \A v \in Workers : JobInOrder(v)'
  BY DEF CInv, JobInOrder, vars, context, files
<1>3. \A c \in ConflictIds : ConflictInOrder(c)'
  BY DEF CInv, ConflictInOrder, vars, rows, context, files
<1> QED
  BY <1>1, <1>2, <1>3 DEF CInv, vars, context, files

LEMMA ReadBaseCInv ==
  ASSUME TypeOK, CInv, NEW w \in Workers, NEW p \in Proposals, ReadBase(w, p)
  PROVE  CInv'
<1> DEFINE d == [op |-> "propose", p |-> p, base |-> boundaryVersion]
<1>1. d \in Desk /\ d # Idle
  BY DEF CInv, Desk, Idle
<1>2. desk' = [desk EXCEPT ![w] = d] /\ UNCHANGED <<vars, files, around>> /\ job[w] = Idle
  BY DEF ReadBase, Take, Free
<1> HIDE DEF d
<1>3. CadastreTypeOK'
  BY <1>1, <1>2 DEF CInv, CadastreTypeOK, files, vars
<1>4. desk'[w] = d /\ \A v \in Workers : v # w => desk'[v] = desk[v]
  BY <1>2 DEF CInv, CadastreTypeOK
<1>5. DeskInOrder(w)'
  BY <1>2, <1>4, BoundsAssumption DEF DeskInOrder, d, CInv, Versions, vars, context
<1> QED
  BY <1>2, <1>3, <1>4, <1>5, DeskMoves

LEMMA BeginDetectionCInv ==
  ASSUME TypeOK, CInv, NEW w \in Workers, NEW c \in ConflictIds, BeginDetection(w, c)
  PROVE  CInv'
<1> DEFINE d == [op |-> "own", c |-> c,
                 found |-> [own |-> 0, around |-> 0, since |-> <<boundaryVersion, around>>]]
<1>1. d \in Desk /\ d # Idle
  BY BoundsAssumption DEF CInv, CadastreTypeOK, Desk, Input, Idle, Versions
<1>2. desk' = [desk EXCEPT ![w] = d] /\ UNCHANGED <<vars, files, around>> /\ job[w] = Idle
  BY DEF BeginDetection, Take, Free
<1> HIDE DEF d
<1>3. CadastreTypeOK'
  BY <1>1, <1>2 DEF CInv, CadastreTypeOK, files, vars
<1>4. desk'[w] = d /\ \A v \in Workers : v # w => desk'[v] = desk[v]
  BY <1>2 DEF CInv, CadastreTypeOK
<1>5. /\ d.op = "own" /\ d.c = c /\ base[SourceOf[c]] # 0
      /\ d.found.since[1] = boundaryVersion /\ d.found.since[2] = around
  BY DEF d, BeginDetection
<1>6. DeskInOrder(w)'
  BY <1>2, <1>4, <1>5, BoundsAssumption
  DEF DeskInOrder, CInv, CadastreTypeOK, Versions, vars, context, files
<1> QED
  BY <1>2, <1>3, <1>4, <1>6, DeskMoves

LEMMA ReadOwnCInv ==
  ASSUME TypeOK, CInv, NEW w \in Workers, ReadOwn(w)
  PROVE  CInv'
<1> DEFINE d == [op |-> "around", c |-> desk[w].c,
                 found |-> [desk[w].found EXCEPT !.own = boundaryVersion]]
<1>1. desk[w] # Idle /\ desk[w].op = "own" /\ DeskInOrder(w) /\ CadastreTypeOK
  BY DEF ReadOwn, At, CInv
<1>2. /\ desk[w] \in [op : {"own", "around", "store"}, c : ConflictIds, found : Input]
      /\ SourceOf[desk[w].c] \in Proposals
  BY <1>1, DeskKinds
<1>3. boundaryVersion \in Versions
  BY DEF CInv
<1>4. [desk[w].found EXCEPT !.own = boundaryVersion] \in Input
  BY <1>2, <1>3 DEF Input
<1>5. d \in Desk /\ d # Idle
  BY <1>2, <1>4 DEF Desk, Idle
<1>6. /\ d.op = "around" /\ d.c = desk[w].c
      /\ d.found.own = boundaryVersion /\ d.found.since = desk[w].found.since
  BY <1>2, <1>4 DEF Input
<1>7. desk' = [desk EXCEPT ![w] = d] /\ UNCHANGED <<vars, files, around>>
  BY DEF ReadOwn, Take, Own
<1> HIDE DEF d
<1>8. CadastreTypeOK' /\ desk'[w] = d /\ \A v \in Workers : v # w => desk'[v] = desk[v]
  BY <1>1, <1>5, <1>7 DEF CadastreTypeOK, files, vars
<1>9. base[SourceOf[desk[w].c]] <= boundaryVersion /\ boundaryVersion <= boundaryVersion
  BY <1>2, <1>3, BoundsAssumption DEF CInv, Versions
<1>10. DeskInOrder(w)'
  BY <1>1, <1>6, <1>7, <1>8, <1>9 DEF DeskInOrder, vars, context, files
<1> QED
  BY <1>7, <1>8, <1>10, DeskMoves

LEMMA ReadAroundCInv ==
  ASSUME TypeOK, CInv, NEW w \in Workers, ReadAround(w)
  PROVE  CInv'
<1> DEFINE d == [op |-> "store", c |-> desk[w].c,
                 found |-> [desk[w].found EXCEPT !.around = around]]
<1>1. desk[w] # Idle /\ desk[w].op = "around" /\ DeskInOrder(w) /\ CadastreTypeOK
  BY DEF ReadAround, At, CInv
<1>2. desk[w] \in [op : {"own", "around", "store"}, c : ConflictIds, found : Input]
  BY <1>1, DeskKinds
<1>3. around \in Versions
  BY <1>1 DEF CadastreTypeOK
<1>4. [desk[w].found EXCEPT !.around = around] \in Input
  BY <1>2, <1>3 DEF Input
<1>5. d \in Desk /\ d # Idle
  BY <1>2, <1>4 DEF Desk, Idle
<1>6. /\ d.op = "store" /\ d.c = desk[w].c /\ d.found.around = around
      /\ d.found.own = desk[w].found.own /\ d.found.since = desk[w].found.since
  BY <1>2, <1>4 DEF Input
<1>7. desk' = [desk EXCEPT ![w] = d] /\ UNCHANGED <<vars, files, around>>
  BY DEF ReadAround, Take
<1> HIDE DEF d
<1>8. CadastreTypeOK' /\ desk'[w] = d /\ \A v \in Workers : v # w => desk'[v] = desk[v]
  BY <1>1, <1>5, <1>7 DEF CadastreTypeOK, files, vars
<1>9. around <= around
  BY <1>3, BoundsAssumption DEF Versions
<1>10. DeskInOrder(w)'
  BY <1>1, <1>6, <1>7, <1>8, <1>9 DEF DeskInOrder, vars, context, files
<1> QED
  BY <1>7, <1>8, <1>10, DeskMoves

LEMMA DropCInv ==
  ASSUME TypeOK, CInv, NEW w \in Workers, Drop(w)
  PROVE  CInv'
<1>1. desk' = [desk EXCEPT ![w] = Idle] /\ UNCHANGED <<vars, files, around>>
  BY DEF Drop, Take
<1>2. CadastreTypeOK' /\ desk'[w] = Idle /\ \A v \in Workers : v # w => desk'[v] = desk[v]
  BY <1>1 DEF CInv, CadastreTypeOK, files, vars
<1>3. DeskInOrder(w)'
  BY <1>2 DEF DeskInOrder
<1> QED
  BY <1>1, <1>2, <1>3, DeskMoves

LEMMA CommitProposalCInv ==
  ASSUME TypeOK, CInv, NEW w \in Workers, CommitProposal(w)
  PROVE  CInv'
<1>1. desk[w] # Idle /\ desk[w].op = "propose" /\ DeskInOrder(w) /\ CadastreTypeOK
  BY DEF CommitProposal, At, CInv
<1>2. desk[w].p \in Proposals /\ desk[w].base \in Versions /\ desk[w].base <= boundaryVersion
  BY <1>1, DeskKinds DEF DeskInOrder
<1>3. /\ base' = [base EXCEPT ![desk[w].p] = desk[w].base] /\ base[desk[w].p] = 0
      /\ desk' = [desk EXCEPT ![w] = Idle] /\ UNCHANGED <<vars, around, evidence>>
  BY DEF CommitProposal, Take
<1>4. \A p \in Proposals : /\ base[p] # 0 => base'[p] = base[p]
                           /\ base'[p] <= boundaryVersion
  BY <1>1, <1>2, <1>3 DEF CadastreTypeOK, CInv
<1>5. CadastreTypeOK'
  BY <1>1, <1>2, <1>3 DEF CadastreTypeOK, vars
<1>6. ASSUME NEW v \in Workers
      PROVE  DeskInOrder(v)'
  <2>1. desk'[v] = Idle \/ (desk'[v] = desk[v] /\ DeskInOrder(v))
    BY <1>1, <1>3 DEF CadastreTypeOK, CInv
  <2>2. desk[v] # Idle /\ desk[v].op # "propose" => SourceOf[desk[v].c] \in Proposals
    BY <1>1, DeskKinds
  <2> QED
    BY <1>3, <1>4, <2>1, <2>2 DEF DeskInOrder, vars, context
<1>7. \A v \in Workers : JobInOrder(v)'
  BY <1>3 DEF CInv, JobInOrder, vars, context
<1>8. ASSUME NEW c \in ConflictIds
      PROVE  ConflictInOrder(c)'
  <2>1. SourceOf[c] \in Proposals /\ ConflictInOrder(c)
    BY SourceAssumption DEF CInv
  <2> QED
    BY <1>3, <1>4, <2>1 DEF ConflictInOrder, vars, rows, context
<1> QED
  BY <1>3, <1>4, <1>5, <1>6, <1>7, <1>8 DEF CInv, vars, context

LEMMA StoreConflictCInv ==
  ASSUME TypeOK, CInv, NEW w \in Workers, StoreConflict(w)
  PROVE  CInv'
<1>1. desk[w] # Idle /\ desk[w].op = "store" /\ DeskInOrder(w) /\ CadastreTypeOK
  BY DEF StoreConflict, At, CInv
<1>2. PICK f \in ConflictIds : f = desk[w].c
  BY <1>1, DeskKinds
<1>3. desk[w].found.own \in Versions
  BY <1>1, DeskKinds
<1>4. /\ evidence' = [evidence EXCEPT ![f] = desk[w].found.own] /\ evidence[f] = Unfiled
      /\ desk' = [desk EXCEPT ![w] = Idle] /\ UNCHANGED <<vars, base, around>>
  BY <1>2 DEF StoreConflict, Take
<1>5. CadastreTypeOK'
  BY <1>1, <1>2, <1>3, <1>4 DEF CadastreTypeOK, vars
<1>6. ASSUME NEW v \in Workers
      PROVE  DeskInOrder(v)'
  <2>1. desk'[v] = Idle \/ (desk'[v] = desk[v] /\ DeskInOrder(v))
    BY <1>1, <1>4 DEF CadastreTypeOK, CInv
  <2> QED
    BY <1>4, <2>1 DEF DeskInOrder, vars, context
<1>7. \A c \in ConflictIds \ {f} : evidence'[c] = evidence[c]
  BY <1>1, <1>4 DEF CadastreTypeOK
<1>8. ASSUME NEW v \in Workers
      PROVE  JobInOrder(v)'
  <2>1. CASE job[v] = Idle
    BY <1>4, <2>1 DEF JobInOrder, vars
  <2>2. CASE job[v] # Idle
    <3>1. job[v].c \in ConflictIds /\ JobInOrder(v)
      BY <2>2 DEF CInv, TypeOK, TransitionJob, ApplyJob
    <3>2. job[v].c # f
      BY <1>4, <2>2, <3>1 DEF JobInOrder
    <3> QED
      BY <1>4, <1>7, <3>1, <3>2 DEF JobInOrder, vars, context
  <2> QED
    BY <2>1, <2>2
<1>9. ConflictInOrder(f)'
  <2>1. /\ base[SourceOf[f]] # 0 /\ base[SourceOf[f]] <= desk[w].found.own
        /\ desk[w].found.own <= boundaryVersion
    BY <1>1, <1>2 DEF DeskInOrder
  <2>2. derived[f] = << >>
    BY <1>2, <1>4 DEF CInv, ConflictInOrder
  <2>3. evidence'[f] = desk[w].found.own /\ evidence'[f] # Unfiled
    BY <1>1, <1>3, <1>4, UnfiledAssumption, BoundsAssumption DEF CadastreTypeOK, Versions
  <2>4. DOMAIN derived[f] = {}
    BY <2>2
  <2> QED
    BY <1>4, <2>1, <2>3, <2>4 DEF ConflictInOrder, vars, rows, context
<1>10. \A c \in ConflictIds : ConflictInOrder(c)'
  BY <1>4, <1>7, <1>9 DEF CInv, ConflictInOrder, vars, rows, context
<1> QED
  BY <1>4, <1>5, <1>6, <1>8, <1>10 DEF CInv, vars, context

LEMMA NeighbourMovesCInv ==
  ASSUME TypeOK, CInv, NeighbourMoves
  PROVE  CInv'
<1>1. around' = around + 1 /\ around < MaxBoundary /\ UNCHANGED <<vars, files, desk>>
  BY DEF NeighbourMoves
<1>2. around \in Nat /\ around' \in Versions /\ CadastreTypeOK
  BY <1>1, BoundsAssumption DEF CInv, CadastreTypeOK, Versions
<1>3. CadastreTypeOK'
  BY <1>1, <1>2 DEF CadastreTypeOK, files, vars
<1>4. ASSUME NEW v \in Workers
      PROVE  DeskInOrder(v)'
  <2>1. DeskInOrder(v)
    BY DEF CInv
  <2>2. desk[v] # Idle /\ desk[v].op # "propose" =>
          desk[v].found.since[2] \in Nat /\ desk[v].found.around \in Nat
    BY <1>2, DeskKinds, BoundsAssumption DEF Versions
  <2> QED
    BY <1>1, <1>2, <2>1, <2>2 DEF DeskInOrder, vars, context, files
<1>5. \A v \in Workers : JobInOrder(v)'
  BY <1>1 DEF CInv, JobInOrder, vars, context, files
<1>6. \A c \in ConflictIds : ConflictInOrder(c)'
  BY <1>1 DEF CInv, ConflictInOrder, vars, rows, context, files
<1> QED
  BY <1>1, <1>3, <1>4, <1>5, <1>6 DEF CInv, vars, context, files

LEMMA NextCInv ==
  ASSUME TypeOK, TypeOK', CInv, [CadastreNext]_cadastre
  PROVE  CInv'
<1>1. CASE UNCHANGED cadastre
  BY <1>1 DEF cadastre, vars, rows, context, CInv, CadastreTypeOK, DeskInOrder, JobInOrder,
              ConflictInOrder
<1> QED
  BY <1>1, ConflictStepCInv, ReadBaseCInv, CommitProposalCInv, BeginDetectionCInv,
     ReadOwnCInv, ReadAroundCInv, StoreConflictCInv, DropCInv, NeighbourMovesCInv
  DEF CadastreNext

LEMMA CadastreInvariance == CadastreSpec => [](TypeOK /\ CInv)
<1>1. CadastreSpec => []TypeOK
  BY Embedding, Typing, PTL
<1>2. CadastreInit => CInv
  BY InitCInv
<1>3. TypeOK /\ TypeOK' /\ CInv /\ [CadastreNext]_cadastre => CInv'
  BY NextCInv
<1> QED
  BY <1>1, <1>2, <1>3, PTL DEF CadastreSpec

\* LineageInOrder: from a proposal over a detection to the draft applied from
\* its suggestion the version of the parcel only grows.
THEOREM Lineage == CadastreSpec => []LineageInOrder
<1>1. CInv => LineageInOrder
  BY DEF CInv, LineageInOrder, ConflictInOrder, Filed
<1> QED
  BY <1>1, CadastreInvariance, PTL

\* EvidenceIsRecent: what a detection stores was computed from boundaries that
\* were current at some time while its request ran.
THEOREM Evidence == CadastreSpec => EvidenceIsRecent
<1> DEFINE Recent == \A w \in Workers : StoreConflict(w) =>
             LET e == desk[w].found IN /\ e.own \in e.since[1]..boundaryVersion
                                       /\ e.around \in e.since[2]..around
<1>1. CInv => Recent
  <2>1. SUFFICES ASSUME CInv, NEW w \in Workers, desk[w] # Idle, desk[w].op = "store"
                 PROVE  /\ desk[w].found.own \in desk[w].found.since[1]..boundaryVersion
                        /\ desk[w].found.around \in desk[w].found.since[2]..around
    BY DEF StoreConflict, At
  <2>2. DeskInOrder(w) /\ boundaryVersion \in Nat /\ around \in Nat
    BY <2>1, BoundsAssumption DEF CInv, CadastreTypeOK, Versions
  <2>3. /\ desk[w].found.own \in Nat /\ desk[w].found.around \in Nat
        /\ desk[w].found.since[1] \in Nat /\ desk[w].found.since[2] \in Nat
    BY <2>1, DeskKinds, BoundsAssumption DEF CInv, Versions
  <2> QED
    BY <2>1, <2>2, <2>3 DEF DeskInOrder
<1> QED
  BY <1>1, CadastreInvariance, PTL DEF EvidenceIsRecent
==============================================================================
