------------------------- MODULE ObservationsProofs -------------------------
(***************************************************************************)
(* Safety of Observations for every set of users, parcels and              *)
(* observations, any number of requests in flight and every bound.         *)
(***************************************************************************)
EXTENDS Observations, SequenceTheorems, TLAPS

\* What a request in flight can rely on although it works from an old read: its
\* row is still there and on the same parcel, and is the row that was read as
\* long as the version is; its own checks passed; and once the second read is
\* behind it, the replacement is a row of that parcel.
JobIsChecked(w) ==
  LET j == job[w]  row == obs[j.id] IN
    j # Idle =>
      /\ row # Absent /\ row.parcel = j.item.parcel
      /\ j.item.version <= row.version
      /\ j.item.version = row.version => j.item = row
      /\ j.seen = j.item.version
      /\ CanTransitionObservation(j.item.state, j.to)
      /\ NamesReplacement(j.id, j.to, j.repl)
      /\ j.op = "replacement" => j.to = "superseded"
      /\ (j.op = "commit" /\ j.to = "superseded") =>
           obs[j.repl] # Absent /\ obs[j.repl].parcel = row.parcel

JobsAreChecked == \A w \in Workers : JobIsChecked(w)

IInv == JobsAreChecked /\ TrailReplays /\ ReplacementOnParcel

------------------------------------------------------------------------------
LEMMA JobKinds ==
  ASSUME TypeOK, NEW w \in Workers, job[w] # Idle
  PROVE  job[w] \in Job
BY DEF TypeOK

LEMMA RowsAreRows ==
  ASSUME TypeOK, NEW id \in ObsIds, obs[id] # Absent
  PROVE  obs[id] \in Row
BY DEF TypeOK

\* The UPDATE keeps a row a row, on its parcel.
LEMMA MovedColumns ==
  ASSUME NEW row \in Row, NEW to \in ObservationStates, NEW repl \in ObsIds \cup {NoObs}
  PROVE  LET new == Moved(row, to, repl) IN
           /\ new \in Row /\ new # Absent
           /\ new.parcel = row.parcel /\ new.state = to
           /\ new.version = row.version + 1
           /\ new.replacedBy = IF repl = NoObs THEN row.replacedBy ELSE repl
<1> DEFINE by == IF repl = NoObs THEN row.replacedBy ELSE repl
<1>1. by \in ObsIds \cup {NoObs}
  BY DEF Row
<1>2. Moved(row, to, repl) =
        [row EXCEPT !.state = to, !.version = @ + 1, !.replacedBy = by]
  BY DEF Moved
<1> HIDE DEF by
<1>3. Moved(row, to, repl) = [parcel |-> row.parcel, state |-> to,
                              version |-> row.version + 1, replacedBy |-> by]
  BY <1>2 DEF Row
<1>4. Moved(row, to, repl) \in Row
  BY <1>1, <1>3 DEF Row
<1> QED BY <1>3, <1>4, AbsentAssumption DEF by

\* What a committed transition does, to one row and its trail.
NewEntry(w) ==
  [by |-> job[w].by, before |-> Stamp(job[w].item),
   after |-> [state |-> job[w].to, version |-> job[w].item.version + 1,
              replacedBy |-> job[w].repl]]
Commits(w, id) ==
  /\ job[w] \in Job /\ job[w].op = "commit" /\ job[w].id = id
  /\ obs[id] \in Row /\ obs[id].version = job[w].item.version
  /\ Moved(obs[id], job[w].to, job[w].repl) \in Row
  /\ obs' = [obs EXCEPT ![id] = Moved(obs[id], job[w].to, job[w].repl)]
  /\ NewEntry(w) \in Entry
  /\ trail' = [trail EXCEPT ![id] = Append(trail[id], NewEntry(w))]
  /\ Finish(w)

LEMMA CommitIsUpdate ==
  ASSUME TypeOK, NEW w \in Workers, CommitTransition(w)
  PROVE  \E id \in ObsIds : Commits(w, id)
<1> DEFINE id == job[w].id
<1>1. job[w] \in Job /\ id \in ObsIds
  BY JobKinds DEF CommitTransition, Idle, Job
<1>2. obs[id] \in Row /\ obs[id].version = job[w].item.version
  BY <1>1, RowsAreRows DEF CommitTransition, StillAsRead
<1>3. Moved(obs[id], job[w].to, job[w].repl) \in Row
  BY <1>1, <1>2, MovedColumns DEF Job
<1>4. NewEntry(w) \in Entry
  BY <1>1 DEF NewEntry, Entry, Stamp, Stamps, Job, Row
<1>5. /\ obs' = [obs EXCEPT ![id] = Moved(obs[id], job[w].to, job[w].repl)]
      /\ trail' = [trail EXCEPT ![id] = Append(trail[id], NewEntry(w))]
      /\ Finish(w) /\ job[w].op = "commit"
  BY DEF CommitTransition, NewEntry
<1> QED BY <1>1, <1>2, <1>3, <1>4, <1>5 DEF Commits

\* An import stores a row where there was none.
Imports(u, id, row) ==
  /\ obs[id] = Absent /\ row \in Row /\ row.replacedBy = NoObs
  /\ obs' = [obs EXCEPT ![id] = row]
  /\ [by |-> u, before |-> NoStamp, after |-> Stamp(row)] \in Entry
  /\ trail' = [trail EXCEPT ![id] = <<[by |-> u, before |-> NoStamp, after |-> Stamp(row)]>>]
  /\ UNCHANGED job

LEMMA ImportIsInsert ==
  ASSUME NEW u \in Users, NEW id \in ObsIds, NEW p \in Parcels,
         NEW state \in ObservationStates, Import(u, id, p, state)
  PROVE  \E row \in Row : Imports(u, id, row)
<1> DEFINE row == [parcel |-> p, state |-> state, version |-> 1, replacedBy |-> NoObs]
<1>1. row \in Row
  BY DEF Row
<1>2. [by |-> u, before |-> NoStamp, after |-> Stamp(row)] \in Entry
  BY DEF Entry, Stamp, NoStamp, Stamps
<1>3. Imports(u, id, row)
  BY <1>1, <1>2 DEF Imports, Import
<1> QED BY <1>1, <1>3

------------------------------------------------------------------------------
LEMMA InitIInv == Init => IInv
<1> SUFFICES ASSUME Init PROVE IInv
  OBVIOUS
<1>1. TypeOK
  BY DEF Init, TypeOK
<1> QED BY <1>1 DEF Init, IInv, JobsAreChecked, JobIsChecked, TrailReplays, Replays,
                    ReplacementOnParcel

LEMMA NextTyped == TypeOK /\ [Next]_vars => TypeOK'
<1> SUFFICES ASSUME TypeOK, [Next]_vars PROVE TypeOK'
  OBVIOUS
<1>1. ASSUME NEW u \in Users, NEW id \in ObsIds, NEW row \in Row, Imports(u, id, row)
      PROVE  TypeOK'
  BY <1>1 DEF Imports, TypeOK
<1>2. ASSUME NEW w \in Workers, NEW id \in ObsIds, Commits(w, id)
      PROVE  TypeOK'
  <2>1. Append(trail[id], NewEntry(w)) \in Seq(Entry)
    BY <1>2, AppendProperties DEF Commits, TypeOK
  <2> QED BY <1>2, <2>1 DEF Commits, Finish, TypeOK
<1>3. ASSUME NEW w \in Workers, NEW u \in Users, NEW id \in ObsIds,
             NEW to \in ObservationStates, NEW seen \in 1..MaxVersion,
             NEW repl \in ObsIds \cup {NoObs},
             ReadObservation(w, u, id, to, seen, repl)
      PROVE  TypeOK'
  <2>1. obs[id] \in Row
    BY <1>3, RowsAreRows DEF ReadObservation
  <2>2. [op |-> IF to = "superseded" THEN "replacement" ELSE "commit",
         by |-> u, id |-> id, to |-> to, seen |-> seen,
         item |-> obs[id], repl |-> repl] \in Job
    BY <2>1, BoundsAssumption DEF Job
  <2> QED BY <1>3, <2>2 DEF ReadObservation, rows, TypeOK
<1>4. ASSUME NEW w \in Workers, ReadReplacement(w) PROVE TypeOK'
  <2>1. job[w] \in Job
    BY <1>4, JobKinds DEF ReadReplacement, Idle
  <2>2. [job[w] EXCEPT !.op = "commit"] \in Job
    BY <2>1 DEF Job
  <2> QED BY <1>4, <2>2 DEF ReadReplacement, rows, TypeOK
<1>5. ASSUME NEW w \in Workers, RefuseReplacement(w) \/ RefuseTransition(w) \/ Abort(w)
      PROVE  TypeOK'
  BY <1>5 DEF RefuseReplacement, RefuseTransition, Abort, Finish, rows, TypeOK
<1>6. CASE UNCHANGED vars
  BY <1>6 DEF vars, rows, TypeOK
<1> QED BY <1>1, <1>2, <1>3, <1>4, <1>5, <1>6, ImportIsInsert, CommitIsUpdate DEF Next

------------------------------------------------------------------------------
\* What any step does to the rows and to a request in flight.
LEMMA RowsMove ==
  ASSUME TypeOK, [Next]_vars, NEW id \in ObsIds, obs[id] # Absent
  PROVE  /\ obs'[id] # Absent /\ obs'[id].parcel = obs[id].parcel
         /\ obs'[id] = obs[id] \/ obs'[id].version = obs[id].version + 1
<1>1. ASSUME NEW u \in Users, NEW i \in ObsIds, NEW row \in Row, Imports(u, i, row)
      PROVE  obs'[id] = obs[id]
  BY <1>1 DEF Imports, TypeOK
<1>2. ASSUME NEW w \in Workers, NEW i \in ObsIds, Commits(w, i)
      PROVE  /\ obs'[id] # Absent /\ obs'[id].parcel = obs[id].parcel
             /\ obs'[id] = obs[id] \/ obs'[id].version = obs[id].version + 1
  <2>1. CASE i = id
    <3>1. job[w].to \in ObservationStates /\ job[w].repl \in ObsIds \cup {NoObs}
      BY <1>2 DEF Commits, Job
    <3> QED BY <1>2, <2>1, <3>1, MovedColumns DEF Commits, TypeOK
  <2>2. CASE i # id
    BY <1>2, <2>2 DEF Commits, TypeOK
  <2> QED BY <2>1, <2>2
<1>3. CASE UNCHANGED rows
  BY <1>3 DEF rows
<1> QED
  BY <1>1, <1>2, <1>3, ImportIsInsert, CommitIsUpdate
     DEF Next, vars, ReadObservation, ReadReplacement, RefuseReplacement,
         RefuseTransition, Abort

\* A step takes a request in, takes it past its second read, ends it, or leaves
\* it where it is.
LEMMA JobMoves ==
  ASSUME TypeOK, [Next]_vars, NEW w \in Workers
  PROVE  \/ job'[w] = job[w]
         \/ job'[w] = Idle
         \/ ReadReplacement(w)
         \/ \E u \in Users, id \in ObsIds, to \in ObservationStates, seen \in 1..MaxVersion,
               repl \in ObsIds \cup {NoObs} : ReadObservation(w, u, id, to, seen, repl)
<1>1. ASSUME NEW v \in Workers,
             \/ CommitTransition(v) \/ RefuseReplacement(v) \/ RefuseTransition(v) \/ Abort(v)
      PROVE  job'[w] = job[w] \/ job'[w] = Idle
  BY <1>1 DEF CommitTransition, RefuseReplacement, RefuseTransition, Abort, Finish, TypeOK
<1>2. ASSUME NEW v \in Workers, v # w,
             \/ ReadReplacement(v)
             \/ \E u \in Users, id \in ObsIds, to \in ObservationStates, seen \in 1..MaxVersion,
                   repl \in ObsIds \cup {NoObs} : ReadObservation(v, u, id, to, seen, repl)
      PROVE  job'[w] = job[w]
  BY <1>2 DEF ReadReplacement, ReadObservation, TypeOK
<1>3. ASSUME NEW u \in Users, NEW id \in ObsIds, NEW p \in Parcels,
             NEW state \in ObservationStates, Import(u, id, p, state)
      PROVE  job'[w] = job[w]
  BY <1>3 DEF Import
<1>4. CASE UNCHANGED vars
  BY <1>4 DEF vars
<1> QED BY <1>1, <1>2, <1>3, <1>4 DEF Next

LEMMA JobsStayChecked ==
  TypeOK /\ JobsAreChecked /\ [Next]_vars => JobsAreChecked'
<1> SUFFICES ASSUME TypeOK, JobsAreChecked, [Next]_vars, NEW w \in Workers
             PROVE  JobIsChecked(w)'
  BY DEF JobsAreChecked
<1>1. JobIsChecked(w)
  BY DEF JobsAreChecked
<1>2. CASE job'[w] = job[w] /\ job[w] # Idle
  <2> DEFINE id == job[w].id
  <2>1. /\ job[w] \in Job /\ id \in ObsIds /\ obs[id] \in Row
        /\ obs[id] # Absent
    BY <1>1, <1>2, JobKinds, RowsAreRows DEF JobIsChecked, Job
  <2>2. /\ obs'[id] # Absent /\ obs'[id].parcel = obs[id].parcel
        /\ obs'[id] = obs[id] \/ obs'[id].version = obs[id].version + 1
    BY <2>1, RowsMove
  <2>3. obs[id].version \in Nat /\ job[w].item.version \in Nat
    BY <2>1 DEF Job, Row
  <2>4. ASSUME job[w].op = "commit", job[w].to = "superseded"
        PROVE  obs'[job[w].repl] # Absent /\ obs'[job[w].repl].parcel = obs'[id].parcel
    <3>1. job[w].repl \in ObsIds
      BY <1>1, <1>2, <2>4 DEF JobIsChecked, NamesReplacement
    <3>2. obs[job[w].repl] # Absent /\ obs[job[w].repl].parcel = obs[id].parcel
      BY <1>1, <1>2, <2>4 DEF JobIsChecked
    <3> QED BY <2>2, <3>1, <3>2, RowsMove
  <2> QED BY <1>1, <1>2, <2>2, <2>3, <2>4 DEF JobIsChecked, NamesReplacement
<1>3. CASE job'[w] = Idle
  BY <1>3 DEF JobIsChecked
<1>4. CASE ReadReplacement(w)
  <2> DEFINE id == job[w].id
  <2>1. job[w] \in Job /\ UNCHANGED obs
    BY <1>4, JobKinds DEF ReadReplacement, Idle, rows
  <2>2. job'[w] = [job[w] EXCEPT !.op = "commit"]
    BY <1>4 DEF ReadReplacement, TypeOK
  <2>3. /\ obs[job[w].repl] # Absent
        /\ obs[job[w].repl].parcel = job[w].item.parcel
    BY <1>4 DEF ReadReplacement, Usable
  <2>4. /\ job'[w].op = "commit" /\ job'[w].id = id /\ job'[w].to = job[w].to
        /\ job'[w].seen = job[w].seen /\ job'[w].item = job[w].item
        /\ job'[w].repl = job[w].repl
    BY <2>1, <2>2 DEF Job
  <2>5. job[w] # Idle
    BY <1>4 DEF ReadReplacement, Idle
  <2> QED BY <1>1, <2>1, <2>3, <2>4, <2>5 DEF JobIsChecked, NamesReplacement
<1>5. ASSUME NEW u \in Users, NEW id \in ObsIds, NEW to \in ObservationStates,
             NEW seen \in 1..MaxVersion, NEW repl \in ObsIds \cup {NoObs},
             ReadObservation(w, u, id, to, seen, repl)
      PROVE  JobIsChecked(w)'
  <2>1. job'[w] = [op |-> IF to = "superseded" THEN "replacement" ELSE "commit",
                   by |-> u, id |-> id, to |-> to, seen |-> seen,
                   item |-> obs[id], repl |-> repl]
    BY <1>5 DEF ReadObservation, TypeOK
  <2>2. /\ obs[id] # Absent /\ obs[id] \in Row /\ UNCHANGED obs
        /\ seen = obs[id].version /\ CanTransitionObservation(obs[id].state, to)
        /\ NamesReplacement(id, to, repl)
    BY <1>5, RowsAreRows DEF ReadObservation, SeenIsCurrent, rows
  <2>3. obs[id].version \in Nat
    BY <2>2 DEF Row
  <2> QED BY <2>1, <2>2, <2>3 DEF JobIsChecked, NamesReplacement
<1>6. CASE job'[w] = job[w] /\ job[w] = Idle
  BY <1>3, <1>6
<1> QED BY <1>2, <1>3, <1>4, <1>5, <1>6, JobMoves

------------------------------------------------------------------------------
\* A row that a checked request commits to is the row it read.
LEMMA CommitsToCopy ==
  ASSUME TypeOK, JobsAreChecked, NEW w \in Workers, NEW id \in ObsIds, Commits(w, id)
  PROVE  /\ obs[id] # Absent /\ obs[id] = job[w].item
         /\ job[w].to \in ObservationStates /\ job[w].repl \in ObsIds \cup {NoObs}
         /\ CanTransitionObservation(obs[id].state, job[w].to)
         /\ NamesReplacement(id, job[w].to, job[w].repl)
         /\ obs[id].state # "superseded"
         /\ job[w].seen = obs[id].version
<1>1. job[w] \in Job /\ job[w].op = "commit" /\ job[w].id = id
  BY DEF Commits
<1>2. JobIsChecked(w) /\ job[w] # Idle
  BY <1>1 DEF JobsAreChecked, Idle
<1>3. obs[id] # Absent /\ obs[id] = job[w].item
  BY <1>1, <1>2 DEF JobIsChecked, Commits
<1>4. CanTransitionObservation(obs[id].state, job[w].to)
  BY <1>2, <1>3 DEF JobIsChecked
<1>5. obs[id].state # "superseded"
  BY <1>4 DEF CanTransitionObservation, ObservationTransitions
<1> QED BY <1>1, <1>2, <1>3, <1>4, <1>5 DEF JobIsChecked, Job

\* One more audit row extends a trail that replays.
LEMMA TrailGrows ==
  ASSUME NEW t \in Seq(Entry), NEW row, NEW new, NEW e \in Entry,
         row # Absent, new # Absent, Replays(t, row),
         e.before = Stamp(row), e.after = Stamp(new),
         CanTransitionObservation(row.state, new.state)
  PROVE  Replays(Append(t, e), new) /\ Len(Append(t, e)) > 1
<1> DEFINE u == Append(t, e)
<1>1. /\ u \in Seq(Entry) /\ Len(u) = Len(t) + 1 /\ u[Len(u)] = e
      /\ \A i \in 1..Len(t) : u[i] = t[i]
  BY AppendProperties
<1>2. /\ t # << >> /\ Len(t) \in Nat \ {0} /\ t[1].before = NoStamp
      /\ t[Len(t)].after = Stamp(row)
      /\ \A i \in 1..(Len(t) - 1) :
           /\ t[i + 1].before = t[i].after
           /\ CanTransitionObservation(t[i].after.state, t[i + 1].after.state)
  BY EmptySeq DEF Replays
<1>3. Stamp(row).state = row.state /\ Stamp(new).state = new.state
  BY DEF Stamp
<1> HIDE DEF u
<1>4. ASSUME NEW i \in 1..(Len(u) - 1)
      PROVE  /\ u[i + 1].before = u[i].after
             /\ CanTransitionObservation(u[i].after.state, u[i + 1].after.state)
  <2>1. CASE i = Len(t)
    <3>1. u[i] = t[Len(t)] /\ u[i + 1] = e
      BY <1>1, <1>2, <2>1
    <3> QED BY <1>2, <1>3, <3>1
  <2>2. CASE i # Len(t)
    <3>1. i \in 1..(Len(t) - 1) /\ u[i] = t[i] /\ u[i + 1] = t[i + 1]
      BY <1>1, <1>2, <1>4, <2>2
    <3> QED BY <1>2, <3>1
  <2> QED BY <2>1, <2>2
<1>5. u # << >> /\ u[1].before = NoStamp /\ u[Len(u)].after = Stamp(new) /\ Len(u) > 1
  BY <1>1, <1>2
<1> QED BY <1>4, <1>5 DEF Replays, u

LEMMA TrailStaysReplayed ==
  TypeOK /\ IInv /\ [Next]_vars => TrailReplays'
<1> SUFFICES ASSUME TypeOK, IInv, [Next]_vars, NEW i \in ObsIds
             PROVE  Replays(trail'[i], obs'[i])
  BY DEF TrailReplays, Replays
<1>1. Replays(trail[i], obs[i])
  BY DEF IInv, TrailReplays
<1>2. ASSUME NEW u \in Users, NEW id \in ObsIds, NEW row \in Row, Imports(u, id, row)
      PROVE  Replays(trail'[i], obs'[i])
  <2> DEFINE e == [by |-> u, before |-> NoStamp, after |-> Stamp(row)]
  <2>1. CASE i = id
    <3>1. trail'[i] = <<e>> /\ obs'[i] = row /\ row # Absent
      BY <1>2, <2>1, AbsentAssumption DEF Imports, TypeOK
    <3>2. e.before = NoStamp /\ e.after = Stamp(row)
      OBVIOUS
    <3> HIDE DEF e
    <3>3. Len(<<e>>) = 1 /\ <<e>>[1] = e /\ <<e>> # << >>
      OBVIOUS
    <3> QED BY <3>1, <3>2, <3>3 DEF Replays
  <2>2. CASE i # id
    BY <1>1, <1>2, <2>2 DEF Imports, TypeOK
  <2> QED BY <2>1, <2>2
<1>3. ASSUME NEW w \in Workers, NEW id \in ObsIds, Commits(w, id)
      PROVE  Replays(trail'[i], obs'[i])
  <2>1. CASE i = id
    <3> DEFINE new == Moved(obs[id], job[w].to, job[w].repl)
    <3>1. /\ obs[id] # Absent /\ obs[id] = job[w].item /\ obs[id] \in Row
          /\ job[w].to \in ObservationStates /\ job[w].repl \in ObsIds \cup {NoObs}
          /\ CanTransitionObservation(obs[id].state, job[w].to)
          /\ obs[id].state # "superseded"
      BY <1>3, CommitsToCopy, RowsAreRows DEF IInv
    <3>2. obs[id].replacedBy = NoObs
      BY <3>1 DEF IInv, ReplacementOnParcel
    <3>3. /\ new # Absent /\ new.state = job[w].to
          /\ new.version = obs[id].version + 1 /\ new.replacedBy = job[w].repl
      BY <3>1, <3>2, MovedColumns
    <3>4. /\ NewEntry(w).before = Stamp(obs[id])
          /\ NewEntry(w).after = Stamp(new)
      BY <3>1, <3>3 DEF NewEntry, Stamp
    <3>5. obs'[i] = new /\ trail'[i] = Append(trail[i], NewEntry(w))
      BY <1>3, <2>1 DEF Commits, TypeOK
    <3>6. NewEntry(w) \in Entry /\ trail[i] \in Seq(Entry)
      BY <1>3 DEF Commits, TypeOK
    <3> HIDE DEF new
    <3> QED BY <1>1, <2>1, <3>1, <3>3, <3>4, <3>5, <3>6, TrailGrows
  <2>2. CASE i # id
    BY <1>1, <1>3, <2>2 DEF Commits, TypeOK
  <2> QED BY <2>1, <2>2
<1>4. CASE UNCHANGED rows
  BY <1>1, <1>4 DEF rows
<1> QED
  BY <1>2, <1>3, <1>4, ImportIsInsert, CommitIsUpdate
     DEF Next, vars, rows, ReadObservation, ReadReplacement, RefuseReplacement,
         RefuseTransition, Abort

LEMMA ReplacementStaysOnParcel ==
  TypeOK /\ IInv /\ [Next]_vars => ReplacementOnParcel'
<1> SUFFICES ASSUME TypeOK, IInv, [Next]_vars PROVE ReplacementOnParcel'
  OBVIOUS
<1>1. TypeOK'
  BY NextTyped
<1> DEFINE OnParcel(i) ==
             obs[i] # Absent =>
               LET r == obs[i].replacedBy IN
                 IF obs[i].state = "superseded" /\ Len(trail[i]) > 1
                 THEN r \in ObsIds \ {i} /\ obs[r] # Absent /\ obs[r].parcel = obs[i].parcel
                 ELSE r = NoObs
<1>2. \A i \in ObsIds : OnParcel(i)
  BY DEF IInv, ReplacementOnParcel
<1>3. ASSUME NEW i \in ObsIds, obs'[i] = obs[i], trail'[i] = trail[i]
      PROVE  OnParcel(i)'
  BY <1>2, <1>3, RowsMove
<1>4. ASSUME NEW u \in Users, NEW id \in ObsIds, NEW row \in Row, Imports(u, id, row),
             NEW i \in ObsIds
      PROVE  OnParcel(i)'
  <2> DEFINE e == [by |-> u, before |-> NoStamp, after |-> Stamp(row)]
  <2>1. CASE i = id
    <3>1. obs'[i] = row /\ trail'[i] = <<e>>
      BY <1>4, <2>1 DEF Imports, TypeOK
    <3>2. ~ (Len(<<e>>) > 1) /\ row.replacedBy = NoObs
      BY <1>4 DEF Imports
    <3> QED BY <3>1, <3>2
  <2>2. CASE i # id
    BY <1>3, <1>4, <2>2 DEF Imports, TypeOK
  <2> QED BY <2>1, <2>2
<1>5. ASSUME NEW w \in Workers, NEW id \in ObsIds, Commits(w, id), NEW i \in ObsIds
      PROVE  OnParcel(i)'
  <2>1. CASE i = id
    <3>1. /\ obs[id] # Absent /\ obs[id] = job[w].item /\ obs[id] \in Row
          /\ job[w].to \in ObservationStates /\ job[w].repl \in ObsIds \cup {NoObs}
          /\ NamesReplacement(id, job[w].to, job[w].repl)
          /\ obs[id].state # "superseded"
      BY <1>5, CommitsToCopy, RowsAreRows DEF IInv
    <3>2. obs[id].replacedBy = NoObs
      BY <1>2, <3>1
    <3>3. /\ obs'[id].state = job[w].to /\ obs'[id].replacedBy = job[w].repl
          /\ obs'[id].parcel = obs[id].parcel
      BY <1>5, <3>1, <3>2, MovedColumns DEF Commits, TypeOK
    <3>4. Len(trail'[id]) > 1
      <4>1. trail[id] \in Seq(Entry) /\ trail[id] # << >> /\ NewEntry(w) \in Entry
        BY <1>5, <3>1 DEF IInv, TrailReplays, Replays, TypeOK, Commits
      <4>2. trail'[id] = Append(trail[id], NewEntry(w))
        BY <1>5 DEF Commits, TypeOK
      <4> QED BY <4>1, <4>2, AppendProperties, EmptySeq
    <3>5. CASE job[w].to = "superseded"
      <4>1. job[w].repl \in ObsIds \ {id}
        BY <3>1, <3>5 DEF NamesReplacement
      <4>2. obs[job[w].repl] # Absent /\ obs[job[w].repl].parcel = obs[id].parcel
        BY <1>5, <3>5 DEF IInv, JobsAreChecked, JobIsChecked, Commits, Idle
      <4>3. obs'[job[w].repl] = obs[job[w].repl]
        BY <1>5, <4>1 DEF Commits, TypeOK
      <4> QED BY <2>1, <3>3, <3>4, <3>5, <4>1, <4>2, <4>3
    <3>6. CASE job[w].to # "superseded"
      BY <2>1, <3>1, <3>3, <3>6 DEF NamesReplacement
    <3> QED BY <3>5, <3>6
  <2>2. CASE i # id
    BY <1>3, <1>5, <2>2 DEF Commits, TypeOK
  <2> QED BY <2>1, <2>2
<1>6. ASSUME UNCHANGED rows, NEW i \in ObsIds PROVE OnParcel(i)'
  BY <1>3, <1>6 DEF rows
<1>7. \A i \in ObsIds : OnParcel(i)'
  BY <1>4, <1>5, <1>6, ImportIsInsert, CommitIsUpdate
     DEF Next, vars, rows, ReadObservation, ReadReplacement, RefuseReplacement,
         RefuseTransition, Abort
<1> QED BY <1>1, <1>7 DEF ReplacementOnParcel

LEMMA Inductive == Spec => []IInv
<1>1. IInv /\ [Next]_vars => IInv'
  BY JobsStayChecked, TrailStaysReplayed, ReplacementStaysOnParcel
     DEF IInv, ReplacementOnParcel
<1> QED BY <1>1, InitIInv, PTL DEF Spec

\* The audit rows of every observation lead along legal edges, without a gap,
\* from its import to the stored row.
THEOREM AuditTrail == Spec => []TrailReplays
BY Inductive, PTL DEF IInv

\* An observation superseded by a transition names another observation of its own
\* parcel, although the replacement is read in a statement of its own.
THEOREM Replacement == Spec => []ReplacementOnParcel
BY Inductive, PTL DEF IInv

\* No transition is committed on a version other than the one its client saw.
THEOREM SeenVersion == Spec => ActsOnSeenVersion
<1>1. IInv /\ [Next]_vars =>
        [\A w \in Workers :
           (job[w].op = "commit" /\ job'[w] = Idle /\ obs' # obs)
             => job[w].seen = obs[job[w].id].version]_vars
  <2> SUFFICES ASSUME IInv, [Next]_vars, NEW w \in Workers,
                      job[w].op = "commit", job'[w] = Idle, obs' # obs
               PROVE  job[w].seen = obs[job[w].id].version
    OBVIOUS
  <2>1. TypeOK /\ JobsAreChecked
    BY DEF IInv, ReplacementOnParcel
  <2>2. job[w] # Idle
    BY DEF Idle
  <2>3. PICK v \in Workers, id \in ObsIds : Commits(v, id)
    <3>1. ASSUME NEW u \in Users, NEW i \in ObsIds, NEW p \in Parcels,
                 NEW state \in ObservationStates, Import(u, i, p, state)
          PROVE  FALSE
      BY <2>2, <3>1 DEF Import
    <3>2. \E v \in Workers : CommitTransition(v)
      BY <3>1 DEF Next, vars, rows, ReadObservation, ReadReplacement, RefuseReplacement,
                  RefuseTransition, Abort
    <3> QED BY <2>1, <3>2, CommitIsUpdate
  <2>4. v = w
    BY <2>1, <2>2, <2>3 DEF Commits, Finish, TypeOK
  <2> QED BY <2>1, <2>3, <2>4, CommitsToCopy DEF Commits
<1> QED BY <1>1, Inductive, PTL DEF Spec, ActsOnSeenVersion
==============================================================================
