--------------------------- MODULE ProposalsProofs ---------------------------
(***************************************************************************)
(* Safety of Proposals for every set of users, roles, parcels, proposals,  *)
(* requests in flight and every bound.                                     *)
(***************************************************************************)
EXTENDS Proposals, TLAPS

\* What every request in flight can rely on although it works from old reads:
\* its row still exists under the same author, its own checks passed, and a
\* draft's base is a version the parcel has had.
JobIsChecked(w) ==
  /\ job[w].op = "create" =>
       /\ Admitted(job[w].actor, "createProposal")
       /\ job[w].base \in 1..boundaryVersion[job[w].parcel]
  /\ job[w].op = "transition" =>
       LET item == job[w].item  row == proposal[job[w].id] IN
         /\ Admitted(job[w].actor, "transitionProposal")
         /\ CanProposalTransition(item.state, job[w].to)
         /\ Authorized(item, job[w].to, job[w].actor)
         /\ row # Absent
         /\ row.createdBy = item.createdBy

JobsAreChecked == \A w \in Workers : JobIsChecked(w)

IInv == TypeOK /\ JobsAreChecked /\ TrailReplays /\ ReviewerOfRecord /\ BaseWasReal

------------------------------------------------------------------------------
\* Every state is typed, and so is every step from a typed state.
LEMMA InitTyped == Init => TypeOK
<1> SUFFICES ASSUME Init PROVE TypeOK
  OBVIOUS
<1> QED BY BoundsAssumption DEF Init, TypeOK, Idle, ProposalRow

\* A request that has left idle holds a record of one of the two operations.
LEMMA JobKinds ==
  ASSUME TypeOK, NEW w \in Workers
  PROVE  /\ job[w].op = "create" => job[w] \in CreateJob
         /\ job[w].op = "transition" => job[w] \in TransitionJob
<1>1. job[w] \in {Idle} \cup CreateJob \cup TransitionJob
  BY DEF TypeOK
<1> QED BY <1>1 DEF Idle, CreateJob, TransitionJob

\* The UPDATE keeps a row a row and touches three of its columns.
LEMMA MovedColumns ==
  ASSUME NEW row \in ProposalRow, NEW to \in ProposalStates, NEW actor \in Actors
  PROVE  /\ Moved(row, to, actor) \in ProposalRow
         /\ Moved(row, to, actor).parcel = row.parcel
         /\ Moved(row, to, actor).base = row.base
         /\ Moved(row, to, actor).createdBy = row.createdBy
         /\ Moved(row, to, actor).state = to
         /\ Moved(row, to, actor).version = row.version + 1
         /\ Moved(row, to, actor).reviewedBy =
              IF to \in ReviewTargets THEN actor.id ELSE row.reviewedBy
<1> DEFINE who == IF to \in ReviewTargets THEN actor.id ELSE row.reviewedBy
<1>1. who \in Users \cup {Nobody}
  BY DEF ProposalRow, Actors
<1>2. Moved(row, to, actor) = [row EXCEPT !.state = to, !.version = @ + 1,
                                          !.reviewedBy = who]
  BY DEF Moved
<1> HIDE DEF who
<1>3. Moved(row, to, actor) =
        [ parcel |-> row.parcel, base |-> row.base, state |-> to,
          version |-> row.version + 1, createdBy |-> row.createdBy,
          reviewedBy |-> who ]
  BY <1>2 DEF ProposalRow
<1> QED BY <1>1, <1>3 DEF ProposalRow, who

LEMMA NextTyped == TypeOK /\ [Next]_vars => TypeOK'
<1> SUFFICES ASSUME TypeOK, [Next]_vars PROVE TypeOK'
  OBVIOUS
<1>1. ASSUME NEW w \in Workers, NEW actor \in Actors, NEW p \in Parcels,
             NEW base \in 1..MaxBoundary, ReadParcel(w, actor, p, base)
      PROVE  TypeOK'
  <2>1. [op |-> "create", actor |-> actor, parcel |-> p, base |-> base] \in CreateJob
    BY DEF CreateJob
  <2> QED BY <1>1, <2>1 DEF ReadParcel, TypeOK
<1>2. ASSUME NEW w \in Workers, NEW id \in ProposalIds, CommitCreate(w, id)
      PROVE  TypeOK'
  <2>1. job[w] \in CreateJob
    BY <1>2, JobKinds DEF CommitCreate
  <2> DEFINE row == NewProposal(job[w].parcel, job[w].base, job[w].actor)
  <2>2. row \in ProposalRow /\ job[w].actor.id \in Users
    BY <2>1 DEF NewProposal, CreateJob, Actors, ProposalRow, ProposalStates
  <2>3. [by |-> job[w].actor.id, before |-> NoStamp, after |-> Stamp(row)] \in Entry
    BY <2>2 DEF Entry, Stamp, NoStamp, Stamps, ProposalRow
  <2> HIDE DEF row
  <2>4. trail' = [trail EXCEPT ![id] =
                    <<[by |-> job[w].actor.id, before |-> NoStamp,
                       after |-> Stamp(row)]>>]
    BY <1>2 DEF CommitCreate, row
  <2>5. proposal' = [proposal EXCEPT ![id] = row]
    BY <1>2 DEF CommitCreate, row
  <2>6. trail' \in [ProposalIds -> Seq(Entry)]
    BY <2>3, <2>4 DEF TypeOK
  <2>7. proposal' \in [ProposalIds -> ProposalRow \cup {Absent}]
    BY <2>2, <2>5 DEF TypeOK
  <2> QED BY <1>2, <2>6, <2>7 DEF CommitCreate, Finish, TypeOK
<1>3. ASSUME NEW w \in Workers, NEW actor \in Actors, NEW id \in ProposalIds,
             NEW to \in ProposalStates,
             ReadProposal(w, actor, id, to)
      PROVE  TypeOK'
  <2>1. proposal[id] \in ProposalRow
    BY <1>3 DEF ReadProposal, TypeOK
  <2>2. [op |-> "transition", actor |-> actor, id |-> id, to |-> to,
         item |-> proposal[id]] \in TransitionJob
    BY <2>1 DEF TransitionJob
  <2> QED BY <1>3, <2>2 DEF ReadProposal, TypeOK
<1>4. ASSUME NEW w \in Workers, CommitTransition(w) PROVE TypeOK'
  <2> DEFINE id == job[w].id
             entry == [by |-> job[w].actor.id, before |-> Stamp(job[w].item),
                       after |-> [state |-> job[w].to,
                                  version |-> job[w].item.version + 1]]
             row == Moved(proposal[id], job[w].to, job[w].actor)
  <2>1. job[w] \in TransitionJob
    BY <1>4, JobKinds DEF CommitTransition
  <2>2. id \in ProposalIds /\ proposal[id] \in ProposalRow
    BY <1>4, <2>1 DEF CommitTransition, StillAsRead, TypeOK, TransitionJob
  <2>3. row \in ProposalRow
    BY <2>1, <2>2, MovedColumns DEF TransitionJob
  <2>4. entry \in Entry
    BY <2>1 DEF Entry, Stamp, Stamps, TransitionJob, Actors, ProposalRow
  <2>5. trail' = [trail EXCEPT ![id] = Append(@, entry)]
    BY <1>4 DEF CommitTransition
  <2>6. proposal' = [proposal EXCEPT ![id] = row]
    BY <1>4 DEF CommitTransition
  <2> HIDE DEF id, entry, row
  <2>7. trail' \in [ProposalIds -> Seq(Entry)]
    BY <2>2, <2>4, <2>5 DEF TypeOK
  <2>8. proposal' \in [ProposalIds -> ProposalRow \cup {Absent}]
    BY <2>2, <2>3, <2>6 DEF TypeOK
  <2> QED BY <1>4, <2>7, <2>8 DEF CommitTransition, Finish, TypeOK
<1>5. ASSUME NEW w \in Workers, RefuseTransition(w) \/ Abort(w) PROVE TypeOK'
  BY <1>5 DEF RefuseTransition, Abort, Finish, TypeOK
<1>6. ASSUME NEW p \in Parcels, ParcelMoves(p) PROVE TypeOK'
  BY <1>6 DEF ParcelMoves, TypeOK
<1>7. CASE UNCHANGED vars
  BY <1>7 DEF vars, TypeOK
<1> QED BY <1>1, <1>2, <1>3, <1>4, <1>5, <1>6, <1>7 DEF Next

------------------------------------------------------------------------------
\* What a step can do to one row and its trail: leave both, store a draft, or
\* apply a checked transition to the row as it was read.
NewEntry(w) ==
  [by |-> job[w].actor.id, before |-> Stamp(job[w].item),
   after |-> [state |-> job[w].to, version |-> job[w].item.version + 1]]

Kept(id) == proposal'[id] = proposal[id] /\ trail'[id] = trail[id]

Drafted(w, id) ==
  /\ job[w].op = "create" /\ job[w] \in CreateJob
  /\ proposal[id] = Absent
  /\ LET row == NewProposal(job[w].parcel, job[w].base, job[w].actor) IN
       /\ proposal'[id] = row
       /\ trail'[id] = <<[by |-> job[w].actor.id, before |-> NoStamp,
                         after |-> Stamp(row)]>>

Transitioned(w, id) ==
  /\ job[w].op = "transition" /\ job[w] \in TransitionJob
  /\ job[w].id = id
  /\ StillAsRead(id, job[w].item)
  /\ proposal'[id] = Moved(proposal[id], job[w].to, job[w].actor)
  /\ trail'[id] = Append(trail[id], NewEntry(w))

LEMMA RowSteps ==
  ASSUME TypeOK, [Next]_vars, NEW id \in ProposalIds
  PROVE  \/ Kept(id)
         \/ \E w \in Workers : Drafted(w, id) \/ Transitioned(w, id)
<1>1. ASSUME NEW w \in Workers, NEW i \in ProposalIds, CommitCreate(w, i)
      PROVE  Kept(id) \/ Drafted(w, id)
  <2>1. job[w] \in CreateJob
    BY <1>1, JobKinds DEF CommitCreate
  <2>2. CASE i = id
    BY <1>1, <2>1, <2>2 DEF CommitCreate, Drafted, TypeOK
  <2>3. CASE i # id
    BY <1>1, <2>3 DEF CommitCreate, Kept, TypeOK
  <2> QED BY <2>2, <2>3
<1>2. ASSUME NEW w \in Workers, CommitTransition(w)
      PROVE  Kept(id) \/ Transitioned(w, id)
  <2>1. job[w] \in TransitionJob
    BY <1>2, JobKinds DEF CommitTransition
  <2>2. CASE job[w].id = id
    BY <1>2, <2>1, <2>2 DEF CommitTransition, Transitioned, NewEntry, TypeOK
  <2>3. CASE job[w].id # id
    BY <1>2, <2>3 DEF CommitTransition, Kept, TypeOK
  <2> QED BY <2>2, <2>3
<1>3. CASE UNCHANGED <<proposal, trail>>
  BY <1>3 DEF Kept
<1> QED
  BY <1>1, <1>2, <1>3
     DEF Next, vars, ReadParcel, ReadProposal, RefuseTransition, Abort, ParcelMoves

LEMMA NewEntryTyped ==
  ASSUME NEW w, job[w] \in TransitionJob
  PROVE  NewEntry(w) \in Entry
BY DEF NewEntry, Entry, Stamp, Stamps, TransitionJob, Actors, ProposalRow

\* The author column never changes and rows are never deleted.
LEMMA AuthorsStay ==
  ASSUME TypeOK, [Next]_vars, NEW id \in ProposalIds, proposal[id] # Absent
  PROVE  /\ proposal'[id] # Absent
         /\ proposal'[id].createdBy = proposal[id].createdBy
         /\ proposal'[id].parcel = proposal[id].parcel
         /\ proposal'[id].base = proposal[id].base
<1>1. proposal[id] \in ProposalRow
  BY DEF TypeOK
<1>2. CASE Kept(id)
  BY <1>2 DEF Kept
<1>3. ASSUME NEW w \in Workers, Transitioned(w, id)
      PROVE  /\ proposal'[id] \in ProposalRow
             /\ proposal'[id].createdBy = proposal[id].createdBy
             /\ proposal'[id].parcel = proposal[id].parcel
             /\ proposal'[id].base = proposal[id].base
  BY <1>1, <1>3, MovedColumns DEF Transitioned, TransitionJob
<1> QED BY <1>2, <1>3, RowSteps, AbsentAssumption DEF Drafted

\* Boundary versions only grow.
LEMMA BoundariesGrow ==
  ASSUME TypeOK, [Next]_vars, NEW p \in Parcels
  PROVE  boundaryVersion'[p] >= boundaryVersion[p]
<1>1. CASE UNCHANGED boundaryVersion
  BY <1>1 DEF TypeOK
<1>2. ASSUME NEW q \in Parcels, ParcelMoves(q)
      PROVE  boundaryVersion'[p] >= boundaryVersion[p]
  BY <1>2 DEF ParcelMoves, TypeOK
<1> QED
  BY <1>1, <1>2 DEF Next, vars, ReadParcel, CommitCreate, ReadProposal,
     CommitTransition, RefuseTransition, Abort

------------------------------------------------------------------------------
\* A request keeps what its checks established, whatever else commits.
LEMMA JobsStayChecked ==
  TypeOK /\ JobsAreChecked /\ BaseWasReal /\ [Next]_vars => JobsAreChecked'
<1> SUFFICES ASSUME TypeOK, JobsAreChecked, [Next]_vars, NEW w \in Workers
             PROVE  JobIsChecked(w)'
  BY DEF JobsAreChecked
<1>0. JobIsChecked(w)
  BY DEF JobsAreChecked
<1>1. CASE job'[w] = job[w]
  <2>1. ASSUME job[w].op = "create"
        PROVE  job[w].base \in 1..boundaryVersion'[job[w].parcel]
    <3>1. job[w].parcel \in Parcels /\ job[w].base \in 1..boundaryVersion[job[w].parcel]
      BY <1>0, <2>1, JobKinds DEF JobIsChecked, CreateJob
    <3>2. boundaryVersion[job[w].parcel] \in Nat /\ boundaryVersion'[job[w].parcel] \in Nat
      BY <3>1, NextTyped DEF TypeOK
    <3> QED BY <3>1, <3>2, BoundariesGrow
  <2>2. ASSUME job[w].op = "transition"
        PROVE  /\ proposal'[job[w].id] # Absent
               /\ proposal'[job[w].id].createdBy = job[w].item.createdBy
    BY <1>0, <2>2, JobKinds, AuthorsStay DEF JobIsChecked, TransitionJob
  <2> QED BY <1>0, <1>1, <2>1, <2>2 DEF JobIsChecked, Admitted, Authorized
<1>2. CASE job'[w] = Idle
  BY <1>2 DEF JobIsChecked, Idle
<1>3. ASSUME NEW v \in Workers, NEW actor \in Actors, NEW p \in Parcels,
             NEW base \in 1..MaxBoundary, ReadParcel(v, actor, p, base)
      PROVE  JobIsChecked(w)'
  <2>1. CASE w # v
    BY <1>1, <1>3, <2>1 DEF ReadParcel, TypeOK
  <2>2. CASE w = v
    <3>1. job'[w] = [op |-> "create", actor |-> actor, parcel |-> p, base |-> base]
      BY <1>3, <2>2 DEF ReadParcel, TypeOK
    <3>2. base \in 1..boundaryVersion'[p]
      BY <1>3, BoundsAssumption DEF ReadParcel, BaseMatches, TypeOK
    <3>3. Admitted(actor, "createProposal")
      BY <1>3 DEF ReadParcel
    <3> QED BY <3>1, <3>2, <3>3 DEF JobIsChecked, Admitted
  <2> QED BY <2>1, <2>2
<1>4. ASSUME NEW v \in Workers, NEW actor \in Actors, NEW id \in ProposalIds,
             NEW to \in ProposalStates,
             ReadProposal(v, actor, id, to)
      PROVE  JobIsChecked(w)'
  <2>1. CASE w # v
    BY <1>1, <1>4, <2>1 DEF ReadProposal, TypeOK
  <2>2. CASE w = v
    <3>1. job'[w] = [op |-> "transition", actor |-> actor, id |-> id, to |-> to,
                     item |-> proposal[id]]
      BY <1>4, <2>2 DEF ReadProposal, TypeOK
    <3>2. /\ Admitted(actor, "transitionProposal")
          /\ CanProposalTransition(proposal[id].state, to)
          /\ Authorized(proposal[id], to, actor)
          /\ proposal[id] # Absent
          /\ proposal' = proposal
      BY <1>4 DEF ReadProposal
    <3> QED BY <3>1, <3>2 DEF JobIsChecked, Admitted, Authorized
  <2> QED BY <2>1, <2>2
<1>5. ASSUME NEW v \in Workers,
             \/ \E id \in ProposalIds : CommitCreate(v, id)
             \/ CommitTransition(v) \/ RefuseTransition(v) \/ Abort(v)
      PROVE  JobIsChecked(w)'
  <2>1. job' = [job EXCEPT ![v] = Idle]
    BY <1>5 DEF CommitCreate, CommitTransition, RefuseTransition, Abort, Finish
  <2> QED BY <1>1, <1>2, <2>1 DEF TypeOK
<1>6. CASE UNCHANGED job
  BY <1>1, <1>6
<1> QED BY <1>3, <1>4, <1>5, <1>6 DEF Next, vars, ParcelMoves

------------------------------------------------------------------------------
\* Each kind of step on a row keeps its trail an account of it.
LEMMA TrailsStay ==
  TypeOK /\ TrailReplays /\ [Next]_vars => TrailReplays'
<1> SUFFICES ASSUME TypeOK, TrailReplays, [Next]_vars, NEW id \in ProposalIds
             PROVE  Replays(trail'[id], proposal'[id])
  BY DEF TrailReplays, Replays, Stamp
<1> DEFINE t == trail[id]
<1>0. t \in Seq(Entry)
  BY DEF TypeOK
<1>1. CASE Kept(id)
  BY <1>1 DEF Kept, TrailReplays
<1>2. ASSUME NEW w \in Workers, Drafted(w, id)
      PROVE  Replays(trail'[id], proposal'[id])
  <2>1. Len(trail'[id]) = 1 /\ trail'[id] # << >>
    BY <1>2 DEF Drafted
  <2>2. trail'[id][1].before = NoStamp /\ trail'[id][1].after = Stamp(proposal'[id])
    BY <1>2 DEF Drafted
  <2>3. proposal'[id] # Absent
    <3>1. proposal'[id] \in ProposalRow
      BY <1>2 DEF Drafted, NewProposal, CreateJob, Actors, ProposalRow, ProposalStates
    <3> QED BY <3>1, AbsentAssumption
  <2> QED BY <2>1, <2>2, <2>3 DEF Replays
<1>3. ASSUME NEW w \in Workers, Transitioned(w, id)
      PROVE  Replays(trail'[id], proposal'[id])
  <2> DEFINE e == NewEntry(w)
  <2>1. proposal[id] # Absent /\ proposal'[id] # Absent
    BY <1>3, AuthorsStay DEF Transitioned, StillAsRead
  <2>2. /\ t # << >> /\ t[1].before = NoStamp
        /\ t[Len(t)].after = Stamp(proposal[id])
        /\ \A i \in 1..(Len(t) - 1) : t[i + 1].before = t[i].after
    BY <2>1 DEF TrailReplays, Replays
  <2>3. trail'[id] = Append(t, e) /\ e \in Entry
    BY <1>3, NewEntryTyped DEF Transitioned
  <2>4. e.before = Stamp(proposal[id])
    BY <1>3 DEF Transitioned, NewEntry, StillAsRead, Stamp
  <2>5. e.after = Stamp(proposal'[id])
    <3>1. proposal[id] \in ProposalRow
      BY <2>1 DEF TypeOK
    <3>2. /\ proposal'[id].state = job[w].to
          /\ proposal'[id].version = proposal[id].version + 1
      BY <1>3, <3>1, MovedColumns DEF Transitioned, TransitionJob
    <3>3. proposal[id].version = job[w].item.version
      BY <1>3 DEF Transitioned, StillAsRead
    <3> QED BY <3>2, <3>3 DEF NewEntry, Stamp
  <2> HIDE DEF e, t
  <2>6. Len(trail'[id]) = Len(t) + 1 /\ trail'[id][Len(t) + 1] = e
    BY <1>0, <2>3
  <2>7. \A i \in 1..Len(t) : trail'[id][i] = t[i]
    BY <1>0, <2>3
  <2>8. Len(t) \in Nat /\ Len(t) >= 1
    BY <1>0, <2>2
  <2>9. \A i \in 1..Len(t) : trail'[id][i + 1].before = trail'[id][i].after
    <3> SUFFICES ASSUME NEW i \in 1..Len(t)
                 PROVE  trail'[id][i + 1].before = trail'[id][i].after
      OBVIOUS
    <3>1. trail'[id][i] = t[i]
      BY <2>7
    <3>2. CASE i = Len(t)
      BY <2>2, <2>4, <2>6, <3>1, <3>2
    <3>3. CASE i # Len(t)
      <4>1. i \in 1..(Len(t) - 1) /\ i + 1 \in 1..Len(t)
        BY <2>8, <3>3
      <4>2. trail'[id][i + 1] = t[i + 1]
        BY <2>7, <4>1
      <4> QED BY <2>2, <3>1, <4>1, <4>2
    <3> QED BY <3>2, <3>3
  <2>10. trail'[id][1].before = NoStamp /\ trail'[id] # << >>
    BY <2>2, <2>6, <2>7, <2>8
  <2> QED BY <2>1, <2>5, <2>6, <2>8, <2>9, <2>10 DEF Replays
<1> QED BY <1>1, <1>2, <1>3, RowSteps

------------------------------------------------------------------------------
\* Appending a review by anyone but the author makes them reviewer of record;
\* appending anything else changes no reviewer.
LEMMA AppendedReviews ==
  ASSUME NEW t \in Seq(Entry), NEW e \in Entry
  PROVE  /\ \A i \in 1..Len(t) : Append(t, e)[i] = t[i]
         /\ Append(t, e)[Len(t) + 1] = e
         /\ Reviews(Append(t, e)) =
              Reviews(t) \cup (IF e.after.state \in ReviewTargets
                              THEN {Len(t) + 1} ELSE {})
<1> DEFINE u == Append(t, e)
<1>1. /\ Len(u) = Len(t) + 1 /\ Len(t) \in Nat
      /\ \A i \in 1..Len(t) : u[i] = t[i]
      /\ u[Len(t) + 1] = e
  OBVIOUS
<1> HIDE DEF u
<1>2. 1..Len(u) = (1..Len(t)) \cup {Len(t) + 1}
  BY <1>1
<1>3. Reviews(u) = Reviews(t) \cup (IF e.after.state \in ReviewTargets
                                     THEN {Len(t) + 1} ELSE {})
  <2>1. ASSUME NEW i PROVE i \in Reviews(u) <=>
          \/ i \in Reviews(t)
          \/ i = Len(t) + 1 /\ e.after.state \in ReviewTargets
    <3>1. CASE i \in 1..Len(t)
      <4>1. u[i] = t[i] /\ i # Len(t) + 1 /\ i \in 1..Len(u)
        BY <1>1, <1>2, <3>1
      <4> QED BY <3>1, <4>1 DEF Reviews
    <3>2. CASE i = Len(t) + 1
      <4>1. i \notin 1..Len(t) /\ i \in 1..Len(u)
        BY <1>1, <1>2, <3>2
      <4> QED BY <1>1, <3>2, <4>1 DEF Reviews
    <3>3. CASE i \notin (1..Len(t)) \cup {Len(t) + 1}
      BY <1>2, <3>3 DEF Reviews
    <3> QED BY <3>1, <3>2, <3>3
  <2> QED BY <2>1
<1> QED BY <1>1, <1>3 DEF u

LEMMA ReviewersStay ==
  TypeOK /\ JobsAreChecked /\ ReviewerOfRecord /\ [Next]_vars => ReviewerOfRecord'
<1> SUFFICES ASSUME TypeOK, JobsAreChecked, ReviewerOfRecord, [Next]_vars,
                    NEW id \in ProposalIds, proposal'[id] # Absent
             PROVE  NamesReviewer(trail'[id], proposal'[id])
  BY DEF ReviewerOfRecord, NamesReviewer, Reviews
<1>1. CASE Kept(id)
  BY <1>1 DEF Kept, ReviewerOfRecord
<1>2. ASSUME NEW w \in Workers, Drafted(w, id)
      PROVE  NamesReviewer(trail'[id], proposal'[id])
  <2>1. trail'[id][1].after.state = "draft" /\ Len(trail'[id]) = 1
    BY <1>2 DEF Drafted, NewProposal, Stamp
  <2>2. Reviews(trail'[id]) = {}
    BY <2>1 DEF Reviews, ReviewTargets
  <2>3. proposal'[id].reviewedBy = Nobody
    BY <1>2 DEF Drafted, NewProposal
  <2> QED BY <2>2, <2>3 DEF NamesReviewer
<1>3. ASSUME NEW w \in Workers, Transitioned(w, id)
      PROVE  NamesReviewer(trail'[id], proposal'[id])
  <2> DEFINE e == NewEntry(w)  t == trail[id]
             row == proposal[id]  new == proposal'[id]
  <2>1. row # Absent /\ row \in ProposalRow
    BY <1>3 DEF Transitioned, StillAsRead, TypeOK
  <2>2. /\ new.createdBy = row.createdBy
        /\ new.reviewedBy = IF job[w].to \in ReviewTargets THEN job[w].actor.id
                            ELSE row.reviewedBy
    BY <1>3, <2>1, MovedColumns DEF Transitioned, TransitionJob
  <2>3. t \in Seq(Entry) /\ e \in Entry /\ trail'[id] = Append(t, e)
    BY <1>3, NewEntryTyped DEF TypeOK, Transitioned
  <2>4. e.by = job[w].actor.id /\ e.after.state = job[w].to
    BY DEF NewEntry
  <2>5. job[w].to \in ReviewTargets => job[w].actor.id # row.createdBy
    <3>1. JobIsChecked(w) /\ job[w].op = "transition" /\ job[w].id = id
      BY <1>3 DEF JobsAreChecked, Transitioned
    <3> QED BY <3>1 DEF JobIsChecked, Authorized, AuthoringTargets
  <2>6. NamesReviewer(t, row)
    BY <2>1 DEF ReviewerOfRecord
  <2>7. job[w].actor.id # Nobody
    BY <1>3, NobodyAssumption DEF Transitioned, TransitionJob, Actors
  <2>8. Len(t) \in Nat /\ Reviews(t) \subseteq 1..Len(t)
    BY <2>3 DEF Reviews
  <2> HIDE DEF e, t, row, new
  <2>9. /\ \A i \in 1..Len(t) : trail'[id][i] = t[i]
        /\ trail'[id][Len(t) + 1] = e
        /\ Reviews(trail'[id]) =
             Reviews(t) \cup (IF e.after.state \in ReviewTargets
                             THEN {Len(t) + 1} ELSE {})
    BY <2>3, AppendedReviews
  <2>10. CASE job[w].to \in ReviewTargets
    <3>1. /\ Reviews(trail'[id]) = Reviews(t) \cup {Len(t) + 1}
          /\ new.reviewedBy = e.by /\ new.reviewedBy # Nobody
          /\ e.by # new.createdBy
      BY <2>2, <2>4, <2>5, <2>7, <2>9, <2>10
    <3>2. \A i \in Reviews(trail'[id]) : trail'[id][i].by # new.createdBy
      BY <2>2, <2>6, <2>8, <2>9, <3>1 DEF NamesReviewer
    <3>3. \A j \in Reviews(trail'[id]) : j <= Len(t) + 1
      BY <2>8, <3>1
    <3>4. trail'[id][Len(t) + 1].by = new.reviewedBy
      BY <2>9, <3>1
    <3> QED BY <3>1, <3>2, <3>3, <3>4 DEF NamesReviewer, new
  <2>11. CASE job[w].to \notin ReviewTargets
    <3>1. Reviews(trail'[id]) = Reviews(t) /\ new.reviewedBy = row.reviewedBy
      BY <2>2, <2>4, <2>9, <2>11
    <3>2. \A i \in Reviews(t) : trail'[id][i] = t[i]
      BY <2>8, <2>9
    <3> QED BY <2>2, <2>6, <3>1, <3>2 DEF NamesReviewer, new
  <2> QED BY <2>10, <2>11
<1> QED BY <1>1, <1>2, <1>3, RowSteps

------------------------------------------------------------------------------
LEMMA BasesStay ==
  TypeOK /\ JobsAreChecked /\ TrailReplays /\ BaseWasReal /\ [Next]_vars => BaseWasReal'
<1> SUFFICES ASSUME TypeOK, JobsAreChecked, TrailReplays, BaseWasReal, [Next]_vars,
                    NEW id \in ProposalIds, proposal'[id] # Absent
             PROVE  /\ proposal'[id].base \in 1..boundaryVersion'[proposal'[id].parcel]
                    /\ trail'[id][1].by = proposal'[id].createdBy
  BY DEF BaseWasReal
<1>0. TypeOK'
  BY NextTyped
<1>1. ASSUME NEW p \in Parcels, NEW b \in 1..boundaryVersion[p]
      PROVE  b \in 1..boundaryVersion'[p]
  <2>1. boundaryVersion[p] \in Nat /\ boundaryVersion'[p] \in Nat
    BY <1>0 DEF TypeOK
  <2> QED BY <2>1, BoundariesGrow
<1>2. CASE proposal[id] # Absent
  <2>1. /\ proposal[id] \in ProposalRow
        /\ proposal[id].base \in 1..boundaryVersion[proposal[id].parcel]
        /\ trail[id][1].by = proposal[id].createdBy
    BY <1>2 DEF TypeOK, BaseWasReal
  <2>2. proposal[id].base \in 1..boundaryVersion'[proposal[id].parcel]
    BY <1>1, <2>1 DEF ProposalRow
  <2>3. trail[id] \in Seq(Entry) /\ trail[id] # << >>
    BY <1>2 DEF TypeOK, TrailReplays, Replays
  <2>4. trail'[id][1] = trail[id][1]
    <3>1. CASE Kept(id)
      BY <3>1 DEF Kept
    <3>2. ASSUME NEW w \in Workers, Transitioned(w, id)
          PROVE  trail'[id][1] = trail[id][1]
      <4>1. trail'[id] = Append(trail[id], NewEntry(w)) /\ NewEntry(w) \in Entry
        BY <3>2, NewEntryTyped DEF Transitioned
      <4> QED BY <2>3, <4>1
    <3> QED BY <1>2, <3>1, <3>2, RowSteps DEF Drafted
  <2> QED BY <1>2, <2>1, <2>2, <2>4, AuthorsStay
<1>3. CASE proposal[id] = Absent
  <2>1. PICK w \in Workers : Drafted(w, id)
    BY <1>3, RowSteps DEF Kept, Transitioned, StillAsRead
  <2>2. JobIsChecked(w) /\ job[w].parcel \in Parcels
    BY <2>1 DEF JobsAreChecked, Drafted, CreateJob
  <2>3. job[w].base \in 1..boundaryVersion[job[w].parcel]
    BY <2>1, <2>2 DEF JobIsChecked, Drafted
  <2>4. job[w].base \in 1..boundaryVersion'[job[w].parcel]
    BY <1>1, <2>2, <2>3
  <2> QED BY <2>1, <2>4 DEF Drafted, NewProposal
<1> QED BY <1>2, <1>3

------------------------------------------------------------------------------
LEMMA InitInv == Init => IInv
<1> SUFFICES ASSUME Init PROVE IInv
  OBVIOUS
<1>1. TypeOK
  BY InitTyped
<1>2. JobsAreChecked
  BY DEF Init, JobsAreChecked, JobIsChecked, Idle
<1>3. TrailReplays /\ ReviewerOfRecord /\ BaseWasReal
  BY DEF Init, TrailReplays, Replays, ReviewerOfRecord, BaseWasReal
<1> QED BY <1>1, <1>2, <1>3 DEF IInv

LEMMA NextInv == IInv /\ [Next]_vars => IInv'
BY NextTyped, JobsStayChecked, TrailsStay, ReviewersStay, BasesStay DEF IInv

LEMMA Inductive == Spec => []IInv
BY InitInv, NextInv, PTL DEF Spec

\* Every reachable state is typed, whatever the constants.
THEOREM Typing == Spec => []TypeOK
BY Inductive, PTL DEF IInv

\* The audit trail of every proposal always replays to the stored row.
THEOREM AuditTrail == Spec => []TrailReplays
BY Inductive, PTL DEF IInv

\* The reviewer column always names the last reviewer, who is not the author.
THEOREM IndependentReview == Spec => []ReviewerOfRecord
BY Inductive, PTL DEF IInv

\* No proposal ever claims a boundary version its parcel has not had.
THEOREM Provenance == Spec => []BaseWasReal
BY Inductive, PTL DEF IInv

------------------------------------------------------------------------------
\* A step that stores a draft pins a card; one that transitions a row is one
\* legal, entitled move of its card; every other step leaves the board alone.
LEMMA OneCardMoves ==
  ASSUME TypeOK, [Next]_vars
  PROVE  \/ BoardView' = BoardView
         \/ \E w \in Workers, id \in ProposalIds :
              /\ Drafted(w, id) \/ Transitioned(w, id)
              /\ BoardView' = [BoardView EXCEPT ![id] = Card(proposal'[id])]
<1>1. CASE UNCHANGED proposal
  BY <1>1 DEF BoardView, Card
<1>2. ASSUME NEW w \in Workers, NEW id \in ProposalIds,
             NEW row, row \in ProposalRow,
             proposal' = [proposal EXCEPT ![id] = row]
      PROVE  BoardView' = [BoardView EXCEPT ![id] = Card(proposal'[id])]
  <2>1. proposal'[id] = row /\ row # Absent
    BY <1>2, AbsentAssumption DEF TypeOK
  <2>2. \A i \in ProposalIds : i # id => proposal'[i] = proposal[i]
    BY <1>2 DEF TypeOK
  <2>3. BoardView' = [i \in ProposalIds |->
                        IF proposal'[i] = Absent THEN Absent ELSE Card(proposal'[i])]
    BY DEF BoardView, Card
  <2> QED BY <2>1, <2>2, <2>3 DEF BoardView
<1>3. ASSUME NEW w \in Workers, NEW id \in ProposalIds, CommitCreate(w, id)
      PROVE  /\ Drafted(w, id)
             /\ BoardView' = [BoardView EXCEPT ![id] = Card(proposal'[id])]
  <2>1. Drafted(w, id)
    BY <1>3, JobKinds DEF CommitCreate, Drafted, TypeOK
  <2>2. NewProposal(job[w].parcel, job[w].base, job[w].actor) \in ProposalRow
    BY <2>1 DEF Drafted, NewProposal, CreateJob, Actors, ProposalRow, ProposalStates
  <2>3. proposal' = [proposal EXCEPT ![id] =
                       NewProposal(job[w].parcel, job[w].base, job[w].actor)]
    BY <1>3 DEF CommitCreate
  <2> QED BY <1>2, <2>1, <2>2, <2>3
<1>4. ASSUME NEW w \in Workers, CommitTransition(w)
      PROVE  \E id \in ProposalIds :
               /\ Transitioned(w, id)
               /\ BoardView' = [BoardView EXCEPT ![id] = Card(proposal'[id])]
  <2> DEFINE id == job[w].id
  <2>1. job[w] \in TransitionJob /\ id \in ProposalIds
    BY <1>4, JobKinds DEF CommitTransition, TransitionJob
  <2>2. Transitioned(w, id)
    BY <1>4, <2>1 DEF CommitTransition, Transitioned, NewEntry, TypeOK
  <2>3. Moved(proposal[id], job[w].to, job[w].actor) \in ProposalRow
    BY <2>1, <2>2, MovedColumns DEF Transitioned, StillAsRead, TypeOK, TransitionJob
  <2>4. proposal' = [proposal EXCEPT ![id] = Moved(@, job[w].to, job[w].actor)]
    BY <1>4 DEF CommitTransition
  <2> HIDE DEF id
  <2>5. BoardView' = [BoardView EXCEPT ![id] = Card(proposal'[id])]
    BY <1>2, <2>1, <2>3, <2>4
  <2> QED BY <2>1, <2>2, <2>5
<1> QED
  BY <1>1, <1>3, <1>4
     DEF Next, vars, ReadParcel, ReadProposal, RefuseTransition, Abort, ParcelMoves

\* The board instance carries the same rules.
LEMMA SameRules ==
  /\ Board!ProposalStates = ProposalStates
  /\ Board!ReviewTargets = ReviewTargets
  /\ Board!AuthoringTargets = AuthoringTargets
  /\ Board!Authors = Authors
  /\ Board!Reviewers = Reviewers
  /\ Board!RouteRoles.transitionProposal = RouteRoles.transitionProposal
  /\ \A from, to : Board!CanProposalTransition(from, to) <=> CanProposalTransition(from, to)
BY DEF Board!ProposalStates, ProposalStates, Board!ReviewTargets, ReviewTargets,
   Board!AuthoringTargets, AuthoringTargets, Board!Authors, Authors,
   Board!Reviewers, Reviewers, Board!RouteRoles, RouteRoles, Board!Analysts, Analysts,
   Board!CanProposalTransition, CanProposalTransition,
   Board!ProposalTransitions, ProposalTransitions

LEMMA BoardStep ==
  TypeOK /\ JobsAreChecked /\ [Next]_vars => [Board!Next]_BoardView
<1> SUFFICES ASSUME TypeOK, JobsAreChecked, [Next]_vars, BoardView' # BoardView
             PROVE  Board!Next
  OBVIOUS
<1>1. PICK w \in Workers, id \in ProposalIds :
        /\ Drafted(w, id) \/ Transitioned(w, id)
        /\ BoardView' = [BoardView EXCEPT ![id] = Card(proposal'[id])]
  BY OneCardMoves
<1> DEFINE u == job[w].actor.id
<1>2. JobIsChecked(w)
  BY DEF JobsAreChecked
<1>3. CASE Drafted(w, id)
  <2>1. u \in Users /\ job[w].actor.role \in RolesOf[u] \cap Authors
    BY <1>2, <1>3 DEF Drafted, JobIsChecked, Admitted, RouteRoles, CreateJob, Actors
  <2>2. Card(proposal'[id]) = [state |-> "draft", author |-> u, reviewer |-> Nobody]
    BY <1>3 DEF Drafted, NewProposal, Card
  <2>3. BoardView[id] = Absent
    BY <1>3 DEF Drafted, BoardView
  <2>4. Board!Pin(u, id)
    BY <1>1, <2>1, <2>2, <2>3, SameRules DEF Board!Pin, Board!May
  <2> QED BY <2>1, <2>4 DEF Board!Next
<1>4. CASE Transitioned(w, id)
  <2> DEFINE to == job[w].to  row == proposal[id]
  <2>1. /\ u \in Users /\ to \in ProposalStates
        /\ row # Absent /\ row \in ProposalRow /\ row.state = job[w].item.state
        /\ proposal'[id] = Moved(row, to, job[w].actor)
        /\ job[w].actor \in Actors
    BY <1>4 DEF Transitioned, StillAsRead, TransitionJob, Actors, TypeOK
  <2>2. /\ job[w].actor.role \in RolesOf[u]
        /\ job[w].actor.role \in RouteRoles.transitionProposal
        /\ CanProposalTransition(row.state, to)
        /\ Authorized(row, to, job[w].actor)
    BY <1>2, <1>4, <2>1 DEF Transitioned, JobIsChecked, Admitted, Authorized
  <2>3. BoardView[id] = Card(row) /\ BoardView[id] # Absent
    <3>1. Card(row) \in Cards
      BY <2>1 DEF Card, Cards, ProposalRow
    <3> QED BY <2>1, <3>1, AbsentAssumption DEF BoardView
  <2>4. Card(proposal'[id]) =
          [state |-> to, author |-> row.createdBy,
           reviewer |-> IF to \in ReviewTargets THEN u ELSE row.reviewedBy]
    BY <2>1, MovedColumns DEF Card
  <2> HIDE DEF to, row, u
  <2>5. CASE to \in ReviewTargets
    <3>1. job[w].actor.role \in Reviewers /\ u # row.createdBy
      BY <2>2, <2>5 DEF Authorized, AuthoringTargets, u
    <3>2. [BoardView EXCEPT ![id] =
             [state |-> to, author |-> @.author, reviewer |-> u]] =
            [BoardView EXCEPT ![id] = Card(proposal'[id])]
      <4>1. BoardView[id].author = row.createdBy
        BY <2>3 DEF Card
      <4>2. Card(proposal'[id]) =
              [state |-> to, author |-> BoardView[id].author, reviewer |-> u]
        BY <2>4, <2>5, <4>1
      <4> QED BY <4>2
    <3>3. Board!Decide(u, id, to)
      BY <1>1, <2>2, <2>3, <2>5, <3>1, <3>2, SameRules DEF Board!Decide, Board!May, Card
    <3> QED BY <2>1, <3>3, SameRules DEF Board!Next
  <2>6. CASE to \notin ReviewTargets
    <3>1. to \in AuthoringTargets /\ (u = row.createdBy \/ job[w].actor.role = "admin")
      BY <2>1, <2>2, <2>6 DEF Authorized, AuthoringTargets, u
    <3>2. [BoardView EXCEPT ![id].state = to] =
            [BoardView EXCEPT ![id] = Card(proposal'[id])]
      <4>1. BoardView[id] = [state |-> row.state, author |-> row.createdBy,
                             reviewer |-> row.reviewedBy]
        BY <2>3 DEF Card
      <4>2. Card(proposal'[id]) = [BoardView[id] EXCEPT !.state = to]
        BY <2>4, <2>6, <4>1
      <4> QED BY <4>2 DEF BoardView
    <3>3. Board!Advance(u, id, to)
      BY <1>1, <2>2, <2>3, <3>1, <3>2, SameRules DEF Board!Advance, Board!May, Card
    <3> QED BY <2>1, <3>3, SameRules DEF Board!Next
  <2> QED BY <2>5, <2>6
<1> QED BY <1>1, <1>3, <1>4

LEMMA BoardInit == Init => Board!Init
BY DEF Init, Board!Init, BoardView

\* The interleaved handlers implement the atomic board.
THEOREM Refinement == Spec => ImplementsBoard
<1>1. IInv /\ [Next]_vars => [Board!Next]_BoardView
  BY BoardStep DEF IInv
<1> QED BY <1>1, BoardInit, Inductive, PTL DEF Spec, ImplementsBoard, Board!Spec
==============================================================================
