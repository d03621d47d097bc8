------------------------------ MODULE Proposals ------------------------------
(***************************************************************************)
(* CreateProposal and TransitionProposal of                                *)
(* service/boundary_proposal_service.go over the tables boundary_proposals *)
(* and audit_logs.  Each worker serves one HTTP request at a time.  A read *)
(* outside a transaction is one step; a transaction (a conditional UPDATE  *)
(* or INSERT plus its audit INSERT, Read Committed) is one step; whatever  *)
(* other workers commit in between is invisible to the request.  A request *)
(* refused by an early return changes nothing and is not a step.           *)
(***************************************************************************)
EXTENDS Integers, Sequences, CadastralRules

CONSTANTS
  Users,        \* account ids
  RolesOf,      \* the roles an account may hold when a request authenticates
  Parcels,      \* parcel ids
  ProposalIds,  \* ids the proposals table may hand out
  Workers,      \* requests in flight at the same time
  Absent,       \* a row that does not exist
  Nobody,       \* the NULL of a user column
  MaxVersion,   \* bound: proposal rows stop moving at this version
  MaxBoundary   \* bound: parcels stop changing at this boundary version

ASSUME RolesAssumption  == RolesOf \in [Users -> SUBSET Roles]
ASSUME BoundsAssumption == MaxVersion \in Nat \ {0} /\ MaxBoundary \in Nat \ {0}
ASSUME NobodyAssumption == Nobody \notin Users

VARIABLES
  boundaryVersion,  \* land_parcels.boundary_version
  proposal,         \* boundary_proposals
  trail,            \* audit_logs of resource type BoundaryProposal, per row
  job               \* what each worker holds in its local variables

vars == <<boundaryVersion, proposal, trail, job>>

------------------------------------------------------------------------------
Actors == [id : Users, role : Roles]

ProposalRow ==
  [ parcel : Parcels, base : Nat, state : ProposalStates, version : Nat,
    createdBy : Users, reviewedBy : Users \cup {Nobody} ]

\* What a reader of the workflow sees of a row.
Cards == [state : ProposalStates, author : Users, reviewer : Users \cup {Nobody}]

ASSUME AbsentAssumption == Absent \notin ProposalRow /\ Absent \notin Cards

\* What the snapshots of an audit row tell apart: the state and the version.
Stamp(row) == [state |-> row.state, version |-> row.version]
NoStamp == [state |-> "none", version |-> 0]
Stamps == [state : ProposalStates \cup {"none"}, version : Nat]
Entry == [by : Users, before : Stamps, after : Stamps]

Idle == [op |-> "idle"]
CreateJob == [op : {"create"}, actor : Actors, parcel : Parcels, base : Nat]
TransitionJob == [op : {"transition"}, actor : Actors, id : ProposalIds,
                  to : ProposalStates, item : ProposalRow]

TypeOK ==
  /\ boundaryVersion \in [Parcels -> Nat]
  /\ proposal \in [ProposalIds -> ProposalRow \cup {Absent}]
  /\ trail \in [ProposalIds -> Seq(Entry)]
  /\ job \in [Workers -> {Idle} \cup CreateJob \cup TransitionJob]

------------------------------------------------------------------------------
\* RBACMiddleware: the actor's current role must be on the route's list.
Admitted(actor, route) ==
  actor.role \in RolesOf[actor.id] \cap RouteRoles[route]

\* Mutant: only an outdated base is refused.
BaseMatchesLoose(p, base) == base >= boundaryVersion[p]

\* req.BaseVersion != parcel.BoundaryVersion is refused.
BaseMatches(p, base) == base = boundaryVersion[p]

\* Mutant: the self-review check is lost.
AuthorizedSelfReview(item, to, actor) ==
  \/ /\ to \in AuthoringTargets
     /\ actor.id = item.createdBy \/ actor.role = "admin"
  \/ /\ to \in ReviewTargets
     /\ actor.role \in Reviewers

\* authorizeProposalTransition
Authorized(item, to, actor) ==
  \/ /\ to \in AuthoringTargets
     /\ actor.id = item.createdBy \/ actor.role = "admin"
  \/ /\ to \in ReviewTargets
     /\ actor.role \in Reviewers
     /\ actor.id # item.createdBy

\* Mutant: the WHERE clause forgets the version (A-B-A on the state).
StillAsReadStateOnly(id, item) ==
  /\ proposal[id] # Absent
  /\ proposal[id].state = item.state

\* The WHERE clause of BoundaryProposalRepository.Transition.
StillAsRead(id, item) ==
  /\ proposal[id] # Absent
  /\ proposal[id].version = item.version
  /\ proposal[id].state = item.state

\* Mutant: only the first review step records its reviewer.
MovedFirstReviewOnly(row, to, actor) ==
  [row EXCEPT !.state = to,
              !.version = @ + 1,
              !.reviewedBy = IF to = "reviewed" THEN actor.id ELSE @]

\* Mutant: the whole actor is stored instead of its id.
MovedStoresActor(row, to, actor) ==
  [row EXCEPT !.state = to,
              !.version = @ + 1,
              !.reviewedBy = IF to \in ReviewTargets THEN actor ELSE @]

\* The columns BoundaryProposalRepository.Transition sets, on the row as it is.
Moved(row, to, actor) ==
  [row EXCEPT !.state = to,
              !.version = @ + 1,
              !.reviewedBy = IF to \in ReviewTargets THEN actor.id ELSE @]

NewProposal(parcel, base, actor) ==
  [ parcel |-> parcel, base |-> base, state |-> "draft", version |-> 1,
    createdBy |-> actor.id, reviewedBy |-> Nobody ]

Finish(w) == job' = [job EXCEPT ![w] = Idle]

------------------------------------------------------------------------------
Init ==
  /\ boundaryVersion = [p \in Parcels |-> 1]
  /\ proposal = [id \in ProposalIds |-> Absent]
  /\ trail = [id \in ProposalIds |-> << >>]
  /\ job = [w \in Workers |-> Idle]

(***************************************************************************)
(* CreateProposal.  The parcel is read and req.BaseVersion compared with   *)
(* it; the polygon and the observations are checked (a bad one ends the    *)
(* request: Abort); then the draft and its audit row are inserted.         *)
(***************************************************************************)
ReadParcel(w, actor, p, base) ==
  /\ job[w] = Idle
  /\ Admitted(actor, "createProposal")
  /\ BaseMatches(p, base)
  /\ job' = [job EXCEPT ![w] = [op |-> "create", actor |-> actor,
                                parcel |-> p, base |-> base]]
  /\ UNCHANGED <<boundaryVersion, proposal, trail>>

CommitCreate(w, id) ==
  /\ job[w].op = "create"
  /\ proposal[id] = Absent
  /\ LET row == NewProposal(job[w].parcel, job[w].base, job[w].actor) IN
       /\ proposal' = [proposal EXCEPT ![id] = row]
       /\ trail' = [trail EXCEPT ![id] =
                      <<[by |-> job[w].actor.id, before |-> NoStamp,
                         after |-> Stamp(row)]>>]
  /\ Finish(w)
  /\ UNCHANGED boundaryVersion

(***************************************************************************)
(* TransitionProposal.  The row is read and the transition checked against *)
(* that copy; the UPDATE is conditional on the copy's version and state.   *)
(* req.Version, the version the client's page showed, is bound and never   *)
(* looked at.                                                              *)
(***************************************************************************)
ReadProposal(w, actor, id, to) ==
  /\ job[w] = Idle
  /\ Admitted(actor, "transitionProposal")
  /\ proposal[id] # Absent
  /\ LET item == proposal[id] IN
       /\ item.version < MaxVersion
       /\ CanProposalTransition(item.state, to)
       /\ Authorized(item, to, actor)
       /\ job' = [job EXCEPT ![w] = [op |-> "transition", actor |-> actor,
                                     id |-> id, to |-> to, item |-> item]]
  /\ UNCHANGED <<boundaryVersion, proposal, trail>>

CommitTransition(w) ==
  /\ job[w].op = "transition"
  /\ LET id == job[w].id  item == job[w].item
         to == job[w].to  actor == job[w].actor IN
       /\ StillAsRead(id, item)
       /\ proposal' = [proposal EXCEPT ![id] = Moved(@, to, actor)]
       /\ trail' = [trail EXCEPT ![id] =
                      Append(@, [by |-> actor.id, before |-> Stamp(item),
                                 after |-> [state |-> to,
                                            version |-> item.version + 1]])]
  /\ Finish(w)
  /\ UNCHANGED boundaryVersion

\* RowsAffected = 0: the transaction rolls back and the client gets 409.
RefuseTransition(w) ==
  /\ job[w].op = "transition"
  /\ ~ StillAsRead(job[w].id, job[w].item)
  /\ Finish(w)
  /\ UNCHANGED <<boundaryVersion, proposal, trail>>

\* A later check fails, the database errs or the process dies: rolled back.
Abort(w) ==
  /\ job[w] # Idle
  /\ Finish(w)
  /\ UNCHANGED <<boundaryVersion, proposal, trail>>

\* UpdateParcel commits elsewhere.
ParcelMoves(p) ==
  /\ boundaryVersion[p] < MaxBoundary
  /\ boundaryVersion' = [boundaryVersion EXCEPT ![p] = @ + 1]
  /\ UNCHANGED <<proposal, trail, job>>

Next ==
  \/ \E w \in Workers, actor \in Actors, p \in Parcels, base \in 1..MaxBoundary :
       ReadParcel(w, actor, p, base)
  \/ \E w \in Workers, id \in ProposalIds : CommitCreate(w, id)
  \/ \E w \in Workers, actor \in Actors, id \in ProposalIds, to \in ProposalStates :
       ReadProposal(w, actor, id, to)
  \/ \E w \in Workers : CommitTransition(w)
  \/ \E w \in Workers : RefuseTransition(w)
  \/ \E w \in Workers : Abort(w)
  \/ \E p \in Parcels : ParcelMoves(p)

Spec == Init /\ [][Next]_vars

------------------------------------------------------------------------------
Replays(t, row) ==
  IF row = Absent THEN t = << >>
  ELSE /\ t # << >>
       /\ t[1].before = NoStamp
       /\ t[Len(t)].after = Stamp(row)
       /\ \A i \in 1..(Len(t) - 1) : t[i + 1].before = t[i].after

\* The audit rows of a proposal form one unbroken account of it: the first
\* creates it, each starts where the one before ended, and the last ends at
\* the row as stored.  Two requests working from the same read, or a rollback
\* that keeps only half of the transaction, would break it.
TrailReplays == \A id \in ProposalIds : Replays(trail[id], proposal[id])

Reviews(t) == {i \in 1..Len(t) : t[i].after.state \in ReviewTargets}

NamesReviewer(t, row) ==
  /\ \A i \in Reviews(t) : t[i].by # row.createdBy
  /\ row.reviewedBy = Nobody => Reviews(t) = {}
  /\ row.reviewedBy # Nobody =>
       \E i \in Reviews(t) : /\ t[i].by = row.reviewedBy
                             /\ \A j \in Reviews(t) : j <= i

\* reviewed_by names the account that took the last review decision in the
\* trail, nobody else, and no review decision was ever the author's own
\* (isProposalReviewTransition and authorizeProposalTransition, both computed
\* from a row read before the transaction).
ReviewerOfRecord ==
  \A id \in ProposalIds :
    proposal[id] # Absent => NamesReviewer(trail[id], proposal[id])

\* A proposal never claims a boundary version its parcel has not reached, and
\* the account that creates it is the one its trail opens with.
BaseWasReal ==
  \A id \in ProposalIds : proposal[id] # Absent =>
    /\ proposal[id].base \in 1..boundaryVersion[proposal[id].parcel]
    /\ trail[id][1].by = proposal[id].createdBy

\* The board a reader of boundary_proposals sees; every transaction of the
\* handlers is one move of it, although each handler decided on an older copy.
Card(row) == [state |-> row.state, author |-> row.createdBy,
              reviewer |-> row.reviewedBy]
BoardView == [id \in ProposalIds |->
                IF proposal[id] = Absent THEN Absent ELSE Card(proposal[id])]
Board == INSTANCE ProposalBoard WITH CardIds <- ProposalIds, board <- BoardView

\* CreateProposal and TransitionProposal implement the atomic board: no
\* interleaving of requests makes a move the board does not allow or records
\* a reviewer the board would not.
ImplementsBoard == Board!Spec
==============================================================================
