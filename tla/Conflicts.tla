------------------------------ MODULE Conflicts ------------------------------
(***************************************************************************)
(* TransitionConflict and ApplyConflictSuggestion of                       *)
(* service/topology_conflict_service.go.  The conflicts were stored by a   *)
(* detection.  Apply reads the conflict, its proposal and the parcel in    *)
(* three statements before the one transaction that inserts a derived      *)
(* draft, resolves the conflict and writes both audit rows.                *)
(***************************************************************************)
EXTENDS Integers, Sequences, CadastralRules

CONSTANTS
  Users,        \* account ids
  RolesOf,      \* the roles an account may hold when a request authenticates
  ConflictIds,  \* rows of topology_conflicts
  Proposals,    \* the proposals they were detected for
  SourceOf,     \* the proposal each conflict belongs to
  Workers,      \* requests in flight at the same time
  Nobody,       \* the NULL of a user column
  MaxVersion,   \* bound: proposals stop moving at this version
  MaxBoundary   \* bound: the parcel stops changing at this boundary version

ASSUME RolesAssumption  == RolesOf \in [Users -> SUBSET Roles]
ASSUME SourceAssumption == SourceOf \in [ConflictIds -> Proposals]
ASSUME BoundsAssumption == MaxVersion \in Nat \ {0} /\ MaxBoundary \in Nat \ {0}
ASSUME NobodyAssumption == Nobody \notin Users

VARIABLES
  conflict,         \* topology_conflicts: state and resolved_by
  trail,            \* audit_logs of resource type TopologyConflict, per row
  derived,          \* the drafts inserted from each conflict
  proposalVersion,  \* boundary_proposals.version of the originals
  boundaryVersion,  \* land_parcels.boundary_version of their parcel
  job               \* what each worker holds in its local variables

rows == <<conflict, trail, derived>>
context == <<proposalVersion, boundaryVersion>>
vars == <<conflict, trail, derived, proposalVersion, boundaryVersion, job>>

------------------------------------------------------------------------------
ConflictRow == [state : ConflictStates, resolvedBy : Users \cup {Nobody}]
Draft == [createdBy : Users, version : Nat, base : Nat]
Entry == [by : Users, action : {"state_changed", "suggestion_applied"},
          before : ConflictStates, after : ConflictStates]

Idle == [op |-> "idle"]
TransitionJob == [op : {"transition"}, by : Users, c : ConflictIds,
                  item : ConflictRow, to : ConflictStates]
ApplyJob == [op : {"applying"}, by : Users, c : ConflictIds, item : ConflictRow,
             version : Nat, base : Nat]

TypeOK ==
  /\ conflict \in [ConflictIds -> ConflictRow]
  /\ trail \in [ConflictIds -> Seq(Entry)]
  /\ derived \in [ConflictIds -> Seq(Draft)]
  /\ proposalVersion \in [Proposals -> Nat]
  /\ boundaryVersion \in Nat
  /\ job \in [Workers -> {Idle} \cup TransitionJob \cup ApplyJob]

------------------------------------------------------------------------------
\* RBACMiddleware on the two routes; requireAnyRole repeats it for Apply.
May(u, route) == RolesOf[u] \cap RouteRoles[route] # {}

\* The targets for which TransitionConflict hands over the actor.
Resolving(to) == to \in {"resolved", "closed"}

\* Mutant: the UPDATE only looks for a conflict that is still open.
InStateOpen(c, from) == conflict[c].state # "closed"

\* TopologyConflictRepository.Transition: the state must be the one read; a
\* nil resolved_by leaves the column alone.
InState(c, from) == conflict[c].state = from

\* Mutant: the first resolver is never replaced.
SettledOnce(row, to, resolvedBy) ==
  [state |-> to,
   resolvedBy |-> IF row.resolvedBy # Nobody THEN row.resolvedBy ELSE resolvedBy]

\* Mutant: the NULL check is lost and a nil actor is written as id 0.
SettledZero(row, to, resolvedBy) ==
  [state |-> to, resolvedBy |-> IF resolvedBy = Nobody THEN 0 ELSE resolvedBy]

Settled(row, to, resolvedBy) ==
  [state |-> to,
   resolvedBy |-> IF resolvedBy = Nobody THEN row.resolvedBy ELSE resolvedBy]

Record(c, entry) == trail' = [trail EXCEPT ![c] = Append(@, entry)]
Finish(w) == job' = [job EXCEPT ![w] = Idle]

\* Apply's first read: only resolution_proposed conflicts have a suggestion
\* to apply.
Applicable(item) == item.state = "resolution_proposed"

------------------------------------------------------------------------------
Init ==
  /\ conflict = [c \in ConflictIds |-> [state |-> "detected", resolvedBy |-> Nobody]]
  /\ trail = [c \in ConflictIds |-> << >>]
  /\ derived = [c \in ConflictIds |-> << >>]
  /\ proposalVersion = [p \in Proposals |-> 1]
  /\ boundaryVersion = 1
  /\ job = [w \in Workers |-> Idle]

(***************************************************************************)
(* TransitionConflict: read and check, then update and audit.              *)
(***************************************************************************)
ReadConflict(w, u, c, to) ==
  /\ job[w] = Idle
  /\ May(u, "transitionConflict")
  /\ CanConflictTransition(conflict[c].state, to)
  /\ job' = [job EXCEPT ![w] = [op |-> "transition", by |-> u, c |-> c,
                                item |-> conflict[c], to |-> to]]
  /\ UNCHANGED <<rows, context>>

CommitTransition(w) ==
  /\ job[w].op = "transition"
  /\ LET c == job[w].c  from == job[w].item.state
         to == job[w].to  u == job[w].by IN
       /\ InState(c, from)
       /\ conflict' = [conflict EXCEPT ![c] =
                         Settled(@, to, IF Resolving(to) THEN u ELSE Nobody)]
       /\ Record(c, [by |-> u, action |-> "state_changed",
                     before |-> from, after |-> to])
  /\ Finish(w)
  /\ UNCHANGED <<derived, context>>

(***************************************************************************)
(* ApplyConflictSuggestion.  version and base are the values the proposal  *)
(* and parcel reads return; 0 stands for not read yet.                     *)
(***************************************************************************)
ReadForApply(w, u, c) ==
  /\ job[w] = Idle
  /\ May(u, "applySuggestion")
  /\ Applicable(conflict[c])
  /\ job' = [job EXCEPT ![w] = [op |-> "applying", by |-> u, c |-> c,
                                item |-> conflict[c], version |-> 0, base |-> 0]]
  /\ UNCHANGED <<rows, context>>

ReadSourceProposal(w) ==
  /\ job[w].op = "applying" /\ job[w].version = 0
  /\ job' = [job EXCEPT ![w].version = proposalVersion[SourceOf[job[w].c]]]
  /\ UNCHANGED <<rows, context>>

\* Mutant: a draft starts at version 1, and so does its base.
ReadParcelFirst(w) ==
  /\ job[w].op = "applying" /\ job[w].version # 0 /\ job[w].base = 0
  /\ job' = [job EXCEPT ![w].base = 1]
  /\ UNCHANGED <<rows, context>>

ReadParcel(w) ==
  /\ job[w].op = "applying" /\ job[w].version # 0 /\ job[w].base = 0
  /\ job' = [job EXCEPT ![w].base = boundaryVersion]
  /\ UNCHANGED <<rows, context>>

CommitApply(w) ==
  /\ job[w].op = "applying" /\ job[w].base # 0
  /\ LET c == job[w].c  from == job[w].item.state  u == job[w].by IN
       /\ InState(c, from)
       /\ derived' = [derived EXCEPT ![c] =
                        Append(@, [createdBy |-> u, version |-> job[w].version + 1,
                                   base |-> job[w].base])]
       /\ conflict' = [conflict EXCEPT ![c] = Settled(@, "resolved", u)]
       /\ Record(c, [by |-> u, action |-> "suggestion_applied",
                     before |-> from, after |-> "resolved"])
  /\ Finish(w)
  /\ UNCHANGED context

\* The conditional UPDATE matched nothing: the transaction rolls back, the
\* derived draft with it.
Refuse(w) ==
  /\ \/ job[w].op = "transition"
     \/ job[w].op = "applying" /\ job[w].base # 0
  /\ ~ InState(job[w].c, job[w].item.state)
  /\ Finish(w)
  /\ UNCHANGED <<rows, context>>

\* A database error or a crash before the commit.
Abort(w) ==
  /\ job[w] # Idle
  /\ Finish(w)
  /\ UNCHANGED <<rows, context>>

\* TransitionProposal and UpdateParcel commit elsewhere.
ProposalMoves(p) ==
  /\ proposalVersion[p] < MaxVersion
  /\ proposalVersion' = [proposalVersion EXCEPT ![p] = @ + 1]
  /\ UNCHANGED <<rows, boundaryVersion, job>>

ParcelMoves ==
  /\ boundaryVersion < MaxBoundary
  /\ boundaryVersion' = boundaryVersion + 1
  /\ UNCHANGED <<rows, proposalVersion, job>>

Next ==
  \/ \E w \in Workers, u \in Users, c \in ConflictIds, to \in ConflictStates :
       ReadConflict(w, u, c, to)
  \/ \E w \in Workers : CommitTransition(w)
  \/ \E w \in Workers, u \in Users, c \in ConflictIds : ReadForApply(w, u, c)
  \/ \E w \in Workers : ReadSourceProposal(w)
  \/ \E w \in Workers : ReadParcel(w)
  \/ \E w \in Workers : CommitApply(w)
  \/ \E w \in Workers : Refuse(w)
  \/ \E w \in Workers : Abort(w)
  \/ \E p \in Proposals : ProposalMoves(p)
  \/ ParcelMoves

Spec == Init /\ [][Next]_vars

------------------------------------------------------------------------------
Replays(t, state) ==
  /\ \A i \in 1..Len(t) :
       /\ t[i].before = IF i = 1 THEN "detected" ELSE t[i - 1].after
       /\ CanConflictTransition(t[i].before, t[i].after)
  /\ state = IF t = << >> THEN "detected" ELSE t[Len(t)].after

\* The audit rows of a conflict lead, along legal edges, from detected to the
\* state as stored, whichever of the two handlers made each move: the UPDATE
\* must still find the state that was read.
TrailReplays == \A c \in ConflictIds : Replays(trail[c], conflict[c].state)

Applications(t) == {i \in 1..Len(t) : t[i].action = "suggestion_applied"}

\* A suggestion becomes a draft at most once, however many reviewers press the
\* button or resolve by hand meanwhile; the draft exists exactly when the trail
\* says it was applied, belongs to the account the trail names, and its conflict
\* is resolved (tx of ApplyConflictSuggestion: insert, conditional update).
AppliedOnce ==
  \A c \in ConflictIds :
    \/ derived[c] = << >> /\ Applications(trail[c]) = {}
    \/ /\ Len(derived[c]) = 1
       /\ conflict[c].state \in {"resolved", "closed"}
       /\ \E i \in 1..Len(trail[c]) :
            /\ Applications(trail[c]) = {i}
            /\ trail[c][i].by = derived[c][1].createdBy

Resolutions(t) == {i \in 1..Len(t) : Resolving(t[i].after)}

\* resolved_by is the account of the last audit row that resolved or closed the
\* conflict, and NULL when none did.
ResolverOfRecord ==
  \A c \in ConflictIds :
    LET t == trail[c]  R == Resolutions(t) IN
      IF R = {} THEN conflict[c].resolvedBy = Nobody
      ELSE \E i \in R : /\ \A j \in R : j <= i
                        /\ conflict[c].resolvedBy = t[i].by
==============================================================================
