---------------------------- MODULE Observations ----------------------------
(***************************************************************************)
(* ImportObservation and TransitionObservation of                          *)
(* service/survey_observation_service.go.  A transition reads its row and  *)
(* checks the client's version, superseding reads the replacement in a     *)
(* second statement, and the UPDATE is conditional on the version of the   *)
(* first row only.                                                         *)
(***************************************************************************)
EXTENDS Integers, Sequences, CadastralRules

CONSTANTS
  Users,       \* accounts with a role the routes admit
  Parcels,     \* parcel ids; parcels are never deleted
  ObsIds,      \* ids the survey_observations table may hand out
  Workers,     \* requests in flight at the same time
  Absent,      \* a row that does not exist
  NoObs,       \* the NULL of replaced_by
  MaxVersion   \* bound: observations stop moving at this version

ASSUME BoundsAssumption == MaxVersion \in Nat \ {0}
ASSUME NoObsAssumption  == NoObs \notin ObsIds

VARIABLES
  obs,      \* survey_observations
  trail,    \* audit_logs of resource type SurveyObservation, per row
  job       \* what each worker holds in its local variables

rows == <<obs, trail>>
vars == <<obs, trail, job>>

------------------------------------------------------------------------------
Row == [parcel : Parcels, state : ObservationStates, version : Nat,
        replacedBy : ObsIds \cup {NoObs}]

ASSUME AbsentAssumption == Absent \notin Row

\* What the snapshots of an audit row tell apart.
Stamp(row) == [state |-> row.state, version |-> row.version,
               replacedBy |-> row.replacedBy]
NoStamp == [state |-> "none", version |-> 0, replacedBy |-> NoObs]
Stamps == [state : ObservationStates \cup {"none"}, version : Nat,
           replacedBy : ObsIds \cup {NoObs}]
Entry == [by : Users, before : Stamps, after : Stamps]

Idle == [op |-> "idle"]
\* replacement is what the second read returned, Absent while it is not made.
Job == [op : {"replacement", "commit"}, by : Users, id : ObsIds, to : ObservationStates,
        seen : Nat, item : Row, repl : ObsIds \cup {NoObs}]

TypeOK ==
  /\ obs \in [ObsIds -> Row \cup {Absent}]
  /\ trail \in [ObsIds -> Seq(Entry)]
  /\ job \in [Workers -> {Idle} \cup Job]

------------------------------------------------------------------------------
\* Mutant: the client's version is not compared.
SeenAny(item, seen) == TRUE

\* req.Version must be the version just read.
SeenIsCurrent(item, seen) == seen = item.version

\* Mutant: the UPDATE is conditional on the id alone.
StillAnything(id, item) == obs[id] # Absent

\* The WHERE clause of SurveyObservationRepository.Transition.
StillAsRead(id, item) == obs[id] # Absent /\ obs[id].version = item.version

\* Mutant: the check on the replacement looks at its state only.
UsableAnyParcel(item, repl) ==
  repl # Absent /\ repl.state # "superseded"

\* The checks on the row the second read returned.
Usable(item, repl) ==
  /\ repl # Absent
  /\ repl.parcel = item.parcel
  /\ repl.state # "superseded"

\* A replacement is required, and another row, exactly when superseding.
NamesReplacement(id, to, repl) ==
  IF to = "superseded" THEN repl \in ObsIds \ {id} ELSE repl = NoObs

\* Mutant: the version is not moved on.
MovedInPlace(row, to, repl) ==
  [row EXCEPT !.state = to,
              !.replacedBy = IF repl = NoObs THEN @ ELSE repl]

\* The columns SurveyObservationRepository.Transition sets.
Moved(row, to, repl) ==
  [row EXCEPT !.state = to, !.version = @ + 1,
              !.replacedBy = IF repl = NoObs THEN @ ELSE repl]

Finish(w) == job' = [job EXCEPT ![w] = Idle]

------------------------------------------------------------------------------
Init ==
  /\ obs = [id \in ObsIds |-> Absent]
  /\ trail = [id \in ObsIds |-> << >>]
  /\ job = [w \in Workers |-> Idle]

\* The parcel is looked up (it cannot disappear), then the row and its audit
\* row are inserted.  Any of the three states is accepted, superseded too, and
\* no replacement is asked for.
Import(u, id, p, state) ==
  /\ obs[id] = Absent
  /\ LET row == [parcel |-> p, state |-> state, version |-> 1, replacedBy |-> NoObs] IN
       /\ obs' = [obs EXCEPT ![id] = row]
       /\ trail' = [trail EXCEPT ![id] =
                      <<[by |-> u, before |-> NoStamp, after |-> Stamp(row)]>>]
  /\ UNCHANGED job

ReadObservation(w, u, id, to, seen, repl) ==
  /\ job[w] = Idle
  /\ obs[id] # Absent
  /\ obs[id].version < MaxVersion
  /\ SeenIsCurrent(obs[id], seen)
  /\ CanTransitionObservation(obs[id].state, to)
  /\ NamesReplacement(id, to, repl)
  /\ job' = [job EXCEPT ![w] =
               [op |-> IF to = "superseded" THEN "replacement" ELSE "commit",
                by |-> u, id |-> id, to |-> to, seen |-> seen,
                item |-> obs[id], repl |-> repl]]
  /\ UNCHANGED rows

ReadReplacement(w) ==
  /\ job[w].op = "replacement"
  /\ Usable(job[w].item, obs[job[w].repl])
  /\ job' = [job EXCEPT ![w].op = "commit"]
  /\ UNCHANGED rows

RefuseReplacement(w) ==
  /\ job[w].op = "replacement"
  /\ ~ Usable(job[w].item, obs[job[w].repl])
  /\ Finish(w)
  /\ UNCHANGED rows

CommitTransition(w) ==
  /\ job[w].op = "commit"
  /\ LET id == job[w].id  item == job[w].item IN
       /\ StillAsRead(id, item)
       /\ obs' = [obs EXCEPT ![id] = Moved(@, job[w].to, job[w].repl)]
       /\ trail' = [trail EXCEPT ![id] =
                      Append(@, [by |-> job[w].by, before |-> Stamp(item),
                                 after |-> [state |-> job[w].to,
                                            version |-> item.version + 1,
                                            replacedBy |-> job[w].repl]])]
  /\ Finish(w)

RefuseTransition(w) ==
  /\ job[w].op = "commit"
  /\ ~ StillAsRead(job[w].id, job[w].item)
  /\ Finish(w)
  /\ UNCHANGED rows

\* A database error or a crash before the commit.
Abort(w) ==
  /\ job[w] # Idle
  /\ Finish(w)
  /\ UNCHANGED rows

Next ==
  \/ \E u \in Users, id \in ObsIds, p \in Parcels, state \in ObservationStates :
       Import(u, id, p, state)
  \/ \E w \in Workers, u \in Users, id \in ObsIds, to \in ObservationStates,
        seen \in 1..MaxVersion, repl \in ObsIds \cup {NoObs} :
       ReadObservation(w, u, id, to, seen, repl)
  \/ \E w \in Workers : ReadReplacement(w)
  \/ \E w \in Workers : RefuseReplacement(w)
  \/ \E w \in Workers : CommitTransition(w)
  \/ \E w \in Workers : RefuseTransition(w)
  \/ \E w \in Workers : Abort(w)

Spec == Init /\ [][Next]_vars

------------------------------------------------------------------------------
Replays(t, row) ==
  IF row = Absent THEN t = << >>
  ELSE /\ t # << >> /\ t[1].before = NoStamp
       /\ t[Len(t)].after = Stamp(row)
       /\ \A i \in 1..(Len(t) - 1) :
            /\ t[i + 1].before = t[i].after
            /\ CanTransitionObservation(t[i].after.state, t[i + 1].after.state)

\* The audit rows of an observation lead, along legal edges and without a gap,
\* from its import to the row as stored, its replacement included.
TrailReplays == \A id \in ObsIds : Replays(trail[id], obs[id])

\* An observation superseded by a transition names another observation of its
\* own parcel, and only such an observation names one (the second read, made
\* before the transaction, is enough for this because parcels are fixed).
ReplacementOnParcel ==
  /\ TypeOK
  /\ \A id \in ObsIds : obs[id] # Absent =>
       LET r == obs[id].replacedBy IN
         IF obs[id].state = "superseded" /\ Len(trail[id]) > 1
         THEN r \in ObsIds \ {id} /\ obs[r] # Absent /\ obs[r].parcel = obs[id].parcel
         ELSE r = NoObs

\* A committed transition acts on the very version its client had seen: the
\* check on req.Version and the conditional UPDATE together leave no gap.
ActsOnSeenVersion ==
  [][\A w \in Workers :
       (job[w].op = "commit" /\ job'[w] = Idle /\ obs' # obs)
         => job[w].seen = obs[job[w].id].version]_vars

ReplacedBy(id) == IF obs[id] = Absent THEN NoObs ELSE obs[id].replacedBy

\* What "replacement observation must be an active observation on the same
\* parcel" is there for: following replaced_by ends at an observation that was
\* not replaced, and no group of observations is replaced from within.
ChainsEnd ==
  \A S \in SUBSET ObsIds \ {{}} : \E id \in S : ReplacedBy(id) \notin S
==============================================================================
