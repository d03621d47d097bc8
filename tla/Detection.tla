------------------------------ MODULE Detection ------------------------------
(***************************************************************************)
(* DetectConflicts and replayDetectionRun of                               *)
(* service/topology_conflict_service.go: an expensive computation made     *)
(* idempotent by a row of topology_detection_runs under a unique index on  *)
(* (actor_id, idempotency_key).  The key is looked up before the work, the *)
(* index decides at the commit, and a transaction that fails looks the key *)
(* up once more.  Clients may repeat a call at any time, also while the    *)
(* first is running, and may misuse a key for another request.             *)
(***************************************************************************)
EXTENDS Integers, Sequences, FiniteSets

CONSTANTS
  Actors,       \* accounts that call /conflicts/detect
  Keys,         \* Idempotency-Key values
  Requests,     \* request hashes: proposal and resolved tolerance
  FindingsOn,   \* how many findings the geometry yields for a request
  Workers,      \* requests in flight at the same time
  None,         \* no such row
  MaxBoundary,  \* bound: versions of the parcel and of its neighbours
  MaxFailures   \* bound: crashes, lost responses and failed commits

ASSUME FindingsAssumption == FindingsOn \in [Requests -> Nat]
ASSUME BoundsAssumption == MaxBoundary \in Nat \ {0} /\ MaxFailures \in Nat

VARIABLES
  parcel,      \* the boundary version of the proposal's parcel
  neighbours,  \* the boundary version of the parcels around it
  conflicts,   \* topology_conflicts, in id order: the input each came from
  runs,        \* topology_detection_runs by (actor, key)
  answers,     \* 200 responses sent so far
  refused,     \* 409 responses sent so far
  failures,    \* faults so far
  job          \* what each worker holds in its local variables

tables == <<conflicts, runs>>
world  == <<parcel, neighbours>>
vars == <<parcel, neighbours, conflicts, runs, answers, refused, failures, job>>

------------------------------------------------------------------------------
Slots == Actors \X Keys

\* inputHash: the request, the parcel's boundary and its neighbours'.
Inputs == [request : Requests, parcel : Nat, neighbours : Nat]
Run == [request : Requests, input : Inputs, results : SUBSET Nat]

\* A row, and what Ledger shows of it, is not the mark of a missing one.
ASSUME NoneAssumption ==
  None \notin Run /\ None \notin [request : Requests, results : SUBSET Nat]

Idle == [op |-> "idle"]
Ops == {"lookup", "parcel", "neighbours", "commit", "recheck"}
Job == [op : Ops, slot : Slots, request : Requests, parcel : Nat, neighbours : Nat]

TypeOK ==
  /\ parcel \in 1..MaxBoundary /\ neighbours \in 1..MaxBoundary
  /\ conflicts \in Seq(Inputs)
  /\ runs \in [Slots -> {None} \cup
       [request : Requests, input : Inputs, results : SUBSET (1..Len(conflicts))]]
  /\ answers \subseteq [slot : Slots, request : Requests,
                        results : SUBSET (1..Len(conflicts))]
  /\ refused \subseteq [slot : Slots, request : Requests]
  /\ failures \in 0..MaxFailures
  /\ job \in [Workers -> {Idle} \cup Job]

------------------------------------------------------------------------------
Goto(w, op) == job' = [job EXCEPT ![w].op = op]
Finish(w) == job' = [job EXCEPT ![w] = Idle]

InputOf(j) == [request |-> j.request, parcel |-> j.parcel,
               neighbours |-> j.neighbours]

\* Mutant: the index is not unique.
SlotAlwaysFree(s) == TRUE

\* The unique index idx_detection_actor_key.
SlotFree(s) == runs[s] = None

\* ids handed out to the n conflicts of one transaction.
FreshIds(n) == (Len(conflicts) + 1)..(Len(conflicts) + n)

\* Mutant: the request hash is not compared.
SameRequestAny(run, request) == TRUE

\* replayDetectionRun compares the stored request hash.
SameRequest(run, request) == run.request = request

\* Mutant: ListByIDs loses its early return and fails on an empty id list.
ReplayEmptyFails(w, s, request) ==
  /\ IF SameRequest(runs[s], request)
     THEN /\ answers' = answers \cup
                (IF runs[s].results = {} THEN {} ELSE
                 {[slot |-> s, request |-> request, results |-> runs[s].results]})
          /\ UNCHANGED refused
     ELSE /\ refused' = refused \cup {[slot |-> s, request |-> request]}
          /\ UNCHANGED answers
  /\ Finish(w)
  /\ UNCHANGED <<tables, world, failures>>

\* replayDetectionRun: the stored ids for the same request, 409 for another.
Replay(w, s, request) ==
  /\ IF SameRequest(runs[s], request)
     THEN /\ answers' = answers \cup
                {[slot |-> s, request |-> request, results |-> runs[s].results]}
          /\ UNCHANGED refused
     ELSE /\ refused' = refused \cup {[slot |-> s, request |-> request]}
          /\ UNCHANGED answers
  /\ Finish(w)
  /\ UNCHANGED <<tables, world, failures>>

Init ==
  /\ parcel = 1 /\ neighbours = 1
  /\ conflicts = << >>
  /\ runs = [s \in Slots |-> None]
  /\ answers = {} /\ refused = {}
  /\ failures = 0
  /\ job = [w \in Workers |-> Idle]

\* The proposal is read (its geometry and tolerance never change) and the
\* request hashed.
Begin(w, s, r) ==
  /\ job[w] = Idle
  /\ job' = [job EXCEPT ![w] = [op |-> "lookup", slot |-> s, request |-> r,
                                parcel |-> 0, neighbours |-> 0]]
  /\ UNCHANGED <<tables, world, answers, refused, failures>>

LookupHit(w) ==
  /\ job[w].op = "lookup"
  /\ ~ SlotFree(job[w].slot)
  /\ Replay(w, job[w].slot, job[w].request)

LookupMiss(w) ==
  /\ job[w].op = "lookup"
  /\ SlotFree(job[w].slot)
  /\ Goto(w, "parcel")
  /\ UNCHANGED <<tables, world, answers, refused, failures>>

ReadParcel(w) ==
  /\ job[w].op = "parcel"
  /\ job' = [job EXCEPT ![w].op = "neighbours", ![w].parcel = parcel]
  /\ UNCHANGED <<tables, world, answers, refused, failures>>

\* The neighbours are listed, and everything is computed from what was read.
ReadNeighbours(w) ==
  /\ job[w].op = "neighbours"
  /\ job' = [job EXCEPT ![w].op = "commit", ![w].neighbours = neighbours]
  /\ UNCHANGED <<tables, world, answers, refused, failures>>

\* One transaction: every conflict, its audit row, the run, its audit row.
Store(w) ==
  LET s == job[w].slot  r == job[w].request  n == FindingsOn[r] IN
    /\ job[w].op = "commit"
    /\ SlotFree(s)
    /\ conflicts' = conflicts \o [i \in 1..n |-> InputOf(job[w])]
    /\ runs' = [runs EXCEPT ![s] = [request |-> r, input |-> InputOf(job[w]),
                                    results |-> FreshIds(n)]]

Fault == failures < MaxFailures /\ failures' = failures + 1

Commit(w) ==
  /\ Store(w)
  /\ answers' = answers \cup
       {[slot |-> job[w].slot, request |-> job[w].request,
         results |-> FreshIds(FindingsOn[job[w].request])]}
  /\ Finish(w)
  /\ UNCHANGED <<world, refused, failures>>

\* The process or the connection dies after the commit: nobody hears of it.
CommitUnheard(w) ==
  /\ Store(w)
  /\ Fault
  /\ Finish(w)
  /\ UNCHANGED <<world, answers, refused>>

\* The commit took effect but the driver reports an error.
CommitUncertain(w) ==
  /\ Store(w)
  /\ Fault
  /\ Goto(w, "recheck")
  /\ UNCHANGED <<world, answers, refused>>

\* Mutant: the conflicts are inserted outside the transaction of the run.
KeepsConflicts(w) ==
  /\ conflicts' = conflicts \o
       [i \in 1..FindingsOn[job[w].request] |-> InputOf(job[w])]
  /\ UNCHANGED runs

\* What a transaction that fails leaves behind: nothing.
RolledBack(w) == UNCHANGED tables

\* The index refuses a second run of the slot: the conflicts inserted before
\* it are rolled back and the key is looked up again.
CommitDuplicate(w) ==
  /\ job[w].op = "commit"
  /\ ~ SlotFree(job[w].slot)
  /\ RolledBack(w)
  /\ Goto(w, "recheck")
  /\ UNCHANGED <<world, answers, refused, failures>>

CommitFails(w) ==
  /\ job[w].op = "commit"
  /\ Fault
  /\ RolledBack(w)
  /\ Goto(w, "recheck")
  /\ UNCHANGED <<world, answers, refused>>

RecheckHit(w) ==
  /\ job[w].op = "recheck"
  /\ ~ SlotFree(job[w].slot)
  /\ Replay(w, job[w].slot, job[w].request)

\* Nobody else stored the key either: 500, and the client may try again.
RecheckMiss(w) ==
  /\ job[w].op = "recheck"
  /\ SlotFree(job[w].slot)
  /\ Finish(w)
  /\ UNCHANGED <<tables, world, answers, refused, failures>>

\* The process dies or the client goes away before the commit.
Crash(w) ==
  /\ job[w] # Idle
  /\ Fault
  /\ Finish(w)
  /\ UNCHANGED <<tables, world, answers, refused>>

\* UpdateParcel commits elsewhere.
WorldMoves ==
  /\ \/ parcel < MaxBoundary /\ parcel' = parcel + 1 /\ UNCHANGED neighbours
     \/ neighbours < MaxBoundary /\ neighbours' = neighbours + 1 /\ UNCHANGED parcel
  /\ UNCHANGED <<tables, answers, refused, failures, job>>

Next ==
  \/ \E w \in Workers, s \in Slots, r \in Requests : Begin(w, s, r)
  \/ \E w \in Workers : LookupHit(w)
  \/ \E w \in Workers : LookupMiss(w)
  \/ \E w \in Workers : ReadParcel(w)
  \/ \E w \in Workers : ReadNeighbours(w)
  \/ \E w \in Workers : Commit(w)
  \/ \E w \in Workers : CommitUnheard(w)
  \/ \E w \in Workers : CommitUncertain(w)
  \/ \E w \in Workers : CommitDuplicate(w)
  \/ \E w \in Workers : CommitFails(w)
  \/ \E w \in Workers : RecheckHit(w)
  \/ \E w \in Workers : RecheckMiss(w)
  \/ \E w \in Workers : Crash(w)
  \/ WorldMoves

Spec == Init /\ [][Next]_vars

(***************************************************************************)
(* Fairness.  The Go scheduler and the database go on with every request   *)
(* once it has begun (WF of each worker's own steps, faults excepted), and *)
(* a client that has heard nothing calls again with its key (SF: a worker  *)
(* may be busy whenever the client looks).                                 *)
(***************************************************************************)
Progress(w) ==
  \/ LookupHit(w) \/ LookupMiss(w) \/ ReadParcel(w) \/ ReadNeighbours(w)
  \/ Commit(w) \/ CommitDuplicate(w) \/ RecheckHit(w) \/ RecheckMiss(w)

FairSpec ==
  /\ Spec
  /\ \A w \in Workers : WF_vars(Progress(w))
  /\ \A s \in Slots : SF_vars(\E w \in Workers, r \in Requests : Begin(w, s, r))

------------------------------------------------------------------------------
\* Every 200 a slot ever gets carries the same request and the same conflict
\* ids, those of its stored run: a repeated, concurrent or retried call is
\* answered as the first was (DetectConflicts' two look-ups and the index).
OneAnswerPerKey ==
  \A a \in answers :
    /\ runs[a.slot] # None
    /\ a.request = runs[a.slot].request /\ a.results = runs[a.slot].results

\* Every stored conflict belongs to exactly one run and was computed from that
\* run's input: a transaction refused by the index or failed by the database
\* leaves no conflict behind that no run names, and no run names a conflict that
\* is not stored (TypeOK).
EveryConflictFiled ==
  /\ TypeOK
  /\ \A i \in 1..Len(conflicts) :
       \E s \in Slots :
         /\ runs[s] # None
         /\ i \in runs[s].results /\ conflicts[i] = runs[s].input
         /\ \A z \in Slots \ {s} : runs[z] # None => i \notin runs[z].results

Ledger == [s \in Slots |->
             IF runs[s] = None THEN None
             ELSE [request |-> runs[s].request, results |-> runs[s].results]]
Store1 == INSTANCE IdempotentStore
            WITH Results <- SUBSET Nat, Empty <- None, ledger <- Ledger

\* The ten-step handler, with its faults and retries, implements calls that
\* happen in one indivisible step.
ImplementsStore == Store1!Spec

Heard(s) == \E a \in answers \cup refused : a.slot = s

\* A client that calls again until it hears is eventually answered, also when
\* its first call committed unheard, found nothing, or lost a race.
EveryoneHears == \A s \in Slots : <>Heard(s)
==============================================================================
