--------------------------- MODULE DetectionProofs ---------------------------
(***************************************************************************)
(* The idempotency of DetectConflicts for every set of accounts, keys and  *)
(* requests, any number of findings, calls in flight and faults; and the   *)
(* geometry of one detection (Topology).                                   *)
(***************************************************************************)
EXTENDS Detection, Topology, SequenceTheorems, WellFoundedInduction, TLAPS

\* The conflicts of one transaction.
Found(w) == [i \in 1..FindingsOn[job[w].request] |-> InputOf(job[w])]

RunsOver(n) == [request : Requests, input : Inputs, results : SUBSET (1..n)]
AnswersOver(n) == [slot : Slots, request : Requests, results : SUBSET (1..n)]

\* Both parts lean on each other: ids handed out are new because no run names
\* an id beyond the table (TypeOK), and an answer stays right because a run,
\* once stored, is not written again.
IInv == OneAnswerPerKey /\ EveryConflictFiled

------------------------------------------------------------------------------
\* A worker that is not idle holds a call.
LEMMA JobKinds ==
  ASSUME TypeOK, NEW w \in Workers, job[w].op \in Ops
  PROVE  job[w] \in Job
BY DEF TypeOK, Idle, Ops

\* The rows one transaction adds, and where they stand.
LEMMA FoundRows ==
  ASSUME TypeOK, NEW w \in Workers, Store(w)
  PROVE  LET n == FindingsOn[job[w].request] IN
           /\ n \in Nat /\ Len(conflicts) \in Nat
           /\ InputOf(job[w]) \in Inputs
           /\ conflicts' \in Seq(Inputs)
           /\ Len(conflicts') = Len(conflicts) + n
           /\ \A i \in 1..Len(conflicts) : conflicts'[i] = conflicts[i]
           /\ \A i \in FreshIds(n) : conflicts'[i] = InputOf(job[w])
<1> DEFINE n == FindingsOn[job[w].request]
<1>1. job[w] \in Job
  BY JobKinds DEF Store, Ops
<1>2. n \in Nat /\ InputOf(job[w]) \in Inputs
  BY <1>1, FindingsAssumption DEF Job, InputOf, Inputs
<1>3. conflicts \in Seq(Inputs) /\ conflicts' = conflicts \o Found(w)
  BY DEF TypeOK, Store, Found
<1> HIDE DEF n
<1>4. Found(w) = [i \in 1..n |-> InputOf(job[w])]
  BY DEF Found, n
<1>5. Found(w) \in Seq(Inputs) /\ Len(Found(w)) = n
  <2>1. Found(w) \in [1..n -> Inputs]
    BY <1>2, <1>4
  <2>2. Found(w) \in Seq(Inputs)
    BY <1>2, <2>1, SeqDef
  <2> QED BY <1>2, <2>1, <2>2, LenProperties
<1>6. /\ conflicts' \in Seq(Inputs)
      /\ Len(conflicts') = Len(conflicts) + n
      /\ \A i \in 1..(Len(conflicts) + n) : conflicts'[i] =
           IF i <= Len(conflicts) THEN conflicts[i] ELSE Found(w)[i - Len(conflicts)]
  BY <1>3, <1>5, ConcatProperties
<1>7. Len(conflicts) \in Nat
  BY <1>3, LenProperties
<1>8. \A i \in FreshIds(n) : conflicts'[i] = InputOf(job[w])
  BY <1>2, <1>4, <1>6, <1>7 DEF FreshIds
<1>9. \A i \in 1..Len(conflicts) : conflicts'[i] = conflicts[i]
  BY <1>2, <1>6, <1>7
<1> QED BY <1>2, <1>6, <1>7, <1>8, <1>9 DEF n

\* What a stored transaction leaves: a run in a slot that had none, over ids
\* that no other run names.
LEMMA StoredRun ==
  ASSUME TypeOK, NEW w \in Workers, Store(w)
  PROVE  LET s == job[w].slot  r == job[w].request
             new == [request |-> r, input |-> InputOf(job[w]),
                     results |-> FreshIds(FindingsOn[r])] IN
           /\ s \in Slots /\ r \in Requests /\ runs[s] = None
           /\ runs' = [runs EXCEPT ![s] = new]
           /\ new \in RunsOver(Len(conflicts'))
           /\ new # None
           /\ new.results \cap (1..Len(conflicts)) = {}
<1>1. job[w] \in Job
  BY JobKinds DEF Store, Ops
<1> DEFINE s == job[w].slot  r == job[w].request  n == FindingsOn[r]
           new == [request |-> r, input |-> InputOf(job[w]), results |-> FreshIds(n)]
<1>2. s \in Slots /\ r \in Requests
  BY <1>1 DEF Job
<1>3. /\ n \in Nat /\ Len(conflicts) \in Nat /\ InputOf(job[w]) \in Inputs
      /\ Len(conflicts') = Len(conflicts) + n
  BY FoundRows
<1>4. FreshIds(n) \subseteq 1..Len(conflicts') /\ FreshIds(n) \cap (1..Len(conflicts)) = {}
  BY <1>3 DEF FreshIds
<1>5. new \in RunsOver(Len(conflicts'))
  BY <1>2, <1>3, <1>4 DEF RunsOver
<1>6. new \in Run
  BY <1>2, <1>3, <1>4 DEF Run
<1> QED BY <1>2, <1>4, <1>5, <1>6, NoneAssumption DEF Store, SlotFree

\* A table of conflicts that has grown keeps its runs and answers typed.
LEMMA IdsGrow ==
  ASSUME NEW m \in Nat, NEW n \in Nat, m <= n
  PROVE  RunsOver(m) \subseteq RunsOver(n) /\ AnswersOver(m) \subseteq AnswersOver(n)
<1>1. 1..m \subseteq 1..n
  OBVIOUS
<1> QED BY <1>1 DEF RunsOver, AnswersOver

------------------------------------------------------------------------------
\* To the tables and the clients a step is one of three things: a transaction
\* whose caller may or may not hear of it, a replay, or nothing.
Answered(w) == [slot |-> job[w].slot, request |-> job[w].request,
                results |-> FreshIds(FindingsOn[job[w].request])]
Stores(w) ==
  /\ Store(w)
  /\ answers' \in {answers, answers \cup {Answered(w)}}
  /\ UNCHANGED refused
Replays(w) ==
  /\ job[w] \in Job /\ runs[job[w].slot] # None
  /\ Replay(w, job[w].slot, job[w].request)
Quiet == UNCHANGED <<tables, answers, refused>>

LEMMA StepKinds ==
  ASSUME TypeOK, [Next]_vars
  PROVE  (\E w \in Workers : Stores(w) \/ Replays(w)) \/ Quiet
<1>1. ASSUME NEW w \in Workers, Commit(w) \/ CommitUnheard(w) \/ CommitUncertain(w)
      PROVE  Stores(w)
  BY <1>1 DEF Commit, CommitUnheard, CommitUncertain, Stores, Answered
<1>2. ASSUME NEW w \in Workers, LookupHit(w) \/ RecheckHit(w)
      PROVE  Replays(w)
  BY <1>2, JobKinds DEF LookupHit, RecheckHit, Replays, SlotFree, Ops
<1>3. CASE \/ \E w \in Workers, s \in Slots, r \in Requests : Begin(w, s, r)
           \/ \E w \in Workers :
                LookupMiss(w) \/ ReadParcel(w) \/ ReadNeighbours(w) \/ RecheckMiss(w) \/ Crash(w)
           \/ WorldMoves \/ UNCHANGED vars
  BY <1>3 DEF Begin, LookupMiss, ReadParcel, ReadNeighbours, RecheckMiss, Crash,
              WorldMoves, vars, tables, Quiet
<1>4. CASE \E w \in Workers : CommitDuplicate(w) \/ CommitFails(w)
  BY <1>4 DEF CommitDuplicate, CommitFails, RolledBack, tables, Quiet
<1> QED BY <1>1, <1>2, <1>3, <1>4 DEF Next

\* The variables of a call under way, the boundaries and the count of faults.
LEMMA CallsTyped ==
  ASSUME TypeOK, [Next]_vars
  PROVE  /\ parcel' \in 1..MaxBoundary /\ neighbours' \in 1..MaxBoundary
         /\ failures' \in 0..MaxFailures
         /\ job' \in [Workers -> {Idle} \cup Job]
<1> USE DEF TypeOK
<1>1. ASSUME NEW w \in Workers, NEW op \in Ops, job[w].op \in Ops, Goto(w, op)
      PROVE  job' \in [Workers -> {Idle} \cup Job]
  <2>1. job[w] \in Job
    BY <1>1, JobKinds
  <2>2. [job[w] EXCEPT !.op = op] \in Job
    BY <2>1 DEF Job
  <2> QED BY <1>1, <2>2 DEF Goto
<1>2. ASSUME NEW w \in Workers, Finish(w)
      PROVE  job' \in [Workers -> {Idle} \cup Job]
  BY <1>2 DEF Finish
<1>3. ASSUME Fault PROVE failures' \in 0..MaxFailures
  BY <1>3, BoundsAssumption DEF Fault
<1>4. ASSUME NEW w \in Workers, NEW s \in Slots, NEW r \in Requests, Begin(w, s, r)
      PROVE  job' \in [Workers -> {Idle} \cup Job] /\ UNCHANGED <<world, failures>>
  <2>1. [op |-> "lookup", slot |-> s, request |-> r, parcel |-> 0, neighbours |-> 0] \in Job
    BY DEF Job, Ops
  <2> QED BY <1>4, <2>1 DEF Begin
<1>5. ASSUME NEW w \in Workers, ReadParcel(w) \/ ReadNeighbours(w)
      PROVE  job' \in [Workers -> {Idle} \cup Job] /\ UNCHANGED <<world, failures>>
  <2>1. job[w] \in Job
    BY <1>5, JobKinds DEF ReadParcel, ReadNeighbours, Ops
  <2>2. parcel \in Nat /\ neighbours \in Nat
    BY BoundsAssumption
  <2>3. /\ [job[w] EXCEPT !.op = "neighbours", !.parcel = parcel] \in Job
        /\ [job[w] EXCEPT !.op = "commit", !.neighbours = neighbours] \in Job
    BY <2>1, <2>2 DEF Job, Ops
  <2> QED BY <1>5, <2>3 DEF ReadParcel, ReadNeighbours
<1>6. ASSUME NEW w \in Workers,
             \/ LookupHit(w) \/ LookupMiss(w) \/ RecheckHit(w) \/ RecheckMiss(w)
             \/ Commit(w) \/ CommitDuplicate(w)
      PROVE  job' \in [Workers -> {Idle} \cup Job] /\ UNCHANGED <<world, failures>>
  BY <1>1, <1>2, <1>6
     DEF LookupHit, LookupMiss, RecheckHit, RecheckMiss, Commit, CommitDuplicate,
         Replay, Store, Ops
<1>7. ASSUME NEW w \in Workers,
             CommitUnheard(w) \/ CommitUncertain(w) \/ CommitFails(w) \/ Crash(w)
      PROVE  /\ job' \in [Workers -> {Idle} \cup Job] /\ UNCHANGED world
             /\ failures' \in 0..MaxFailures
  BY <1>1, <1>2, <1>3, <1>7
     DEF CommitUnheard, CommitUncertain, CommitFails, Crash, Store, Ops
<1>8. CASE WorldMoves
  BY <1>8, BoundsAssumption DEF WorldMoves
<1>9. CASE UNCHANGED vars
  BY <1>9 DEF vars
<1> QED BY <1>4, <1>5, <1>6, <1>7, <1>8, <1>9 DEF Next, world

------------------------------------------------------------------------------
\* Nothing that is read of runs or answers changes in a step that is no
\* transaction, but for the one answer of a replay.
LEMMA RunsStay ==
  ASSUME NEW w \in Workers, Replays(w)
  PROVE  UNCHANGED tables
BY DEF Replays, Replay

LEMMA TablesTyped ==
  ASSUME TypeOK, [Next]_vars
  PROVE  /\ conflicts' \in Seq(Inputs)
         /\ runs' \in [Slots -> {None} \cup RunsOver(Len(conflicts'))]
         /\ answers' \subseteq AnswersOver(Len(conflicts'))
         /\ refused' \subseteq [slot : Slots, request : Requests]
<1>1. /\ conflicts \in Seq(Inputs) /\ Len(conflicts) \in Nat
      /\ runs \in [Slots -> {None} \cup RunsOver(Len(conflicts))]
      /\ answers \subseteq AnswersOver(Len(conflicts))
      /\ refused \subseteq [slot : Slots, request : Requests]
  BY LenProperties DEF TypeOK, RunsOver, AnswersOver
<1>2. ASSUME NEW w \in Workers, Stores(w)
      PROVE  /\ conflicts' \in Seq(Inputs)
             /\ runs' \in [Slots -> {None} \cup RunsOver(Len(conflicts'))]
             /\ answers' \subseteq AnswersOver(Len(conflicts'))
             /\ refused' \subseteq [slot : Slots, request : Requests]
  <2>1. Store(w)
    BY <1>2 DEF Stores
  <2>2. conflicts' \in Seq(Inputs) /\ Len(conflicts') \in Nat
        /\ Len(conflicts) <= Len(conflicts')
    BY <1>1, <2>1, FoundRows
  <2>3. /\ RunsOver(Len(conflicts)) \subseteq RunsOver(Len(conflicts'))
        /\ AnswersOver(Len(conflicts)) \subseteq AnswersOver(Len(conflicts'))
    BY <1>1, <2>2, IdsGrow
  <2>4. runs' \in [Slots -> {None} \cup RunsOver(Len(conflicts'))]
    <3>1. PICK new \in RunsOver(Len(conflicts')) :
            runs' = [runs EXCEPT ![job[w].slot] = new]
      BY <2>1, StoredRun
    <3>2. runs \in [Slots -> {None} \cup RunsOver(Len(conflicts'))]
      BY <1>1, <2>3
    <3> QED
      BY <3>1, <3>2
  <2>5. Answered(w) \in AnswersOver(Len(conflicts'))
    BY <2>1, StoredRun DEF Answered, AnswersOver, RunsOver
  <2> QED BY <1>1, <1>2, <2>2, <2>3, <2>4, <2>5 DEF Stores
<1>3. ASSUME NEW w \in Workers, Replays(w)
      PROVE  /\ UNCHANGED tables
             /\ answers' \subseteq AnswersOver(Len(conflicts))
             /\ refused' \subseteq [slot : Slots, request : Requests]
  <2> DEFINE s == job[w].slot  r == job[w].request
  <2>1. s \in Slots /\ r \in Requests /\ runs[s] \in RunsOver(Len(conflicts))
    BY <1>1, <1>3 DEF Replays, Job
  <2>2. /\ [slot |-> s, request |-> r, results |-> runs[s].results]
             \in AnswersOver(Len(conflicts))
        /\ [slot |-> s, request |-> r] \in [slot : Slots, request : Requests]
    BY <2>1 DEF RunsOver, AnswersOver
  <2> QED BY <1>1, <1>3, <2>2, RunsStay DEF Replays, Replay
<1> QED BY <1>1, <1>2, <1>3, StepKinds DEF Quiet, tables

LEMMA InitIInv == Init => IInv
<1> SUFFICES ASSUME Init PROVE IInv
  OBVIOUS
<1>1. conflicts \in Seq(Inputs) /\ Len(conflicts) = 0
  BY EmptySeq DEF Init
<1>2. TypeOK
  BY <1>1, BoundsAssumption DEF Init, TypeOK, RunsOver
<1> QED BY <1>1, <1>2 DEF Init, IInv, OneAnswerPerKey, EveryConflictFiled

LEMMA NextTyped == TypeOK /\ [Next]_vars => TypeOK'
BY CallsTyped, TablesTyped DEF TypeOK, RunsOver, AnswersOver

\* A run that is stored is never written again, and one is stored only where
\* there was none.
LEMMA RunsAreKept ==
  ASSUME TypeOK, [Next]_vars, NEW s \in Slots, runs[s] # None
  PROVE  runs'[s] = runs[s]
<1>1. ASSUME NEW w \in Workers, Stores(w) PROVE runs'[s] = runs[s]
  BY <1>1, StoredRun DEF Stores, TypeOK
<1> QED BY <1>1, StepKinds, RunsStay DEF Quiet, tables

LEMMA AnswersStayRight == TypeOK /\ OneAnswerPerKey /\ [Next]_vars => OneAnswerPerKey'
<1> SUFFICES ASSUME TypeOK, OneAnswerPerKey, [Next]_vars, NEW a \in answers'
             PROVE  /\ runs'[a.slot] # None
                    /\ a.request = runs'[a.slot].request
                    /\ a.results = runs'[a.slot].results
  BY DEF OneAnswerPerKey
<1>1. CASE a \in answers
  <2>1. a.slot \in Slots /\ runs[a.slot] # None
    BY <1>1 DEF TypeOK, OneAnswerPerKey
  <2> QED BY <1>1, <2>1, RunsAreKept DEF OneAnswerPerKey
<1>2. ASSUME NEW w \in Workers, Stores(w), a = Answered(w)
      PROVE  /\ runs'[a.slot] # None
             /\ a.request = runs'[a.slot].request
             /\ a.results = runs'[a.slot].results
  <2>1. PICK s \in Slots, new \in {[request |-> job[w].request, input |-> InputOf(job[w]),
                                  results |-> FreshIds(FindingsOn[job[w].request])]} :
          s = job[w].slot /\ new # None /\ runs' = [runs EXCEPT ![s] = new]
    BY <1>2, StoredRun DEF Stores
  <2>2. runs'[s] = new
    BY <2>1 DEF TypeOK
  <2> QED BY <1>2, <2>1, <2>2 DEF Answered
<1>3. ASSUME NEW w \in Workers, Replays(w), a \notin answers
      PROVE  /\ runs'[a.slot] # None
             /\ a.request = runs'[a.slot].request
             /\ a.results = runs'[a.slot].results
  BY <1>3, RunsStay DEF Replays, Replay, SameRequest, tables
<1> QED BY <1>1, <1>2, <1>3, StepKinds DEF Stores, Quiet

LEMMA ConflictsStayFiled ==
  EveryConflictFiled /\ [Next]_vars => EveryConflictFiled'
<1> SUFFICES ASSUME EveryConflictFiled, [Next]_vars PROVE EveryConflictFiled'
  OBVIOUS
<1>1. TypeOK /\ TypeOK'
  BY NextTyped DEF EveryConflictFiled
<1> DEFINE Files(i, s) ==
             /\ runs[s] # None
             /\ i \in runs[s].results /\ conflicts[i] = runs[s].input
             /\ \A z \in Slots \ {s} : runs[z] # None => i \notin runs[z].results
<1>2. ASSUME NEW w \in Workers, Stores(w), NEW i \in 1..Len(conflicts')
      PROVE  \E s \in Slots : Files(i, s)'
  <2>1. Store(w)
    BY <1>2 DEF Stores
  <2>2. PICK s \in Slots, new \in {[request |-> job[w].request, input |-> InputOf(job[w]),
                                  results |-> FreshIds(FindingsOn[job[w].request])]} :
          /\ runs[s] = None /\ new # None
          /\ runs' = [runs EXCEPT ![s] = new]
          /\ new.results \cap (1..Len(conflicts)) = {}
    BY <1>1, <2>1, StoredRun
  <2>3. \A z \in Slots \ {s} : runs[z] # None => runs[z].results \subseteq 1..Len(conflicts)
    BY <1>1 DEF TypeOK
  <2>4. runs'[s] = new /\ \A z \in Slots \ {s} : runs'[z] = runs[z]
    BY <1>1, <2>2 DEF TypeOK
  <2>5. CASE i \in 1..Len(conflicts)
    <3>1. PICK z \in Slots : Files(i, z)
      BY <2>5 DEF EveryConflictFiled
    <3>2. conflicts'[i] = conflicts[i]
      BY <1>1, <2>1, <2>5, FoundRows
    <3>3. z # s /\ i \notin new.results
      BY <2>2, <2>5, <3>1
    <3>4. Files(i, z)'
      BY <2>2, <2>4, <3>1, <3>2, <3>3
    <3> QED BY <3>4
  <2>6. CASE i \notin 1..Len(conflicts)
    <3>1. i \in new.results /\ conflicts'[i] = new.input
      BY <1>1, <2>1, <2>6, FoundRows DEF FreshIds
    <3>2. Files(i, s)'
      BY <2>2, <2>3, <2>4, <2>6, <3>1
    <3> QED BY <2>2, <3>2
  <2> QED BY <2>5, <2>6
<1>3. CASE \E w \in Workers : Stores(w)
  BY <1>1, <1>2, <1>3 DEF EveryConflictFiled
<1>4. CASE UNCHANGED tables
  BY <1>1, <1>4 DEF EveryConflictFiled, tables
<1> QED BY <1>1, <1>3, <1>4, StepKinds, RunsStay DEF Quiet, tables

LEMMA Inductive == Spec => []IInv
<1>1. IInv /\ [Next]_vars => IInv'
  BY AnswersStayRight, ConflictsStayFiled DEF IInv, EveryConflictFiled
<1> QED BY <1>1, InitIInv, PTL DEF Spec

\* Whoever calls, when and how often, every 200 sent for a key names the one
\* request and the one result filed under it.
THEOREM Idempotency == Spec => []OneAnswerPerKey
BY Inductive, PTL DEF IInv

\* No failed, refused or repeated transaction leaves a conflict that no run
\* names or that two runs name, and no run names a conflict that is not there.
THEOREM NoOrphans == Spec => []EveryConflictFiled
BY Inductive, PTL DEF IInv

------------------------------------------------------------------------------
\* What the atomic store shows of a slot.
Shown(run) ==
  IF run = None THEN None ELSE [request |-> run.request, results |-> run.results]

LEMMA LedgerShows ==
  ASSUME TypeOK, NEW s \in Slots
  PROVE  /\ Ledger[s] = Shown(runs[s])
         /\ Ledger[s] = None <=> runs[s] = None
         /\ runs[s] # None =>
              /\ Ledger[s].request = runs[s].request /\ Ledger[s].results = runs[s].results
<1>1. CASE runs[s] = None
  BY <1>1 DEF Ledger, Shown
<1>2. CASE runs[s] # None
  <2>1. runs[s] \in RunsOver(Len(conflicts)) /\ 1..Len(conflicts) \subseteq Nat
    BY <1>2, LenProperties DEF TypeOK, RunsOver
  <2>2. [request |-> runs[s].request, results |-> runs[s].results]
          \in [request : Requests, results : SUBSET Nat]
    BY <2>1 DEF RunsOver
  <2> QED BY <1>2, <2>2, NoneAssumption DEF Ledger, Shown
<1> QED BY <1>1, <1>2

\* A transaction, heard of or not, is the one step in which the store performs
\* the work and files what it found.
LEMMA StoringPerforms ==
  ASSUME TypeOK, TypeOK', NEW w \in Workers, Stores(w)
  PROVE  Store1!Next
<1>1. PICK s \in Slots, r \in Requests, found \in {FreshIds(FindingsOn[job[w].request])},
           new \in {[request |-> job[w].request, input |-> InputOf(job[w]),
                    results |-> FreshIds(FindingsOn[job[w].request])]} :
        /\ s = job[w].slot /\ r = job[w].request
        /\ runs[s] = None /\ new # None /\ runs' = [runs EXCEPT ![s] = new]
        /\ new \in RunsOver(Len(conflicts'))
  BY StoredRun DEF Stores
<1>2. runs'[s] = new /\ \A z \in Slots \ {s} : runs'[z] = runs[z]
  BY <1>1 DEF TypeOK
<1>3. Ledger' = [Ledger EXCEPT ![s] = [request |-> r, results |-> found]]
  <2>1. Ledger'[s] = [request |-> r, results |-> found]
    BY <1>1, <1>2 DEF Ledger
  <2>2. \A z \in Slots \ {s} : Ledger'[z] = Ledger[z]
    BY <1>2 DEF Ledger
  <2> QED BY <2>1, <2>2 DEF Ledger
<1>4. Ledger[s] = None
  BY <1>1, LedgerShows
<1>5. Ledger'[s] = [request |-> r, results |-> found] /\ found \in SUBSET Nat
  <2>1. conflicts' \in Seq(Inputs)
    BY DEF TypeOK
  <2>2. 1..Len(conflicts') \subseteq Nat
    BY <2>1, LenProperties
  <2> QED BY <1>1, <1>2, <2>2 DEF Ledger, RunsOver
<1>6. Ledger'[s] # None
  BY <1>5, <1>1, NoneAssumption
<1>7. answers' \in {answers, answers \cup
                      {[slot |-> s, request |-> r, results |-> found]}}
  BY <1>1 DEF Stores, Answered
<1>8. Store1!Perform(s, r)
  <2>1. Ledger'[s].results = found
    BY <1>5
  <2>2. UNCHANGED refused
    BY DEF Stores
  <2> QED BY <1>3, <1>4, <1>5, <1>6, <1>7, <2>1, <2>2, Zenon DEF Store1!Perform
<1> QED BY <1>1, <1>8 DEF Store1!Next

\* A replay gives the filed result or turns the caller away.
LEMMA ReplayingAnswers ==
  ASSUME TypeOK, NEW w \in Workers, Replays(w)
  PROVE  Store1!Next
<1>1. PICK s \in Slots, r \in Requests :
        /\ s = job[w].slot /\ r = job[w].request
        /\ runs[s] # None /\ Replay(w, s, r)
  BY DEF Replays, Job
<1>2. UNCHANGED Ledger
  BY <1>1 DEF Replay, tables, Ledger
<1>3. CASE SameRequest(runs[s], r)
  <2>1. Store1!Replay(s)
    BY <1>1, <1>2, <1>3, LedgerShows DEF Store1!Replay, Replay, SameRequest
  <2> QED BY <2>1 DEF Store1!Next
<1>4. CASE ~ SameRequest(runs[s], r)
  <2>1. Store1!TurnAway(s, r)
    BY <1>1, <1>2, <1>4, LedgerShows DEF Store1!TurnAway, Replay, SameRequest
  <2> QED BY <2>1 DEF Store1!Next
<1> QED BY <1>3, <1>4

LEMMA StoreInit == Init => Store1!Init
BY DEF Init, Store1!Init, Ledger

LEMMA StoreStep == TypeOK /\ [Next]_vars => [Store1!Next]_(Store1!vars)
<1> SUFFICES ASSUME TypeOK, [Next]_vars PROVE Store1!Next \/ UNCHANGED Store1!vars
  OBVIOUS
<1>1. TypeOK'
  BY NextTyped
<1>2. CASE Quiet
  BY <1>2 DEF Quiet, tables, Store1!vars, Ledger
<1> QED BY <1>1, <1>2, StepKinds, StoringPerforms, ReplayingAnswers

\* The handler, a step for every statement and with every fault, race and retry,
\* implements the store whose calls are indivisible.
THEOREM Refinement == Spec => ImplementsStore
<1>1. IInv /\ [Next]_vars => [Store1!Next]_(Store1!vars)
  BY StoreStep DEF IInv, EveryConflictFiled
<1> QED BY <1>1, StoreInit, Inductive, PTL DEF Spec, ImplementsStore, Store1!Spec

------------------------------------------------------------------------------
(***************************************************************************)
(* The geometry of a detection (Topology), for every set of neighbours,    *)
(* every choice of boundaries and every tolerance a request may name.      *)
(***************************************************************************)
\* A set of numbers that is not empty has a least element.
LEMMA LeastNumber ==
  ASSUME NEW S, S \subseteq Nat, S # {}
  PROVE  \E m \in S : \A n \in S : m <= n
<1> DEFINE R == OpToRel(<, Nat)
<1>1. IsWellFoundedOn(R, Nat)
  BY NatLessThanWellFounded
<1>2. \A x, y \in Nat : x < y => <<x, y>> \in R
  BY DEF OpToRel
<1> HIDE DEF R
<1>3. PICK x \in S : \A y \in S : ~ (<<y, x>> \in R)
  BY <1>1, WFMin
<1>4. \A y \in S : ~ (y < x)
  BY <1>2, <1>3
<1> QED
  BY <1>4

\* Every measure is a number, and every side is long enough for an overlap of one
\* unit along it to be reported.
LEMMA Measures ==
  /\ Extent \in Nat /\ Tolerance \in Nat /\ Tolerance >= 1 /\ Height \in Nat
  /\ \A i \in Insets : i \in Nat /\ (Height - 2 * i) * 10000 > Tolerance * Tolerance
  /\ 0 \in Insets
BY MeasuresAssumption, InsetsAssumption

\* The stored boundaries lie on the line and run from left to right.
LEMMA ReferencesTyped ==
  /\ \A r \in References : r \in Strip /\ Proper(r)
  /\ TopologyTypeOK => \A o \in {0} \cup Neighbours : o \in Nat /\ Reference(o) \in References
<1>1. ASSUME NEW r \in References
      PROVE  r \in Strip /\ Proper(r)
  <2>1. /\ r.left \in 0..Extent /\ r.right \in 0..Extent
        /\ r = [left |-> r.left, right |-> r.right]
        /\ r.right - r.left > 2 * Tolerance
    BY MarksAssumption DEF References
  <2>2. r.left < r.right
    BY <2>1, Measures
  <2> QED
    BY <2>1, <2>2 DEF Strip, Proper
<1>2. TopologyTypeOK => \A o \in {0} \cup Neighbours : o \in Nat /\ Reference(o) \in References
  BY NeighboursAssumption DEF TopologyTypeOK, Reference
<1> QED
  BY <1>1, <1>2

\* The distance of a corner and a target, squared, is a number, and zero only
\* where the target is the corner's own place.
LEMMA SquaredTyped ==
  ASSUME NEW q, NEW t, q.at \in Nat, q.off \in Nat, t.at \in Nat, t.off \in Nat
  PROVE  /\ Squared(q, t) \in Nat
         /\ Squared(q, t) = 0 <=> q.at = t.at /\ q.off = t.off
<1> DEFINE x == Apart(q.at, t.at)
           y == Apart(q.off, t.off)
<1>1. x \in Nat /\ (x = 0 <=> q.at = t.at)
  BY DEF Apart
<1>2. y \in Nat /\ (y = 0 <=> q.off = t.off)
  BY DEF Apart
<1>3. Squared(q, t) = x * x + y * y
  BY DEF Squared
<1> HIDE DEF x, y
<1>4. x * x \in Nat /\ y * y \in Nat /\ (x # 0 => x * x >= 1) /\ (y # 0 => y * y >= 1)
  BY <1>1, <1>2
<1>5. x = 0 /\ y = 0 => x * x + y * y = 0
  OBVIOUS
<1>6. x * x + y * y = 0 => x = 0 /\ y = 0
  BY <1>4
<1> QED
  BY <1>1, <1>2, <1>3, <1>4, <1>5, <1>6

\* A projection lies on the line it is made on, and stays there when projected.
LEMMA LineTyped ==
  ASSUME NEW n \in Strip, Proper(n), NEW x \in 0..Extent
  PROVE  /\ OnLine(x, n) \in 0..Extent
         /\ OnLine(OnLine(x, n), n) = OnLine(x, n)
BY Measures DEF OnLine, Larger, Smaller, Strip, Proper

\* What is offered to a corner lies on the line the strips lie on.
LEMMA OfferedTyped ==
  ASSUME TopologyTypeOK, NEW q \in Corner
  PROVE  \A t \in Vertices \cup Feet(q) :
           t.turn \in Nat /\ t.at \in 0..Extent /\ t.off \in Insets
<1> SUFFICES ASSUME NEW t \in Vertices \cup Feet(q)
             PROVE  t.turn \in Nat /\ t.at \in 0..Extent /\ t.off \in Insets
  OBVIOUS
<1>1. q.at \in 0..Extent /\ q.off \in Insets /\ 0 \in Insets
  BY Measures DEF Corner
<1>2. PICK o \in {0} \cup Neighbours :
        \/ t = Target(2 * o, Reference(o).left, 0)
        \/ t = Target(2 * o + 1, Reference(o).right, 0)
        \/ t = Target(3 * o, OnLine(q.at, Reference(o)), 0)
        \/ t = Target(3 * o + 1, Reference(o).right, q.off)
        \/ t = Target(3 * o + 2, Reference(o).left, q.off)
  BY DEF Vertices, Feet
<1>3. o \in Nat /\ Reference(o) \in Strip /\ Proper(Reference(o))
  BY <1>2, ReferencesTyped
<1>4. /\ Reference(o).left \in 0..Extent /\ Reference(o).right \in 0..Extent
      /\ OnLine(q.at, Reference(o)) \in 0..Extent
  BY <1>1, <1>3, LineTyped DEF Strip
<1>5. 2 * o \in Nat /\ 2 * o + 1 \in Nat /\ 3 * o \in Nat /\ 3 * o + 1 \in Nat /\ 3 * o + 2 \in Nat
  BY <1>3
<1> QED
  BY <1>1, <1>2, <1>4, <1>5 DEF Target

\* A loop of nearestSnapTarget ends on the target that no other is preferred to.
LEMMA NearestTarget ==
  ASSUME TopologyTypeOK, NEW q \in Corner,
         NEW near, near \subseteq Vertices \cup Feet(q), near # {}
  PROVE  /\ Nearest(q, near) \in near
         /\ \A u \in near : Preferred(q, Nearest(q, near), u)
<1>1. \A t \in near : t.turn \in Nat /\ t.at \in Nat /\ t.off \in Nat
  BY OfferedTyped, Measures
<1>2. \A t \in near : Squared(q, t) \in Nat
  BY <1>1, SquaredTyped, Measures DEF Corner
<1> DEFINE lengths == {Squared(q, t) : t \in near}
<1>3. PICK d \in lengths : \A e \in lengths : d <= e
  <2>1. lengths \subseteq Nat /\ lengths # {}
    BY <1>2
  <2> HIDE DEF lengths
  <2> QED
    BY <2>1, LeastNumber
<1> DEFINE turns == {t.turn : t \in {u \in near : Squared(q, u) = d}}
<1>4. PICK first \in turns : \A turn \in turns : first <= turn
  <2>1. turns \subseteq Nat /\ turns # {}
    BY <1>1, <1>3
  <2> HIDE DEF turns
  <2> QED
    BY <2>1, LeastNumber
<1>5. PICK t \in near : Squared(q, t) = d /\ t.turn = first
  BY <1>4
<1>6. \A u \in near : Preferred(q, t, u)
  <2> TAKE u \in near
  <2>1. d <= Squared(q, u) /\ (Squared(q, u) = d => first <= u.turn)
    BY <1>3, <1>4
  <2>2. d \in Nat /\ Squared(q, u) \in Nat
    BY <1>2, <1>5
  <2> QED
    BY <1>5, <2>1, <2>2 DEF Preferred
<1>7. \E v \in near : \A u \in near : Preferred(q, v, u)
  BY <1>6
<1> QED
  BY <1>7 DEF Nearest

\* Where a target is the corner's own place, the snap chooses that place.
LEMMA OwnPlace ==
  ASSUME TopologyTypeOK, NEW q \in Corner,
         NEW targets, targets \subseteq Vertices \cup Feet(q),
         NEW own \in targets, q = Place(own)
  PROVE  Near(q, targets) # {} /\ Place(Nearest(q, Near(q, targets))) = q
<1>1. \A t \in targets : t.at \in Nat /\ t.off \in Nat
  BY OfferedTyped, Measures
<1>2. q.at \in Nat /\ q.off \in Nat /\ q.at = own.at /\ q.off = own.off
  BY Measures DEF Corner, Place
<1>3. Squared(q, own) = 0
  BY <1>1, <1>2, SquaredTyped
<1>4. own \in Near(q, targets)
  BY <1>3, Measures DEF Near
<1> DEFINE t == Nearest(q, Near(q, targets))
<1>5. t \in targets /\ Preferred(q, t, own)
  BY <1>4, NearestTarget DEF Near
<1>6. t.at \in Nat /\ t.off \in Nat
  BY <1>1, <1>5
<1>7. Squared(q, t) = 0
  <2>1. Squared(q, t) \in Nat
    BY <1>2, <1>6, SquaredTyped
  <2> QED
    BY <1>3, <1>5, <2>1 DEF Preferred
<1>8. q.at = t.at /\ q.off = t.off
  BY <1>2, <1>6, <1>7, SquaredTyped
<1> QED
  BY <1>4, <1>8 DEF Place, Corner

\* The three ways a corner can go: onto a vertex, onto an edge, nowhere.
LEMMA SnapOutcome ==
  ASSUME TopologyTypeOK, NEW q \in Corner
  PROVE  /\ Snapped(q) \in Corner
         /\ \/ OnVertex(Snapped(q))
            \/ Near(q, Vertices) = {} /\ \E t \in Feet(q) : Snapped(q) = Place(t)
            \/ Snapped(q) = q
<1>1. \A t \in Vertices \cup Feet(q) : Place(t) \in Corner
  BY OfferedTyped DEF Place, Corner
<1>2. CASE Near(q, Vertices) # {}
  <2> DEFINE t == Nearest(q, Near(q, Vertices))
  <2>1. t \in Vertices
    <3>1. Near(q, Vertices) \subseteq Vertices
      BY DEF Near
    <3> QED
      BY <1>2, <3>1, NearestTarget
  <2>2. Snapped(q) = Place(t)
    BY <1>2 DEF Snapped
  <2> QED
    BY <1>1, <2>1, <2>2 DEF OnVertex
<1>3. CASE Near(q, Vertices) = {} /\ Near(q, Feet(q)) # {}
  <2> DEFINE t == Nearest(q, Near(q, Feet(q)))
  <2>1. t \in Feet(q)
    <3>1. Near(q, Feet(q)) \subseteq Feet(q)
      BY DEF Near
    <3> QED
      BY <1>3, <3>1, NearestTarget
  <2>2. Snapped(q) = Place(t)
    BY <1>3 DEF Snapped
  <2> QED
    BY <1>1, <1>3, <2>1, <2>2
<1>4. CASE Near(q, Vertices) = {} /\ Near(q, Feet(q)) = {}
  BY <1>4 DEF Snapped
<1> QED
  BY <1>2, <1>3, <1>4

\* A corner on a vertex stays.
LEMMA VertexStays ==
  ASSUME TopologyTypeOK, NEW q \in Corner, OnVertex(q)
  PROVE  Snapped(q) = q
<1>1. PICK v \in Vertices : q = Place(v)
  BY DEF OnVertex
<1>2. Near(q, Vertices) # {} /\ Place(Nearest(q, Near(q, Vertices))) = q
  BY <1>1, OwnPlace
<1> QED
  BY <1>2 DEF Snapped

\* A corner on an edge stays as long as no vertex is within the tolerance: the
\* foot of a foot is the foot.
LEMMA FootStays ==
  ASSUME TopologyTypeOK, NEW q \in Corner, NEW t \in Feet(q), Place(t) \in Corner,
         Near(Place(t), Vertices) = {}
  PROVE  Snapped(Place(t)) = Place(t)
<1> DEFINE p == Place(t)
<1>1. PICK o \in {0} \cup Neighbours :
        \/ t = Target(3 * o, OnLine(q.at, Reference(o)), 0)
        \/ t = Target(3 * o + 1, Reference(o).right, q.off)
        \/ t = Target(3 * o + 2, Reference(o).left, q.off)
  BY DEF Feet
<1>2. OnLine(OnLine(q.at, Reference(o)), Reference(o)) = OnLine(q.at, Reference(o))
  BY ReferencesTyped, LineTyped DEF Corner
<1>3. \E own \in Feet(p) : p = Place(own)
  <2>1. CASE t = Target(3 * o, OnLine(q.at, Reference(o)), 0)
    <3>1. p.at = OnLine(q.at, Reference(o)) /\ p = Place(Target(3 * o, OnLine(p.at, Reference(o)), 0))
      BY <1>2, <2>1 DEF Place, Target
    <3>2. Target(3 * o, OnLine(p.at, Reference(o)), 0) \in Feet(p)
      BY DEF Feet
    <3> QED
      BY <3>1, <3>2
  <2>2. CASE t = Target(3 * o + 1, Reference(o).right, q.off)
    <3>1. p = Place(Target(3 * o + 1, Reference(o).right, p.off))
      BY <2>2 DEF Place, Target
    <3>2. Target(3 * o + 1, Reference(o).right, p.off) \in Feet(p)
      BY DEF Feet
    <3> QED
      BY <3>1, <3>2
  <2>3. CASE t = Target(3 * o + 2, Reference(o).left, q.off)
    <3>1. p = Place(Target(3 * o + 2, Reference(o).left, p.off))
      BY <2>3 DEF Place, Target
    <3>2. Target(3 * o + 2, Reference(o).left, p.off) \in Feet(p)
      BY DEF Feet
    <3> QED
      BY <3>1, <3>2
  <2> QED
    BY <1>1, <2>1, <2>2, <2>3
<1> HIDE DEF p
<1>4. p \in Corner /\ Near(p, Vertices) = {}
  BY DEF p
<1>5. Near(p, Feet(p)) # {} /\ Place(Nearest(p, Near(p, Feet(p)))) = p
  BY <1>3, <1>4, OwnPlace
<1>6. Snapped(p) = p
  BY <1>4, <1>5 DEF Snapped
<1> QED
  BY <1>6 DEF p

\* A corner that was snapped is moved at most onto a vertex.
Landed(q) == Snapped(q) = q \/ OnVertex(Snapped(q))

\* Once snapped a corner has landed; snapped again it stays.
LEMMA SnapLands ==
  ASSUME TopologyTypeOK, NEW q \in Corner
  PROVE  /\ Snapped(q) \in Corner
         /\ Landed(Snapped(q))
         /\ Landed(q) => Snapped(Snapped(q)) = Snapped(q)
<1>1. Snapped(q) \in Corner
  BY SnapOutcome
<1>2. OnVertex(Snapped(q)) => Snapped(Snapped(q)) = Snapped(q)
  BY <1>1, VertexStays
<1>3. ASSUME NEW t \in Feet(q), Snapped(q) = Place(t)
      PROVE  Landed(Snapped(q))
  <2>1. CASE Near(Snapped(q), Vertices) = {}
    BY <1>1, <1>3, <2>1, FootStays DEF Landed
  <2>2. CASE Near(Snapped(q), Vertices) # {}
    <3> DEFINE p == Snapped(q)
               v == Nearest(p, Near(p, Vertices))
    <3>1. v \in Vertices
      <4>1. Near(p, Vertices) \subseteq Vertices
        BY DEF Near
      <4> QED
        BY <1>1, <2>2, <4>1, NearestTarget
    <3>2. Snapped(p) = Place(v)
      BY <2>2 DEF Snapped
    <3> QED
      BY <3>1, <3>2 DEF Landed, OnVertex
  <2> QED
    BY <2>1, <2>2
<1>4. Landed(Snapped(q))
  BY <1>2, <1>3, SnapOutcome DEF Landed
<1> QED
  BY <1>1, <1>2, <1>4 DEF Landed

\* The same of both sides of a boundary.
BothLanded(c) == Landed(c.west) /\ Landed(c.east)
Settled(c) == SnapToReferences(c) = c

LEMMA BoundaryLands ==
  ASSUME TopologyTypeOK, NEW c \in Boundary
  PROVE  /\ SnapToReferences(c) \in Boundary
         /\ BothLanded(SnapToReferences(c))
         /\ BothLanded(c) => Settled(SnapToReferences(c))
<1>1. c.west \in Corner /\ c.east \in Corner
  BY DEF Boundary
<1> DEFINE d == SnapToReferences(c)
<1>2. d = [west |-> Snapped(c.west), east |-> Snapped(c.east)]
  BY DEF SnapToReferences
<1>3. d \in Boundary /\ d.west = Snapped(c.west) /\ d.east = Snapped(c.east)
  BY <1>1, <1>2, SnapLands DEF Boundary
<1>4. BothLanded(d)
  BY <1>1, <1>3, SnapLands DEF BothLanded
<1>5. BothLanded(c) => Snapped(d.west) = d.west /\ Snapped(d.east) = d.east
  BY <1>1, <1>3, SnapLands DEF BothLanded
<1>6. SnapToReferences(d) = [west |-> Snapped(d.west), east |-> Snapped(d.east)]
  BY DEF SnapToReferences
<1> HIDE DEF d
<1>7. BothLanded(c) => Settled(d)
  BY <1>2, <1>3, <1>5, <1>6 DEF Settled
<1> QED
  BY <1>3, <1>4, <1>7 DEF d

------------------------------------------------------------------------------
Detected == findings = DetectTopology(suggested)

\* A detection's findings are those of the boundary it suggests, and the draft
\* that is made from the suggestion keeps both.  A suggestion has landed; one that
\* was made of a suggestion has settled.
GeometryIInv ==
  /\ TopologyTypeOK
  /\ stage = "detected" =>
       Detected /\ BothLanded(suggested) /\ (round >= 1 => Settled(suggested))
  /\ stage = "draft" /\ round >= 1 =>
       /\ proposed = suggested /\ Detected
       /\ BothLanded(suggested) /\ (round = 2 => Settled(suggested))

\* The span of a boundary is a strip, and what two strips have in common is kept
\* as a strip, empty or not.
LEMMA SpanTyped ==
  ASSUME NEW c \in Boundary
  PROVE  Span(c) \in Strip
BY DEF Span, Boundary, Corner, Strip

LEMMA CommonTyped ==
  ASSUME NEW s \in Strip, NEW t \in Strip
  PROVE  Common(s, t) \in Strip
BY DEF Common, Strip, Larger, Smaller

\* Every finding names a neighbour and shows a piece of the drawing.
LEMMA FindingsTyped ==
  ASSUME TopologyTypeOK, NEW c \in Boundary
  PROVE  /\ UNION {Against(c, id) : id \in Neighbours} \subseteq Finding
         /\ DetectTopology(c) \subseteq Finding
<1> SUFFICES ASSUME NEW id \in Neighbours, NEW f \in Against(c, id)
             PROVE  f \in Finding
  BY DEF DetectTopology, Deduplicated
<1> DEFINE n == around[id]
<1>1. n \in Strip
  BY ReferencesTyped DEF TopologyTypeOK
<1>2. Common(Span(c), n) \in Strip
  BY <1>1, SpanTyped, CommonTyped
<1>3. SharedBoundary(c, n) \in Shared
  <2>1. /\ c.west.at \in 0..Extent /\ c.east.at \in 0..Extent
        /\ n.left \in 0..Extent /\ n.right \in 0..Extent
    BY <1>1 DEF Boundary, Corner, Strip
  <2> HIDE DEF n
  <2> QED
    BY <1>2, <2>1 DEF SharedBoundary, Shared
<1>4. \/ f = [kind |-> "overlap", with |-> id, evidence |-> Common(Span(c), n)]
      \/ f = [kind |-> "gap", with |-> id, evidence |-> c]
      \/ f = [kind |-> "dangling_edge", with |-> id, evidence |-> SharedBoundary(c, n)]
  BY DEF Against
<1> HIDE DEF n
<1> QED
  BY <1>2, <1>3, <1>4 DEF Finding, Kinds

\* A draft that was never detected has nothing to agree with.
LEMMA InitGeometry == TopologyInit => GeometryIInv
BY DEF TopologyInit, GeometryIInv, TopologyTypeOK

\* Detections do not move the parcels, so what a snap or a detection makes of a
\* boundary stays what it was.
LEMMA ParcelsStand ==
  ASSUME UNCHANGED parcels, NEW c
  PROVE  /\ SnapToReferences(c)' = SnapToReferences(c)
         /\ DetectTopology(c)' = DetectTopology(c)
         /\ BothLanded(c)' <=> BothLanded(c)
         /\ Settled(c)' <=> Settled(c)
<1>1. base' = base /\ around' = around
  BY DEF parcels
<1>2. Vertices' = Vertices
  BY <1>1 DEF Vertices, Reference
<1>3. ASSUME NEW q
      PROVE  Snapped(q)' = Snapped(q)
  <2> DEFINE Chosen(V, F) ==
               IF Near(q, V) # {} THEN Place(Nearest(q, Near(q, V)))
               ELSE IF Near(q, F) # {} THEN Place(Nearest(q, Near(q, F)))
               ELSE q
  <2>1. Snapped(q) = Chosen(Vertices, Feet(q)) /\ Snapped(q)' = Chosen(Vertices', Feet(q)')
    BY DEF Snapped
  <2>2. Feet(q)' = Feet(q)
    BY <1>1 DEF Feet, Reference
  <2> HIDE DEF Chosen
  <2> QED
    BY <1>2, <2>1, <2>2
<1>4. SnapToReferences(c)' = SnapToReferences(c)
  BY <1>3 DEF SnapToReferences
<1>5. DetectTopology(c)' = DetectTopology(c)
  BY <1>1 DEF DetectTopology, Against, Opens
<1>6. ASSUME NEW q
      PROVE  Landed(q)' <=> Landed(q)
  <2>1. Snapped(q)' = Snapped(q)
    BY <1>3
  <2>2. (\E v \in Vertices' : Snapped(q)' = Place(v)) <=> (\E v \in Vertices : Snapped(q) = Place(v))
    BY <1>2, <2>1
  <2> QED
    BY <2>1, <2>2 DEF Landed, OnVertex
<1>7. BothLanded(c)' <=> BothLanded(c)
  BY <1>6 DEF BothLanded
<1>8. Settled(c)' <=> Settled(c)
  BY <1>4 DEF Settled
<1> QED
  BY <1>4, <1>5, <1>7, <1>8

\* DetectConflicts files the findings of the boundary it suggests.
LEMMA DetectGeometry ==
  ASSUME GeometryIInv, Detect
  PROVE  GeometryIInv'
<1>1. proposed \in Boundary /\ TopologyTypeOK
  BY DEF GeometryIInv, TopologyTypeOK
<1>2. /\ suggested' \in Boundary /\ Valid(suggested')
      /\ BothLanded(suggested') /\ (BothLanded(proposed) => Settled(suggested'))
  BY <1>1, BoundaryLands DEF Detect
<1>3. findings' = DetectTopology(suggested') /\ findings' \subseteq Finding
  BY <1>1, <1>2, FindingsTyped DEF Detect
<1>4. UNCHANGED parcels /\ proposed' = proposed /\ stage' = "detected" /\ round' = round
  BY DEF Detect
<1>5. TopologyTypeOK'
  BY <1>1, <1>2, <1>3, <1>4 DEF TopologyTypeOK, Valid, Proper, Span, parcels
<1>6. round >= 1 => BothLanded(proposed)
  BY DEF GeometryIInv, Detect
<1>7. Detected' /\ BothLanded(suggested)' /\ (round' >= 1 => Settled(suggested)')
  <2>1. /\ DetectTopology(suggested)' = DetectTopology(suggested')
        /\ BothLanded(suggested)' <=> BothLanded(suggested')
        /\ Settled(suggested)' <=> Settled(suggested')
    BY <1>4, ParcelsStand
  <2> QED
    BY <1>2, <1>3, <1>4, <1>6, <2>1 DEF Detected
<1> QED
  BY <1>4, <1>5, <1>7 DEF GeometryIInv

\* Nothing but a detection touches the suggestion and what was found on it.
LEMMA OtherStepsGeometry ==
  ASSUME GeometryIInv, RefuseSnap \/ Apply \/ UNCHANGED geometry
  PROVE  GeometryIInv'
<1>1. UNCHANGED parcels /\ UNCHANGED <<suggested, findings>>
  BY DEF RefuseSnap, Apply, geometry, parcels
<1>2. /\ Detected' <=> Detected
      /\ BothLanded(suggested)' <=> BothLanded(suggested)
      /\ Settled(suggested)' <=> Settled(suggested)
  <2>1. /\ DetectTopology(suggested)' = DetectTopology(suggested')
        /\ BothLanded(suggested)' <=> BothLanded(suggested')
        /\ Settled(suggested)' <=> Settled(suggested')
        /\ DetectTopology(suggested') = DetectTopology(suggested)
    BY <1>1, ParcelsStand
  <2> QED
    BY <1>1, <2>1 DEF Detected
<1>3. TopologyTypeOK'
  BY <1>1 DEF GeometryIInv, TopologyTypeOK, Valid, Proper, Span, parcels, RefuseSnap, Apply,
              geometry, Smaller
<1>4. CASE RefuseSnap
  BY <1>3, <1>4 DEF GeometryIInv, RefuseSnap
<1>5. CASE Apply
  <2>1. round \in 0..2 /\ round' = Smaller(round + 1, 2) /\ stage = "detected" /\ stage' = "draft"
    BY <1>5 DEF GeometryIInv, TopologyTypeOK, Apply
  <2>2. round' = 2 => round >= 1
    BY <2>1 DEF Smaller
  <2> QED
    BY <1>1, <1>2, <1>3, <1>5, <2>1, <2>2 DEF GeometryIInv, Apply
<1>6. CASE UNCHANGED geometry
  BY <1>2, <1>3, <1>6 DEF GeometryIInv, geometry
<1> QED
  BY <1>4, <1>5, <1>6

\* A detection and its suggestion agree as long as they are shown.
THEOREM GeometryIInvHolds == TopologySpec => []GeometryIInv
<1>1. GeometryIInv /\ [TopologyNext]_geometry => GeometryIInv'
  BY DetectGeometry, OtherStepsGeometry DEF TopologyNext
<1> QED
  BY <1>1, InitGeometry, PTL DEF TopologySpec

\* Snapped boundaries, findings and the drafts made of them stay typed, whatever
\* is drawn and however often it is detected and applied.
THEOREM GeometryTyping == TopologySpec => []TopologyTypeOK
<1>1. GeometryIInv => TopologyTypeOK
  BY DEF GeometryIInv
<1> QED
  BY <1>1, GeometryIInvHolds, PTL

\* A suggestion that is applied is moved at most onto vertices when it is detected
\* again, and the suggestion then made is where it stays (SnapToReferences,
\* nearestSnapTarget with both its loops, DetectTopology).
THEOREM Settling == TopologySpec => SuggestionSettles
<1>1. ASSUME GeometryIInv, TopologyNext, stage = "draft", round >= 1
      PROVE  stage' = "refused" \/ MovedOnlyToVertex
  <2>1. BothLanded(proposed)
    BY <1>1 DEF GeometryIInv
  <2>2. CASE Detect
    <3>1. suggested'.west = Snapped(proposed.west) /\ suggested'.east = Snapped(proposed.east)
      BY <2>2 DEF Detect, SnapToReferences
    <3> QED
      BY <2>1, <3>1 DEF BothLanded, Landed, MovedOnlyToVertex
  <2>3. CASE RefuseSnap
    BY <2>3 DEF RefuseSnap
  <2> QED
    BY <1>1, <2>2, <2>3 DEF TopologyNext, Apply
<1>2. ASSUME GeometryIInv, TopologyNext, stage = "draft", round = 2
      PROVE  stage' = "detected" /\ suggested' = proposed /\ findings' = findings
  <2>1. /\ proposed = suggested /\ findings = DetectTopology(suggested)
        /\ SnapToReferences(proposed) = proposed /\ Valid(proposed)
    BY <1>2 DEF GeometryIInv, TopologyTypeOK, Detected, Settled
  <2>2. Detect
    BY <1>2, <2>1 DEF TopologyNext, RefuseSnap, Apply
  <2>3. DetectTopology(suggested') = DetectTopology(suggested)
    BY <2>1, <2>2 DEF Detect
  <2> QED
    BY <2>1, <2>2, <2>3 DEF Detect
<1>3. GeometryIInv /\ [TopologyNext]_geometry =>
        [stage = "draft" =>
           /\ round >= 1 => stage' = "refused" \/ MovedOnlyToVertex
           /\ round = 2 => stage' = "detected" /\ suggested' = proposed
                             /\ findings' = findings]_geometry
  BY <1>1, <1>2
<1> QED
  BY <1>3, GeometryIInvHolds, PTL DEF TopologySpec, SuggestionSettles

\* The first of equal findings stays, so what deduplicateFindings makes of a
\* list is empty only if the list was.
LEMMA DuplicatesLeaveOne ==
  ASSUME NEW s, s \subseteq Finding, s # {}
  PROVE  Deduplicated(s) # {}
<1> DEFINE ids == {f.with : f \in s}
<1>1. \A f \in s : f.with \in Nat
  BY NeighboursAssumption DEF Finding
<1>2. ids \subseteq Nat /\ ids # {}
  BY <1>1
<1>3. PICK least \in ids : \A id \in ids : least <= id
  <2> HIDE DEF ids
  <2> QED
    BY <1>2, LeastNumber
<1>4. PICK f \in s : f.with = least
  BY <1>3
<1>5. f \in Deduplicated(s)
  BY <1>3, <1>4 DEF Deduplicated
<1> QED
  BY <1>5

\* Without a finding, each of the three tests of each neighbour came out negative.
LEMMA NothingFound ==
  ASSUME TopologyTypeOK, NEW c \in Boundary, DetectTopology(c) = {}, NEW id \in Neighbours
  PROVE  ~ Overlaps(c, around[id]) /\ ~ Opens(c, around[id]) /\ ~ Dangles(c, around[id])
<1> DEFINE n == around[id]
           found == UNION {Against(c, other) : other \in Neighbours}
<1>1. found = {}
  <2>1. found \subseteq Finding /\ Deduplicated(found) = {}
    BY FindingsTyped DEF DetectTopology
  <2> HIDE DEF found
  <2> QED
    BY <2>1, DuplicatesLeaveOne
<1>2. Against(c, id) = {}
  BY <1>1
<1>3. Overlaps(c, n) =>
        [kind |-> "overlap", with |-> id, evidence |-> Common(Span(c), n)] \in Against(c, id)
  BY DEF Against
<1>4. Opens(c, n) => [kind |-> "gap", with |-> id, evidence |-> c] \in Against(c, id)
  BY DEF Against
<1>5. Dangles(c, n) =>
        [kind |-> "dangling_edge", with |-> id, evidence |-> SharedBoundary(c, n)]
          \in Against(c, id)
  BY DEF Against
<1> QED
  BY <1>2, <1>3, <1>4, <1>5

\* A measure weighted with a side length is above the threshold's share of it.
LEMMA SideOutweighs ==
  ASSUME NEW i \in Insets, NEW x \in Nat
  PROVE  /\ (Height - 2 * i) * x \in Nat
         /\ ((Height - 2 * i) * x) * 10000 >= (Tolerance * Tolerance) * x
         /\ x >= 1 => ((Height - 2 * i) * x) * 10000 > (Tolerance * Tolerance) * x
<1> DEFINE h == Height - 2 * i
           t == Tolerance * Tolerance
<1>1. h \in Int /\ t \in Nat /\ h * 10000 > t
  BY Measures
<1> HIDE DEF h, t
<1>2. h \in Nat
  BY <1>1
<1>3. PICK k \in Nat : h * 10000 = t + k + 1
  <2>1. h * 10000 - t - 1 \in Nat
    BY <1>1
  <2> WITNESS h * 10000 - t - 1 \in Nat
  <2> QED
    BY <1>1
<1>4. (h * x) * 10000 = (h * 10000) * x
  BY <1>2
<1>5. (t + k + 1) * x = t * x + k * x + x
  BY <1>1, <1>3
<1>6. h * x \in Nat /\ t * x \in Nat /\ k * x \in Nat
  BY <1>1, <1>2, <1>3
<1>7. (h * x) * 10000 = t * x + k * x + x
  BY <1>3, <1>4, <1>5
<1>8. h * x \in Nat /\ (h * x) * 10000 >= t * x /\ (x >= 1 => (h * x) * 10000 > t * x)
  BY <1>6, <1>7
<1> QED
  BY <1>8 DEF h, t

\* An overlap too small to be reported is shorter than the unit of the drawing.
LEMMA SmallOverlap ==
  ASSUME NEW c \in Boundary, Valid(c), NEW n \in Strip, ~ Overlaps(c, n)
  PROVE  OverlapLength(Span(c), n) = 0
<1> DEFINE o == OverlapLength(Span(c), n)
           a == Common(Span(c), n).left
           b == Common(Span(c), n).right
           x == 2 * c.east.at - a - b
           y == a + b - 2 * c.west.at
           w == c.east.at - c.west.at
           p == Upright(c.west) * x
           r == Upright(c.east) * y
           t == Tolerance * Tolerance
<1>1. /\ c.west.at \in Nat /\ c.east.at \in Nat /\ c.west.at < c.east.at
      /\ c.west.off \in Insets /\ c.east.off \in Insets
      /\ n.left \in Nat /\ n.right \in Nat
  BY Measures DEF Boundary, Corner, Valid, Span, Proper, Strip
<1>2. /\ a = Larger(c.west.at, n.left) /\ b = Smaller(c.east.at, n.right)
  BY DEF Common, Span
<1>3. o = IF a < b THEN b - a ELSE 0
  BY DEF OverlapLength, Proper
<1>4. ~ ((o * (p + r)) * 10000 > t * (2 * w))
  BY DEF Overlaps, OverlapArea
<1>5. SUFFICES ASSUME a < b
               PROVE  FALSE
  BY <1>3
<1>6. a \in Nat /\ b \in Nat /\ c.west.at <= a /\ b <= c.east.at /\ o = b - a
  BY <1>1, <1>2, <1>3, <1>5 DEF Larger, Smaller
<1>7. o \in Nat /\ o >= 1
  BY <1>5, <1>6
<1>8. x \in Nat /\ y \in Nat /\ x + y = 2 * w /\ w \in Nat /\ w >= 1
  BY <1>1, <1>5, <1>6
<1>9. t \in Nat
  BY Measures
<1>10. p = (Height - 2 * c.west.off) * x /\ r = (Height - 2 * c.east.off) * y
  BY DEF Upright
<1> HIDE DEF o, a, b, x, y, w, p, r
<1>11. /\ p \in Nat /\ p * 10000 >= t * x /\ (x >= 1 => p * 10000 > t * x)
       /\ r \in Nat /\ r * 10000 >= t * y /\ (y >= 1 => r * 10000 > t * y)
  BY <1>1, <1>8, <1>10, SideOutweighs
<1> HIDE DEF t
<1>12. t * x \in Nat /\ t * y \in Nat /\ t * (2 * w) = t * x + t * y
  BY <1>8, <1>9
<1>13. (p + r) * 10000 > t * (2 * w)
  BY <1>8, <1>11, <1>12
<1>14. o * (p + r) >= p + r /\ o * (p + r) \in Nat
  BY <1>7, <1>11
<1> QED
  BY <1>4, <1>11, <1>12, <1>13, <1>14

\* Boundaries that are apart share nothing.
LEMMA NothingShared ==
  ASSUME NEW c \in Boundary, Valid(c), NEW n \in Strip, Proper(n), Distance(Span(c), n) > 0
  PROVE  SharedLength(c, n) = 0
<1>1. /\ c.west.at \in Nat /\ c.east.at \in Nat /\ n.left \in Nat /\ n.right \in Nat
      /\ c.west.at < c.east.at /\ n.left < n.right
      /\ Span(c) = [left |-> c.west.at, right |-> c.east.at]
  BY Measures DEF Boundary, Corner, Strip, Valid, Proper, Span
<1>2. c.west.at > n.right \/ n.left > c.east.at
  BY <1>1 DEF Distance, Larger
<1>3. SharedBoundary(c, n).sides = {}
  BY <1>1, <1>2 DEF SharedBoundary
<1>4. ~ Proper(Common(Span(c), n))
  BY <1>1, <1>2 DEF Proper, Common, Larger, Smaller
<1>5. OverlapLength(Span(c), n) = 0
  BY <1>4 DEF OverlapLength
<1> QED
  BY <1>3, <1>5 DEF SharedLength, SideLength

\* The three tests and their tolerances leave no sliver between them.
LEMMA TestsMeet ==
  ASSUME NEW c \in Boundary, Valid(c), NEW n \in Strip, Proper(n), base \in Strip,
         ~ Overlaps(c, n), ~ Opens(c, n), ~ Dangles(c, n)
  PROVE  /\ OverlapLength(Span(c), n) = 0
         /\ \/ Distance(Span(c), n) = 0
            \/ Distance(Span(c), n) > Tolerance /\ Distance(base, n) > Tolerance
<1>1. Distance(Span(c), n) \in Nat /\ Distance(base, n) \in Nat
  BY SpanTyped, Measures DEF Distance, Larger, Strip
<1>2. CASE Distance(Span(c), n) = 0
  BY <1>2, SmallOverlap
<1>3. CASE Distance(Span(c), n) > 0
  <2>1. Distance(Span(c), n) > Tolerance
    BY <1>1, <1>3, NothingShared, Measures DEF Dangles
  <2>2. Distance(base, n) > Tolerance
    BY <1>1, <2>1, Measures DEF Opens
  <2> QED
    BY <2>1, <2>2, SmallOverlap
<1> QED
  BY <1>1, <1>2, <1>3

\* A detection without findings (DetectTopology) has neither overlap nor sliver
\* between the suggested boundary and any neighbour.
THEOREM CleanDetections == TopologySpec => []CleanMeansClean
<1>1. ASSUME GeometryIInv, stage = "detected", findings = {}, NEW id \in Neighbours
      PROVE  LET n == around[id] IN
             /\ OverlapLength(Span(suggested), n) = 0
             /\ \/ Distance(Span(suggested), n) = 0
                \/ Distance(Span(suggested), n) > Tolerance /\ Distance(base, n) > Tolerance
  <2>1. /\ TopologyTypeOK /\ suggested \in Boundary /\ Valid(suggested)
        /\ DetectTopology(suggested) = {}
    BY <1>1 DEF GeometryIInv, TopologyTypeOK, Detected
  <2>2. /\ around[id] \in Strip /\ base \in Strip /\ Proper(around[id])
    BY <2>1, ReferencesTyped DEF TopologyTypeOK
  <2>3. ~ Overlaps(suggested, around[id]) /\ ~ Opens(suggested, around[id])
          /\ ~ Dangles(suggested, around[id])
    BY <2>1, NothingFound
  <2> QED
    BY <2>1, <2>2, <2>3, TestsMeet
<1>2. GeometryIInv => CleanMeansClean
  BY <1>1 DEF CleanMeansClean
<1> QED
  BY <1>2, GeometryIInvHolds, PTL
==============================================================================
