# Verification of ParcelGraph (cadastral boundary topology resolution)

TLA+ models of the server in `src/backend`, the TLC runs that check them on small
instances, and the theorems TLAPS proves about them for every instance. Source
paths below are relative to `src/backend/internal/` unless they start with `src/`.

## 1. The system

ParcelGraph is a Go web service (Gin, GORM, PostgreSQL in production, SQLite in
the smoke setting) with a Vue client. Surveyors record parcels and observations,
propose new boundaries, and reviewers decide on them; a topology detection
compares a proposal with the parcels around it and files conflicts, which
reviewers settle, possibly by turning a computed suggestion into a new draft.

The server is stateless apart from its database and three in-memory rate
limiters. Any number of requests run at once. A handler **reads and checks outside
a transaction, then writes inside one**: the write is an `UPDATE ... WHERE id AND
version/state as read` (or an `INSERT`) followed by an audit `INSERT`. Nothing is
locked between the read and the write, and no foreign row that was checked is
checked again. This read-check-then-conditional-write pattern, repeated with small
variations in four services, is what the models are about.

### Components

| Component | State it keeps | Operations that change it | What is hard | What makes it correct | Model |
| --- | --- | --- | --- | --- | --- |
| Life cycles and permissions (`constants/`, `middleware/rbac.go`) | none | none | the same rule is written in several places | one table, obeyed by every handler | `CadastralRules` |
| Boundary proposals (`service/boundary_proposal_service.go`) | `boundary_proposals` | `CreateProposal`, `TransitionProposal` | checks on a stale copy, A-B-A through `revision -> draft`, base version checked outside the transaction | no interleaving makes an illegal move, no author reviews their own draft, the audit trail explains the row | `Proposals`, `ProposalBoard`, `ProposalsProofs` |
| Topology conflicts (`service/topology_conflict_service.go`) | `topology_conflicts` | `TransitionConflict`, `ApplyConflictSuggestion` | two ways to resolve race; Apply spans three tables | one draft per suggestion, `resolved_by` follows the trail, a conflict and its draft never name an outdated parcel the other already knew of | `Conflicts`, `Cadastre`, `CadastreProofs` |
| Detection and idempotency (same file, `DetectConflicts`) | `topology_conflicts`, `topology_detection_runs` | `DetectConflicts` | retries, concurrent duplicates, a unique index hit after rows were inserted, a commit of unknown outcome | one answer per key, no orphan conflict, 409 for misuse only | `Detection`, `IdempotentStore`, `DetectionProofs` |
| Survey observations (`service/survey_observation_service.go`) | `survey_observations` | `ImportObservation`, `TransitionObservation` | the replacement is read in a statement of its own | a replacement on the same parcel, chains that end, the version the client saw | `Observations`, `ObservationsProofs` |
| Land parcels (`service/land_parcel_service.go`) | `land_parcels` | `CreateParcel`, `UpdateParcel` | a PATCH writes every column back from its own copy | no lost edit, unique codes | `Parcels`, `BootstrapProofs` |
| Audit trail (`service/support_service.go`, `model/security_audit.go`) | `audit_logs` | one row per commit | half of a transaction surviving | the trail replays to the stored row | in each module, as `trail` |
| Rate limiting (`middleware/auth.go`) | three maps behind mutexes | `Allow` | the clock is read before the lock; one request's sweep removes other clients' windows | a bound on bursts, refusals that are earned, a map that does not grow | `RateLimiter`, `RateLimiterProofs` |
| Authentication and sessions (`service/support_service.go`) | `users`, signed tokens | `Login`, `Parse` | a token outlives a role change or a deactivation | no request runs with rights withdrawn before it began | `Server`, `ServerProofs` |
| Geometry (`geometry/geometry.go`) | none | snapping, overlay, deduplication | tolerance boundaries, findings merged by their geometry | an empty result means a clean boundary, a suggestion that comes to rest when it is applied and detected again | `Topology` on simple shapes, `DetectionProofs` |
| Server life cycle and connection pool (`cmd/server/main.go`, `repository/support_repository.go`) | open transactions, 20 connections | start, readiness, shutdown | the database is closed after the deadline while handlers may still run | an orderly shutdown cuts nobody off, no request waits for ever | `Server`, `ServerProofs` |
| Migration and seeding (`repository/support_repository.go`) | schema, five accounts | `MigrateAndSeed` | no transaction around the statements: two servers starting at once, a crash half-way, a server that serves meanwhile | a complete schema, spatial columns that follow the GeoJSON, accounts left as they are, a start that succeeds in the end | `Bootstrap`, `BootstrapProofs` |
| Configuration, request ids, logging, CORS, error envelope | none that outlives a request | | | | not modelled |
| Web client (`src/frontend/src`) | Pinia stores | fetch, create, detect, transition, apply | answers late, out of order or never; buttons that disagree with the server's rules | a button acts on the state its user saw, a refusal has a reason, one detection per press | `Client` (two pages), `ClientProofs` |

Components meet only in the database and in the `Actor` the authentication
middleware puts into a request. The account row is read again for every request,
so the role of an account may differ between two requests but not within one.

## 2. The modules

Every module has the same shape. **A worker is one request in flight**; `job[w]`
holds the handler's local variables, and a worker goes from one database statement
to the next while other workers commit in between. **A transaction is one step**,
because a conditional `UPDATE` re-evaluates its `WHERE` clause on the latest
committed row under Read Committed and the audit `INSERT` commits with it; a
transaction that fails leaves the rows alone (`Abort`, `Refuse...`). A request
refused by a check before anything is written changes nothing and is not a step. `trail` is the part of
`audit_logs` about one row: who, and what the two snapshots tell apart.

- **`CadastralRules`** - the transition tables, the review targets and the role
  list of each state-changing route.
- **`Proposals`** - `ReadParcel`/`CommitCreate` are `CreateProposal`;
  `ReadProposal`/`CommitTransition`/`RefuseTransition` are `TransitionProposal`.
  `boundaryVersion` moves by `ParcelMoves`, the effect of `UpdateParcel` seen from
  here. `RolesOf` gives the roles an account may hold at different requests.
- **`ProposalBoard`** - the abstract specification: cards pinned, advanced and
  decided upon in single indivisible steps by entitled people. `Proposals` maps its
  rows to cards (`BoardView`) and implements it.
- **`Conflicts`** - `ReadConflict`/`CommitTransition` and
  `ReadForApply`/`ReadSourceProposal`/`ReadParcel`/`CommitApply`, with the proposal
  and the parcel moving in between. `Settled` keeps the rule of the repository that
  a nil `resolved_by` leaves the column alone.
- **`Cadastre`** - the composition: `Conflicts` with the handlers its rows come from.
  `ReadBase`/`CommitProposal` are `CreateProposal`; `BeginDetection`, `ReadOwn`,
  `ReadAround` and `StoreConflict` are `DetectConflicts`, with one statement for the
  parcel and a later one for its neighbours; `NeighbourMoves` is `UpdateParcel` of a
  neighbour; `ConflictStep` is any step of `Conflicts`. It keeps, of every boundary that
  is read and filed, the version. A worker is either in `desk` or in `job`.
- **`Detection`** - `Begin`, the first look-up (`LookupHit`, `LookupMiss`), the two
  geometry reads, the transaction (`Commit`, `CommitUnheard`, `CommitUncertain`,
  `CommitDuplicate`, `CommitFails`) and the second look-up (`RecheckHit`,
  `RecheckMiss`). Geometry is abstracted to the number of findings a request yields.
  A client may repeat any call at any time and may reuse a key for another request.
- **`IdempotentStore`** - the abstract specification: a call is one indivisible
  step that performs the work, replays the filed result, or is turned away.
- **`Observations`** - `Import`, `ReadObservation`, `ReadReplacement`,
  `CommitTransition` and their refusals. Import may store any of the three states,
  as the request type allows.
- **`Parcels`** - `FindCode`/`CommitCreate` and `ReadParcel`/`CommitUpdate` with their
  refusals. `Columns` groups the columns into boundary
  and attributes. `Ahead` bounds how far beyond the stored version a PATCH may name
  a version; a client that only names versions it was shown has `Ahead = 0`.
- **`RateLimiter`** - `Arrive` reads the clock, `Admit` and `Refuse` are `Allow`
  under the lock, with the sweep; `MaxWait` is how long a request may wait for the
  lock. `admitted` lists, for each client, the times its admitted requests carry.
- **`Topology`** - what `Detection` leaves out: `Detect` is the snapping and the
  tests of a detection, with the draft's boundary against its parcel's and the
  neighbours'; `RefuseSnap` is the snap that collapses the shape or turns it over;
  `Apply` turns the suggestion into the next draft, and `round` counts how often that
  was done. Stored parcels are strips, rectangles between the same two lines. A drawn
  boundary has two upright sides, each ending at or off the lines (`Insets`), equally far
  off both: a trapezoid on its side. `Vertices` and `Feet` are what `nearestSnapTarget`
  goes through for a corner, the reference vertices and its projections on the
  reference edges; `Snapped` takes the nearest vertex within the tolerance, else the
  nearest projection, the first of equally near ones (`Preferred`), where the code keeps
  the best in two loops. A snap leads from such boundaries to such, both corners of a
  side alike, and distances, lengths and twice the areas are integers (distances are
  compared squared); the overlay library's measures are external definitions
  (`Common`, `Distance`, `OverlapArea`, `SharedLength`, ...). Findings are a set, as nothing
  depends on their order. The tolerance is at most 1000, as the request's validation
  says, and is the same at every detection of a draft and of what is made of it.
- **`Server`** - what every request goes through: `Login`, `Present` and
  `Authenticate` are the session, `Acquire` and the stages of a request the
  connection pool, `Signal`, `CloseDrained`, `CloseAtDeadline`, `Exit` and
  `ListenFails` the process. The handler between is a number of reads and a
  transaction of a number of statements. Accounts change beside the server, as no
  handler writes them. Connections already accepted may still bring a request
  while the server drains.
- **`Bootstrap`** - a start is the list `Statements`, and `at` is the statement a server
  is about to execute; one action per kind of statement, each of which may fail and end
  the process (`Exit`). `Insert` and `Edit` are the handlers of a server that serves,
  with the trigger function (`Synced`) where the trigger exists. `lapsed` remembers the
  rows edited while it did not.
- **`Client`** - one page and its store. `items` and `loading` are the store, `request`
  what is under way, `Press...` and `Load` the buttons, `Serve...`, `Refuse...` and
  `ReplayDetect` the server, whose handlers are single steps here (`Proposals` and
  `Detection` implement specifications in which they are), `Elsewhere` everyone else;
  `Arrive` is the continuation of the page's handler, `GiveUp` the timeout of
  `client.ts`, `Resend` a browser that repeats a request on a dead connection. A list
  is what the query orders: the stored rows, newest first (`Listings`).
- **`MC*`** - the concrete people, values and symmetry sets of each run.
- **`ProposalsProofs`, `CadastreProofs`, `DetectionProofs`, `ObservationsProofs`,
  `RateLimiterProofs`, `ServerProofs`, `BootstrapProofs`, `ClientProofs`** - theorems
  and proofs. Three of them are about two modules, one after the other: `CadastreProofs`
  about `Conflicts` and `Cadastre`, `DetectionProofs` about `Detection` and `Topology`,
  `BootstrapProofs` about `Bootstrap` and `Parcels`. So that both can be extended, the
  second of each pair has names of its own for its specification (`CadastreSpec`,
  `TopologySpec`, `ParcelsSpec`) and for what it is made of.

Definitions whose comment starts with "Mutant" are the plausible bugs the
properties are tested against: each property fails when the definition below the
mutant is replaced by it.

## 3. What is checked

### Runs that pass

| Run | Instance | Properties and what they show |
| --- | --- | --- |
| `proposals` | one proposal, three people (one with two possible roles), two requests in flight, up to version 7, so that a proposal goes through `revision` back to `draft` and forward again | `TrailReplays`: the audit rows chain without gap to the stored row, so no two requests acted on the same copy. `ReviewerOfRecord`: `reviewed_by` is the last reviewer in the trail and never the author. `BaseWasReal`. `ImplementsBoard`: every step of the handlers is a step of `ProposalBoard` or none |
| `conflicts` | one proposal and one conflict, three requests, the proposal, the parcel and its neighbours each moving once (`Cadastre`) | `TrailReplays`: legal edges only, whichever handler moved. `AppliedOnce`: at most one derived draft, exactly when the trail says so. `ResolverOfRecord`. `EvidenceIsRecent`: a detection may mix boundaries that never coexisted, but none that was replaced before its request came. `LineageInOrder`: from proposal to detection to derived draft the parcel's version only grows |
| `detection` | one account, two keys, two requests (two findings, none), two requests in flight, one fault, a boundary that moves once; fair | `OneAnswerPerKey`, `EveryConflictFiled` (no orphan rows, no dangling ids), and `ImplementsStore`: the handler, a step for every statement, implements the atomic store, which turns away misuse only. `EveryoneHears`: a client that repeats an unanswered call is answered |
| `observations` | three observations, two parcels, two requests, versions up to 4 | `TrailReplays`, `ReplacementOnParcel`, `ActsOnSeenVersion`: the comparison with the client's version and the conditional UPDATE leave no gap between them |
| `parcels` | two ids, one code, two values, three requests, versions up to 3 | `UniqueCodes`, `EditsSurvive`: the trail has no gap and every column shows the last request that set it |
| `topology` | a parcel and two neighbours with boundaries at five marks of a line of length 15, a draft with sides at every place of it, 0, 1 or 3 off the lines; tolerance 2, height 7 | `CleanMeansClean`: no sliver falls between the three tests. `SuggestionSettles`: the draft made from a suggestion is moved at most onto vertices or refused when detected again; the draft made from the suggestion of such a draft is neither moved nor refused nor judged otherwise |
| `server` | one account with three standings and two changes, two requests, one connection, one read and two writes each; fair | `RightsAreCurrent`: whoever writes holds the role since the request arrived, whatever the token says. `OrderlyShutdown`: nobody is cut off unless the deadline passed. `EveryRequestEnds`: a full pool is never a deadlock |
| `rate_limiter` | two clients, two requests, limit 2, window 3, a wait of up to 1, nine clock values | `BurstBound`: more than twice the limit never fits in a window less twice the wait, although late requests may count in a window opened after their time and a sweep may remove the one they would have counted in. `RefusalIsEarned`: no client is refused on account of another or of a window long gone. `MapStaysFresh` |
| `bootstrap` | two servers, two tables (one whose rows are edited), one row each, two seeds, two faults, a new database or one of before the spatial columns; fair | `SchemaComplete` and `GeometryFollows` when all servers serve, whatever was dropped and created meanwhile. `StartsKeepAccounts`. `ComesUp`: a server that is started again whenever it is down serves in the end |
| `client` | either page, three roles, two rows, two requests under way, rows of any state moving twice, one press of detect, one resend | `PageSound`: no row twice, no spinner for ever. `OneRunPerPress`. `ActsOnSeenState`: however stale the page, a button moves a row out of the state its user saw or not at all. `RefusalsAreExplained`: the buttons agree with the server's rules, but for an administrator's own proposals |

### Runs that show where code and documents part

| Run | Property | What TLC finds |
| --- | --- | --- |
| `observations_cycle` | `ChainsEnd` | two requests at once supersede two observations by each other |
| `topology_participants` | `ParticipantsNamed` | a gap to two neighbours is reported for the first only: both findings carry the candidate's boundary as geometry, and deduplication takes them for one. Boundaries begin and end at 0, 3, 8 or 11, tolerance 1 |

Seen while modelling, and left to the text: the base version of a new proposal is
compared outside the inserting transaction, so a parcel update in between leaves a
draft on a base that is already outdated (`BaseWasReal` is what remains true);
closing a conflict replaces the account that resolved it; an observation can be superseded by a
rejected one; an import may store `superseded` with no replacement; the draft made
from a suggestion claims the boundary version read at apply time rather than at
detection; the same detection input under two keys stores its conflicts twice; a
PATCH that names the version a still running PATCH is about to produce undoes that
edit (`EditsSurvive` fails with `Ahead = 1`); the `after` snapshot of a parcel
update carries the old version number; a client may be let in three times the limit
in the time of one window when requests wait for the limiter's lock: late requests fill
a window that has just been opened, a sweep or the next request ends it, and a third one
begins (`BurstBound` says in which shorter time twice the limit still holds).

A suggestion need not be where the next snap leaves it. With tolerance 1, a vertex at
(0, 0) and an edge along y = 0, the corner (0.9, -0.9) has no vertex in reach and is
projected to (0.9, 0); when the draft made of the suggestion is detected, that corner is
0.9 from the vertex and is moved there (`geometry/geometry.go:223`). So a reviewer who
applies a suggestion may get a draft whose detection suggests another boundary, finds
other conflicts or, where both sides of a short boundary now reach one vertex, is
refused. `src/README.md:110` promises the order, vertex before edge, and not that one
snap is enough. `SuggestionSettles` says that two are.

`TransitionProposal` binds `req.Version` and never compares it (`service/boundary_proposal_service.go:78`;
`TransitionObservation` does), so a page one version behind still acts, and a parcel
update that loses its version is answered 500 by way of `wrapCadastral`
(`service/land_parcel_service.go:119`), where `src/README.md:151` has 409 for a stale
version. `ActsOnSeenState` says what the first costs a user of the page: nothing in the state
moved from, as each target has one predecessor or predecessors no row passes one
after the other; the contents of a proposal do not change after creation but for its
rationale.

Two servers that start at the same time may stop each other again and again:
`AutoMigrate` of one restores the constraint the other has just dropped, and ADD
CONSTRAINT fails. A boundary edited through a serving server between DROP TRIGGER and
CREATE TRIGGER of another keeps its old spatial column, since the backfill looks for
NULL only (`lapsed`); no statement of a later start repairs it.

On the pages: the proposals store puts a created row before the list without looking
whether a list has brought it already, so it may be shown twice; an administrator is
offered the review of their own proposals, which the server always refuses; a reviewer
who applied a suggestion is the author of the draft, whose first two moves the page
offers to surveyors, analysts and administrators only; an older list that arrives late
replaces a newer one, and the first answer clears the spinner for both; `create` has
no key, so a resent one is stored twice, and a second press of detect has a key of its
own and stores the conflicts again.

### Bounds

All counters stop at a named bound in a guard (`MaxVersion`, `MaxBoundary`,
`MaxFailures`, `MaxClock`, `MaxChanges`, `MaxFaults`, `MaxText`, `MaxPresses`, `MaxResends`), which cuts histories short and removes no interleaving
before the cut. Rows do not interact except where a module says so, so one proposal
or one conflict is enough to meet every race on it; two requests make the races
between a read and a commit, and a third is there in `conflicts` because Apply, a
manual resolution and a close are three ways to move one row. Version 7 is the
first at which a proposal has been drafted again after a revision and two
transactions later reaches a state it was in before: the A-B-A that the version in
the WHERE clause is for. Detection needs a request with findings and one without,
because an empty result is stored and replayed differently. Strips wider than twice
the tolerance keep both sides of one reference from competing for a corner; the marks
0, 5, 7, 10 and 15 let references touch one after the other, lie apart by the tolerance,
by one more and by more than that, or overlap. A corner 1 off a line is projected on it
where no vertex is in reach, a corner 3 off it is out of its reach and has a side
beside it or nothing, and its side, 1 long, is shared for less than the tolerance. Two
rounds are enough to see a suggestion move on, be refused, and settle.
One connection and two requests are a
pool that is exhausted. Two tables are one whose rows change and one whose rows do
not, and two servers with two faults let each of them be interrupted between any two
statements of its own and of the other. On a page, two requests under way are what
reorders answers; a row begins in any state, so two moves of it show every pair of
consecutive states; a gis_analyst stands for surveyors, who lack the detect button
only. Two changes of an account are a demotion and its repeal. Nine clock values are
two whole windows and the start of a third, the shortest history in which a sweep and a
late request can begin a third window too early; the bound `BurstBound` gives is reached
in it.

### Symmetry, deadlock, fairness

Symmetry is used for requests in flight and row ids in runs that check safety
only; people are never interchangeable, because their roles differ. Deadlock is not
checked in runs whose life cycle ends (accepted, rejected, closed and superseded
rows cannot move and bounds stop the rest; a detection without findings is the last
step of `Topology`; a stopped server is the last of `Server`; in `Bootstrap` all servers
serve in the end, and on a page nothing is left to press once the presses and the
rows' moves are used up); it is checked for detection and the rate limiter.

Three runs assume fairness. In `detection`, weak fairness of each worker's own steps
stands for the Go scheduler and the database going on with a request that has begun;
faults are never fair. Strong fairness of a call on each slot stands for a client
that repeats a call as long as it has heard nothing: it is strong because, whenever
the client looks, all workers of the small instance may be busy. Nothing in the server retries.
In `server`, weak fairness of a request's own statements says the same; strong
fairness of `Acquire` says that the pool hands a freed connection to one that waits
and passes none over for ever (`database/sql` gives it away directly, no newcomer can
overtake); weak fairness of the shutdown is the deadline of its context. Logins,
signals, and changes of accounts are never fair.
In `bootstrap`, weak fairness of a server's next statement says that a start that has
begun goes on. That a server which is down is started again is not assumed but is a
premise of `ComesUp`, since it is the container's doing (`restart: unless-stopped`,
`src/docker-compose.yml:47`), as is the premise that the other servers stop
restarting: without it two servers may stop each other for ever. Faults and the
handlers of a serving server are never fair.

## 4. What is proved

`ProposalsProofs` proves, for every set of people, roles, parcels and proposals, any
number of requests in flight and any bounds:

- `Typing`, `AuditTrail`, `IndependentReview`, `Provenance`: `Spec => []P` for
  `TypeOK`, `TrailReplays`, `ReviewerOfRecord` and `BaseWasReal`;
- `Refinement`: `Spec => ImplementsBoard`.

The argument rests on one strengthening. The four properties are not inductive by
themselves, because a commit acts on a copy made earlier. `JobsAreChecked` says what
a request in flight can still rely on: its row exists under the same author, its own
checks (role, legal edge, authorship) passed on the copy it holds, and the base of a
draft about to be stored is a version the parcel has had. Since the UPDATE only
matches a row with the copy's version and state, the copy agrees with the row wherever the properties look, and the check made on
the copy is a check on the row. The inductive invariant is the conjunction `IInv` of
the type invariant, `JobsAreChecked` and the three properties; the refinement then
maps each commit to one move of the board and every other step to a stutter. The
assumptions are those named in `Proposals`: roles are roles, bounds are positive,
`Nobody` and `Absent` are not confused with rows.

The first half of `CadastreProofs` proves `Typing`, `AuditTrail`, `SingleApplication` and `Resolver`:
`Spec => []P` for `TypeOK`, `TrailReplays`, `AppliedOnce` and `ResolverOfRecord`, for
every set of accounts, conflicts, proposals and requests. The strengthening is again
`JobsAreChecked`: the move a request is about to make is a legal one from the state
it read. Both commits, `TransitionConflict`'s and Apply's, go through the conditional
UPDATE, so both find the conflict in the state that was read (`Commits`): a resolved
conflict has no legal edge back to a state from which it could be resolved, which is
why a second application cannot follow a first. `TrailGrows` and `HistoryGrows` say
once what one more audit row does to a trail and to its applications and
resolutions.

`RateLimiterProofs` proves `Typing` (no window counts more than the limit), `FreshMap`
(`MapStaysFresh`), `Bursts` (`BurstBound`) and `Refusals` (`RefusalIsEarned`) for every
set of clients, limit and window. One strengthening is `Timely`: the time a request
brings to the lock is at most `MaxWait` old and no sweep lies in the future. The other
is `History`, which ties the admissions of a client to the entry the map still has for it
(`Recorded`): the last `count` of them lie in that window, give or take a wait; those
before it ended before it was opened; and those a whole `Limit` further back are more
than a window, less a wait, older than the clock. So the admission 2 * `Limit` after
another is always made in a window with a whole window between (`OneMoreAdmission`),
whether it counts in the window held or opens one. The theorems need the assumption that
a request waits for the lock no longer than a window (one minute in
`cmd/server/main.go`); with a longer wait TLC finds a window that ended before the sweep
and is put back after it.

`DetectionProofs` proves `Idempotency` (`OneAnswerPerKey`), `NoOrphans`
(`EveryConflictFiled`) and `Refinement` (`ImplementsStore`) for any number of accounts,
keys, requests in flight and faults. The two invariants are inductive together: a run,
once stored, is never changed (`RunsAreKept`), a transaction appends conflicts beyond all
that are filed, and an answer is only ever made from a run that was just stored or found.
For the refinement every step that stores performs a call of the store, every answer from
a look-up replays one, and each remaining step shows the ledger as it was; `StepKinds`
sorts the fourteen actions into these kinds. `NoneAssumption` says that the mark of a
missing run is no run.

`ObservationsProofs` proves `AuditTrail` (`TrailReplays`), `Replacement`
(`ReplacementOnParcel`) and `SeenVersion` (`ActsOnSeenVersion`). `JobsAreChecked` is the
strengthening: a transition about to commit holds a copy that passed the version and edge
checks, and its replacement, read in a statement of its own, is another observation that
exists on the same parcel. That is enough although the replacement may move before the
commit, because no observation ever changes its parcel or disappears.

`ServerProofs` proves `Typing` (the pool is never overdrawn), `CurrentRights`
(`RightsAreCurrent`) and `NobodyCutOff` (`OrderlyShutdown`) for any number of requests,
connections, accounts and changes to them. To be inductive, `RightsAreCurrent` needs
`ArrivedInPast`: the row of the account a request found on arrival is one the account
has had, so the row read in `Parse` lies between the two. Most steps move one request
from a stage to the next; `MoveKeeps` says once what the next stage must satisfy.

`CadastreProofs` proves `Lineage` (`LineageInOrder`) and `Evidence`
(`EvidenceIsRecent`) of the composition. `Embedding` (`CadastreSpec => Spec`) comes
first: every step of `Cadastre` is a step of `Conflicts` or leaves its variables alone, so the
theorems about `Conflicts` hold there and their typing can be used. The
strengthening `CInv` says what the copies in flight can rely on: what a detection has read lies
between the version at its request and the present one (`DeskInOrder`), a
request of `Conflicts` works on a filed conflict, and the base it is about to store
is no older than the evidence (`JobInOrder`). All of it rests on versions that only
grow (`BoundaryGrows`), and on `UnfiledAssumption`: the mark of a conflict that is not
stored is not a version.

`BootstrapProofs` proves `Completeness` (`SchemaComplete`), `Materialization`
(`GeometryFollows`) and `AccountsKept` (`StartsKeepAccounts`) for any number of servers
that start, race and crash, any lists of tables and accounts, and without fairness. What
makes the first two inductive is that a gap in the database always has somebody who has
yet to close it: if the constraint, a trigger or a spatial value is missing, some server
is down or has not got beyond the statement that puts it there (`Behind` in
`CheckInTime`, `TriggerInTime`, `RowsInTime`). A server passes such a statement only by
executing it with success, since a failure ends the process, and whoever drops a thing
stands before its creation; when all servers serve nobody is behind. `StatementKinds`
reads off the list which statement stands where, `ServerMoves` says once what a server
that goes on must not leave behind. `ServersAssumption` (there is a server) is needed,
as without one "all serve" says nothing; names in a list are distinct
(`ListsAssumption`).

The second half of `BootstrapProofs` is about `Parcels`: `ParcelsTyping`
(`ParcelsTypeOK`), `DistinctCodes` (`UniqueCodes`) and `NoLostEdit`
(`EditsSurvive`). The strengthening `JobsAreFresh` says that the copy an update writes
back is no newer than the row, is the row if the versions agree, and is no older than the
version the PATCH names. So the UPDATE, whose WHERE clause compares that version, writes
back the row itself in the columns it did not mean to change. `NoLostEdit`
has the hypothesis `Ahead = 0`, that no PATCH names a version that is still to come; it is
true of a client that names versions it was shown, and needed: with `Ahead = 1` TLC finds
the edit that is undone.

The second half of `DetectionProofs` is about `Topology`: `GeometryTyping`
(`TopologyTypeOK`), `Settling` (`SuggestionSettles`) and `CleanDetections`
(`CleanMeansClean`), for any number of neighbours, any strips wider than twice the
tolerance, every tolerance and any `Insets` that satisfy `InsetsAssumption`. The invariant
`GeometryIInv` adds to the typing that the findings on record are those of the suggestion,
that each corner of a suggestion has landed (`BothLanded`: the next snap leaves it or takes
it to a vertex), and that the suggestion made of a suggestion has settled (`Settled`: the next
snap leaves all of it); a draft made from a suggestion keeps these. The argument is about one
corner. `NearestTarget`: of any targets there is one preferred to all others, because a set of
numbers that is not empty has a least element (`LeastNumber`, from the well-foundedness
of the naturals in the library). `OwnPlace`: where a corner's own place is among the
targets, that place is chosen, for only it is at distance zero. Hence a corner on a vertex
stays (`VertexStays`), and so does one on an edge while no vertex is in reach, as the foot
of a foot is the foot (`FootStays`); every snap ends on a vertex, on an edge or where it
began (`SnapOutcome`), so that after one a corner has landed and after two it stays
(`SnapLands`).
`TestsMeet` is the arithmetic of the three tests: an overlap too small to be reported is
shorter than the unit (`SmallOverlap`: each side, weighted with its share of the width,
is above the threshold's share, `SideOutweighs`, which is what `InsetsAssumption` asks of
the height); a boundary that is apart from a neighbour, but within the tolerance, shares
nothing with it (`NothingShared`) and so is a dangling edge; and one that is further away
is a gap if the parcel's stored boundary was not.

`ClientProofs` proves `PageSoundness` (`PageSound`), `SinglePress` (`OneRunPerPress`),
`SeenState` (`ActsOnSeenState`) and `Refusals` (`RefusalsAreExplained`) for any number of
rows, requests under way, presses, resends and time-outs. A page works from copies, and
the invariant `IInv` says what a copy is worth: its row still exists, and if it is a
conflict its state has at most moved on along the life cycle (`Known`, `Descends`).
Rows on the page, the copies requests were pressed on and the answers on their way all
carry it, and a request was pressed on a button its page offered (`Pressed`).
`KnownStays` is why a copy never loses it: whoever moves a row moves it along an edge.
For `ActsOnSeenState` (`SameState`) it says that a row which has left the state its user saw
is in none from which the pressed move is legal; for `RefusalsAreExplained` (`Explained`)
that a refusal of a button offered has no other reason than such a move, or the author.
The spinner (`SpinnerStops`) is a matter of two steps: one that takes away the list it
waits for clears it (`SpinStays`), and only a request for a list sets it (`SpinStarts`).
A detection is stored once per press because the press is its key (`FiledStep`). `Ids` is
assumed finite, so that a list has a length.

All safety properties of the passing runs are stated by a theorem. Model-checked only:

- liveness (`EveryoneHears`, `EveryRequestEnds`, `ComesUp`), which is out of the
  prover's reach, as are ENABLED, the library's induction theorems (they take an operator
  as a parameter; that a set of numbers has a least element is as far as the proofs
  go) and RECURSIVE operators;
- the two properties that the code does not have (`ChainsEnd`, `ParticipantsNamed`).

## 5. What is left out, and why

- Reads (lists, single rows, the audit page) change nothing.
- Polygon overlay works on floating-point coordinates in a library. `Detection` needs
  of it the number of findings, `Topology` its measures on strips and boundaries with
  two upright sides. Holes, self-intersections, other shapes and other directions of an
  edge are not modelled, nor is the rounding of a projection, which may leave a corner
  beside the edge it was put on.
- Validation of a request's fields, formatting, logging and the scrubbing of
  snapshots are not modelled; a request that fails validation has no effect.
- The `Retry-After` value of the limiter, and the read of `ClientIP`.
- Configuration, request ids, logging, CORS, recovery and the error envelope keep no
  state beyond a request and decide nothing the models depend on.
- A server with `DB_AUTO_MIGRATE=false` skips the statements of `Bootstrap`; on SQLite
  the constraint, the spatial columns and the triggers are skipped.
- Of the client, the parcel, observation and audit pages, login and the redirect after a
  401, the change from one page to another, and a change of role while a page is open.
  Filters and paging are left out: a list brings every row, newest first.
- PostgreSQL's isolation is modelled at Read Committed, the server's default; SQLite
  serialises writers and shows a subset of these behaviours.

## 6. Plan

What is left, with the question that makes it worth writing: the parcel and observation
pages of the client, whose requests do name a version - whether the page always has the
one its user saw.
