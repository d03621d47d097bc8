------------------------------- MODULE Client -------------------------------
(***************************************************************************)
(* One page of the web client, ProposalsPage.vue or ConflictsPage.vue, and *)
(* its Pinia store, against the server and everyone else who uses it.  The *)
(* page shows copies of rows; its buttons follow those copies and the role *)
(* stored at login; answers arrive in any order, late or never, and client *)
(* .ts gives up after 30 seconds whether or not the server has acted.  The *)
(* server's handlers are single steps here: Proposals, Conflicts and       *)
(* Detection say why that is enough.                                       *)
(***************************************************************************)
EXTENDS Integers, Sequences, FiniteSets, CadastralRules

CONSTANTS
  Ids,         \* row ids, numbers
  UserRoles,   \* roles of the users who log in
  Slots,       \* requests the page may have under way at one time
  Idle,        \* no request in the slot
  Absent,      \* no such row
  MaxVersion,  \* bound: rows stop moving at this version
  MaxPresses,  \* bound: detections the user starts
  MaxResends   \* bound: requests a browser repeats on a dead connection

ASSUME NumbersAssumption == Ids \subseteq Nat \ {0} /\ IsFiniteSet(Ids)
ASSUME RolesAssumption == UserRoles \subseteq Roles
ASSUME BoundsAssumption == /\ MaxVersion \in Nat \ {0}
                           /\ MaxPresses \in Nat /\ MaxResends \in Nat

VARIABLES
  page,     \* "proposals" or "conflicts"
  role,     \* of the user who is logged in
  table,    \* the rows as stored
  filed,    \* detections stored: the press they answer and the conflict found
  items,    \* the rows on the page, in order
  loading,  \* the page's spinner
  request,  \* what is under way
  presses, resends

server == <<table, filed>>
vars == <<page, role, table, filed, items, loading, request, presses, resends>>

------------------------------------------------------------------------------
States == ProposalStates \cup ConflictStates
Row == [state : States, version : 1..MaxVersion, author : {"me", "other"}]
Item == [id : Ids, row : Row]
Ops == {"list", "create", "transition", "detect", "apply"}

\* status: where the request is; waiting: the page still wants its answer.
Request == [ op : Ops, id : Ids \cup {0}, to : States \cup {"none"},
             seen : Row \cup {Absent}, press : 0..MaxPresses, waiting : BOOLEAN,
             status : {"sent", "done", "refused"}, answer : Seq(Item) ]

ASSUME MarksAssumption == Absent \notin Row /\ Idle \notin Request

TypeOK ==
  /\ page \in {"proposals", "conflicts"} /\ role \in UserRoles /\ loading \in BOOLEAN
  /\ table \in [Ids -> Row \cup {Absent}]
  /\ filed \subseteq (1..MaxPresses) \X Ids
  /\ items \in Seq(Item)
  /\ request \in [Slots -> {Idle} \cup Request]
  /\ presses \in 0..MaxPresses /\ resends \in 0..MaxResends

------------------------------------------------------------------------------
(***************************************************************************)
(* The buttons.                                                            *)
(***************************************************************************)
HasRole(roles) == role \in roles

\* Mutant: the page forgets that authors do not review their own proposals.
CanTransitionOwn(row, to) ==
  IF to \in AuthoringTargets
  THEN HasRole({"admin"}) \/ (HasRole({"surveyor", "gis_analyst"}) /\ row.author = "me")
  ELSE HasRole({"admin", "reviewer"})

\* canTransition of ProposalsPage.vue.
CanTransition(row, to) ==
  IF to \in AuthoringTargets
  THEN HasRole({"admin"}) \/ (HasRole({"surveyor", "gis_analyst"}) /\ row.author = "me")
  ELSE HasRole({"admin"}) \/ (HasRole({"reviewer"}) /\ row.author # "me")

\* The targets a row offers; a proposed resolution is applied, not resolved.
Offers(row, to) ==
  \/ /\ page = "proposals"
     /\ CanProposalTransition(row.state, to)
     /\ CanTransition(row, to)
  \/ /\ page = "conflicts"
     /\ CanConflictTransition(row.state, to) /\ to # "resolved"
     /\ HasRole(Reviewers)

OffersApply(row) ==
  page = "conflicts" /\ row.state = "resolution_proposed" /\ HasRole(Reviewers)

(***************************************************************************)
(* The server's rules, on the row as stored.                               *)
(***************************************************************************)
\* Mutant: a state a row has been through may be asked for again.
AllowsAnyState(row, to) ==
  HasRole(RouteRoles[IF page = "conflicts" THEN "transitionConflict" ELSE "transitionProposal"])

Allows(row, to) ==
  \/ /\ page = "conflicts"
     /\ CanConflictTransition(row.state, to)
     /\ HasRole(RouteRoles["transitionConflict"])
  \/ /\ page = "proposals"
     /\ CanProposalTransition(row.state, to)
     /\ HasRole(RouteRoles["transitionProposal"])
     /\ IF to \in AuthoringTargets THEN row.author = "me" \/ role = "admin"
        ELSE role \in Reviewers /\ row.author # "me"

Moved(row, to) ==
  [row EXCEPT !.state = to, !.version = IF page = "proposals" THEN @ + 1 ELSE @]

Stored(id) == [id |-> id, row |-> table[id]]
Rows == {id \in Ids : table[id] # Absent}
NextId(id) == table[id] = Absent /\ \A i \in Ids : i < id => table[i] # Absent

\* The one way to write down a set of numbers from the smallest up.
Ascending(S) == {at \in [1..Cardinality(S) -> S] :
                   \A i, j \in DOMAIN at : i < j => at[i] < at[j]}

\* The lists of both repositories; their order (updated_at, detected_at) is
\* abstracted to newest id first.
Listings == {[i \in DOMAIN at |-> Stored(at[Len(at) + 1 - i])] : at \in Ascending(Rows)}

------------------------------------------------------------------------------
FirstRows ==
  [ state : IF page = "proposals" THEN ProposalStates ELSE ConflictStates,
    version : {1}, author : IF page = "proposals" THEN {"me", "other"} ELSE {"other"} ]

Init ==
  /\ page \in {"proposals", "conflicts"}
  /\ role \in UserRoles
  /\ \/ table = [id \in Ids |-> Absent]
     \/ \E first \in FirstRows :
          table = [id \in Ids |-> IF \E i \in Ids : i < id THEN Absent ELSE first]
  /\ filed = {} /\ items = << >> /\ loading = FALSE
  /\ request = [f \in Slots |-> Idle]
  /\ presses = 0 /\ resends = 0

Sent(op) == [ op |-> op, id |-> 0, to |-> "none", seen |-> Absent, press |-> 0,
              waiting |-> TRUE, status |-> "sent", answer |-> << >> ]
Send(f, r) == request[f] = Idle /\ request' = [request EXCEPT ![f] = r]

\* load, from the button or when the page is mounted: fetch of the store.
Load(f) ==
  /\ Send(f, Sent("list"))
  /\ loading' = TRUE
  /\ UNCHANGED <<page, role, server, items, presses, resends>>

PressCreate(f) ==
  /\ page = "proposals" /\ HasRole(Authors)
  /\ Send(f, Sent("create"))
  /\ UNCHANGED <<page, role, server, items, loading, presses, resends>>

PressTransition(f, i, to) ==
  /\ Offers(items[i].row, to)
  /\ Send(f, [Sent("transition") EXCEPT !.id = items[i].id, !.to = to, !.seen = items[i].row])
  /\ UNCHANGED <<page, role, server, items, loading, presses, resends>>

PressApply(f, i) ==
  /\ OffersApply(items[i].row)
  /\ Send(f, [Sent("apply") EXCEPT !.id = items[i].id, !.to = "resolved", !.seen = items[i].row])
  /\ UNCHANGED <<page, role, server, items, loading, presses, resends>>

\* newIdempotencyKey: every press has a key of its own.
PressDetect(f) ==
  /\ page = "conflicts" /\ HasRole(Analysts)
  /\ presses < MaxPresses
  /\ presses' = presses + 1
  /\ Send(f, [Sent("detect") EXCEPT !.press = presses + 1])
  /\ UNCHANGED <<page, role, server, items, loading, resends>>

------------------------------------------------------------------------------
\* The server answers; the answer of a request given up on goes nowhere.
Answer(f, status, answer) ==
  request' = [request EXCEPT ![f] =
    IF @.waiting THEN [@ EXCEPT !.status = status, !.answer = answer] ELSE Idle]

Received(f, ops) == request[f] # Idle /\ request[f].status = "sent" /\ request[f].op \in ops

ServeList(f) ==
  /\ Received(f, {"list"})
  /\ \E list \in Listings : Answer(f, "done", list)
  /\ UNCHANGED <<page, role, server, items, loading, presses, resends>>

ServeCreate(f, id) ==
  /\ Received(f, {"create"})
  /\ NextId(id)
  /\ table' = [table EXCEPT ![id] = [state |-> "draft", version |-> 1, author |-> "me"]]
  /\ Answer(f, "done", <<[id |-> id, row |-> table'[id]]>>)
  /\ UNCHANGED <<page, role, filed, items, loading, presses, resends>>

Takes(f) == LET r == request[f] IN Allows(table[r.id], r.to)

\* TransitionProposal, TransitionConflict, ApplyConflictSuggestion.  None of
\* them compares what the page showed.
ServeMove(f) ==
  /\ Received(f, {"transition", "apply"})
  /\ LET r == request[f] IN
       /\ Takes(f)
       /\ table[r.id].version < MaxVersion
       /\ table' = [table EXCEPT ![r.id] = Moved(@, r.to)]
       /\ Answer(f, "done", <<[id |-> r.id, row |-> table'[r.id]]>>)
  /\ UNCHANGED <<page, role, filed, items, loading, presses, resends>>

RefuseMove(f) ==
  /\ Received(f, {"transition", "apply"})
  /\ ~ Takes(f)
  /\ Answer(f, "refused", << >>)
  /\ UNCHANGED <<page, role, server, items, loading, presses, resends>>

\* Mutant: the key is made anew whenever the request is sent.
KeyUsedFresh(f) == {}

\* The detection already stored for the key of this press.
KeyUsed(f) == {x \in filed : x[1] = request[f].press}

ServeDetect(f, id) ==
  /\ Received(f, {"detect"})
  /\ KeyUsed(f) = {} /\ NextId(id)
  /\ table' = [table EXCEPT ![id] = [state |-> "detected", version |-> 1, author |-> "other"]]
  /\ filed' = filed \cup {<<request[f].press, id>>}
  /\ Answer(f, "done", <<[id |-> id, row |-> table'[id]]>>)
  /\ UNCHANGED <<page, role, items, loading, presses, resends>>

ReplayDetect(f) ==
  /\ Received(f, {"detect"})
  /\ \E x \in KeyUsed(f) : Answer(f, "done", <<Stored(x[2])>>)
  /\ UNCHANGED <<page, role, server, items, loading, presses, resends>>

\* Other people, on other pages.
Elsewhere(id, to) ==
  /\ table[id] # Absent /\ table[id].version < MaxVersion
  /\ IF page = "proposals" THEN CanProposalTransition(table[id].state, to)
                           ELSE CanConflictTransition(table[id].state, to)
  /\ table' = [table EXCEPT ![id] = Moved(@, to)]
  /\ UNCHANGED <<page, role, filed, items, loading, request, presses, resends>>

------------------------------------------------------------------------------
\* Mutant: the found rows are put before the list as it is.
MergedBlindly(found, list) == {found \o list}

\* detect of the store: the found rows first, then the others.
Without(list, ids) ==
  {[i \in DOMAIN at |-> list[at[i]]] :
     at \in Ascending({i \in DOMAIN list : list[i].id \notin ids})}
Merged(found, list) ==
  {found \o others : others \in Without(list, {found[j].id : j \in DOMAIN found})}

\* replace: the copy with that id, if the page shows one.
Replaced(item, list) ==
  [i \in 1..Len(list) |-> IF list[i].id = item.id THEN item ELSE list[i]]

\* What the store and the page make of a good answer.
After(r) ==
  CASE r.op = "list"       -> {r.answer}
    [] r.op = "create"     -> {r.answer \o items}
    [] r.op = "detect"     -> Merged(r.answer, items)
    [] r.op = "transition" -> {Replaced(r.answer[1], items)}
    [] r.op = "apply"      -> {items}

\* Which handlers of the page go on with load: all but ProposalsPage's advance.
Reloads(r) == r.op \in {"create", "detect", "apply"}
                \/ (r.op = "transition" /\ page = "conflicts")

Settle(f, next) ==
  /\ request' = [request EXCEPT ![f] = IF next THEN Sent("list") ELSE Idle]
  /\ loading' = IF next THEN TRUE ELSE IF request[f].op = "list" THEN FALSE ELSE loading

Arrive(f) ==
  /\ request[f] # Idle /\ request[f].status = "done"
  /\ items' \in After(request[f])
  /\ Settle(f, Reloads(request[f]))
  /\ UNCHANGED <<page, role, server, presses, resends>>

\* An error: the handler of the page ends here; fetch still clears its spinner.
ArriveError(f) ==
  /\ request[f] # Idle /\ request[f].status = "refused"
  /\ Settle(f, FALSE)
  /\ UNCHANGED <<page, role, server, items, presses, resends>>

\* Mutant: fetch without its finally.
GiveUpSpinning(f) ==
  /\ request[f] # Idle /\ request[f].waiting
  /\ request' = [request EXCEPT ![f] =
       IF @.status = "sent" /\ @.op # "list" THEN [@ EXCEPT !.waiting = FALSE] ELSE Idle]
  /\ UNCHANGED <<page, role, server, items, loading, presses, resends>>

\* The 30 seconds of client.ts pass, or the connection fails.  A request the
\* server has not seen yet may still reach it; a list changes nothing there.
GiveUp(f) ==
  /\ request[f] # Idle /\ request[f].waiting
  /\ request' = [request EXCEPT ![f] = 
       IF @.status = "sent" /\ @.op # "list" THEN [@ EXCEPT !.waiting = FALSE] ELSE Idle]
  /\ loading' = IF request[f].op = "list" THEN FALSE ELSE loading
  /\ UNCHANGED <<page, role, server, items, presses, resends>>

Lost(f) ==
  /\ request[f] # Idle /\ ~ request[f].waiting
  /\ request' = [request EXCEPT ![f] = Idle]
  /\ UNCHANGED <<page, role, server, items, loading, presses, resends>>

\* The connection dies under an answer and the browser sends the request again.
Resend(f) ==
  /\ request[f] # Idle /\ request[f].status # "sent" /\ request[f].op # "list"
  /\ resends < MaxResends
  /\ resends' = resends + 1
  /\ request' = [request EXCEPT ![f] = [@ EXCEPT !.status = "sent", !.answer = << >>]]
  /\ UNCHANGED <<page, role, server, items, loading, presses>>

Next ==
  \/ \E f \in Slots : Load(f)
  \/ \E f \in Slots : PressCreate(f)
  \/ \E f \in Slots, i \in DOMAIN items, to \in States : PressTransition(f, i, to)
  \/ \E f \in Slots, i \in DOMAIN items : PressApply(f, i)
  \/ \E f \in Slots : PressDetect(f)
  \/ \E f \in Slots : ServeList(f)
  \/ \E f \in Slots, id \in Ids : ServeCreate(f, id)
  \/ \E f \in Slots : ServeMove(f)
  \/ \E f \in Slots : RefuseMove(f)
  \/ \E f \in Slots, id \in Ids : ServeDetect(f, id)
  \/ \E f \in Slots : ReplayDetect(f)
  \/ \E id \in Ids, to \in States : Elsewhere(id, to)
  \/ \E f \in Slots : Arrive(f)
  \/ \E f \in Slots : ArriveError(f)
  \/ \E f \in Slots : GiveUp(f)
  \/ \E f \in Slots : Lost(f)
  \/ \E f \in Slots : Resend(f)

Spec == Init /\ [][Next]_vars

------------------------------------------------------------------------------
\* A button acts on the state the page showed, however old the page is and in
\* whatever order its lists came: no request carries a version the server
\* compares, but every target a page offers is reached from one state only, or
\* from states no row passes one after the other.
ActsOnSeenState ==
  [][\A f \in Slots : ServeMove(f) => table[request[f].id].state = request[f].seen.state]_vars

\* When the server turns a button's request down, the row has moved since the
\* page read it, or an administrator tried to review a proposal of their own:
\* canTransition offers them that, authorizeProposalTransition never allows it.
RefusalsAreExplained ==
  [][\A f \in Slots : RefuseMove(f) =>
       LET r == request[f] IN
         \/ table[r.id] # r.seen
         \/ role = "admin" /\ r.seen.author = "me" /\ r.to \in ReviewTargets]_vars

\* The conflicts page shows no row twice, although an answer to detect may come
\* before or after a list that holds the same conflicts.
RowsAppearOnce ==
  page = "conflicts" => \A i, j \in DOMAIN items : i # j => items[i].id # items[j].id

\* The spinner stands for a list the page is waiting for; when none is, because
\* it came, failed or took too long, the spinner is gone.
SpinnerStops ==
  loading => \E f \in Slots :
    request[f] # Idle /\ request[f].op = "list" /\ request[f].waiting

\* The page shows what its store can show: rows once each, and a spinner that
\* ends.
PageSound == TypeOK /\ RowsAppearOnce /\ SpinnerStops

\* A press of the detect button stores at most one detection, also when its
\* request is sent twice; pressing again after a timeout is another press.
OneRunPerPress == \A x, y \in filed : x[1] = y[1] => x = y
==============================================================================
