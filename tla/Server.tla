------------------------------- MODULE Server -------------------------------
(***************************************************************************)
(* What every request goes through, whatever its route: the session        *)
(* (AuthService, AuthMiddleware, RBACMiddleware), the connection pool      *)
(* (repository.Open, Store.Transaction) and the life of the process        *)
(* (cmd/server/main.go).  A worker is a request being served.  A statement *)
(* outside a transaction takes a connection and gives it back; a           *)
(* transaction keeps one from its first statement to its end.              *)
(***************************************************************************)
EXTENDS CadastralRules, Integers, Sequences, FiniteSets

CONSTANTS
  Users,      \* accounts
  Workers,    \* requests being served at one time
  Routes,     \* the state-changing routes in use
  Standings,  \* what the row of an account may say: [role, active]
  Idle,       \* no request in the worker
  PoolSize,   \* SetMaxOpenConns
  Reads,      \* statements of a handler before its transaction
  Writes,     \* statements of its transaction
  MaxChanges  \* bound: changes to each account's row

ASSUME RoutesAssumption == Routes \subseteq DOMAIN RouteRoles
ASSUME StandingsAssumption == Standings \subseteq [role : Roles, active : BOOLEAN]
ASSUME SizesAssumption == /\ PoolSize \in Nat \ {0} /\ MaxChanges \in Nat
                          /\ Reads \in Nat \ {0} /\ Writes \in Nat \ {0}

VARIABLES
  phase,    \* of the process
  cut,      \* the process did not wait for its requests to end
  account,  \* every row an account has had, the current one last
  tokens,   \* signed tokens that have not expired
  holding,  \* workers whose statement or transaction has a connection
  job       \* the request each worker serves

process == <<phase, cut>>
session == <<account, tokens>>
vars == <<phase, cut, account, tokens, holding, job>>

------------------------------------------------------------------------------
Token == [user : Users, role : Roles]

\* Where a request is: at a login's look-up or signature, a readiness ping, the
\* look-up of the token's account, the reads of a handler, its transaction, or
\* the second look-up of the key after a detection failed.
Stage == {"find", "sign", "ping", "parse", "read", "write", "recheck"}

\* role is the token's claim until the account is looked up and the row's from
\* then on; since is the row of the account when the request arrived.
Job == [ task : Routes \cup {"login", "ready"}, at : Stage, left : 0..(Reads + Writes),
         user : Users, role : Roles, since : 1..(MaxChanges + 1) ]

ASSUME IdleAssumption == Idle \notin Job

TypeOK ==
  /\ phase \in {"serving", "draining", "closed", "stopped"}
  /\ cut \in BOOLEAN
  /\ account \in [Users -> Seq(Standings)]
  /\ \A u \in Users : Len(account[u]) \in 1..(MaxChanges + 1)
  /\ tokens \subseteq Token
  /\ holding \subseteq Workers /\ Cardinality(holding) <= PoolSize
  /\ job \in [Workers -> Job \cup {Idle}]

Row(u) == account[u][Len(account[u])]

Busy(w) == job[w] # Idle

\* A stage that ends with the answer of the database needs a connection.
NeedsConnection(w) == Busy(w) /\ job[w].at # "sign"

At(w, stage) == Busy(w) /\ job[w].at = stage

------------------------------------------------------------------------------
Init ==
  /\ phase = "serving" /\ cut = FALSE
  /\ account \in [Users -> {<<s>> : s \in {t \in Standings : t.active}}]
  /\ tokens = {}
  /\ holding = {}
  /\ job = [w \in Workers |-> Idle]

\* While it drains, connections already accepted may still bring a request; so
\* may they, for an instant, when the wait for them was given up.
Listening == phase \in {"serving", "draining"} \/ (phase = "closed" /\ cut)

Arrive(w, task, at, u, role) ==
  /\ Listening
  /\ job[w] = Idle
  /\ job' = [job EXCEPT ![w] = [task |-> task, at |-> at, left |-> 0, user |-> u,
                                role |-> role, since |-> Len(account[u])]]
  /\ UNCHANGED <<process, session, holding>>

Login(w, u) == Arrive(w, "login", "find", u, Row(u).role)
Readiness(w) == \E u \in Users : Arrive(w, "ready", "ping", u, Row(u).role)

\* The signature and the expiry of the token hold.
Present(w, route, token) ==
  token \in tokens /\ Arrive(w, route, "parse", token.user, token.role)

\* Mutant: one connection more than the pool has.
FreeLoosely == Cardinality(holding) <= PoolSize

Free == Cardinality(holding) < PoolSize

\* A statement, or the BEGIN of a transaction, waits for a connection.
Acquire(w) ==
  /\ phase \in {"serving", "draining"}
  /\ NeedsConnection(w) /\ w \notin holding
  /\ Free
  /\ holding' = holding \cup {w}
  /\ UNCHANGED <<process, session, job>>

------------------------------------------------------------------------------
\* Mutant: a statement of a transaction goes through the pool, not through tx.
ExecutesOnSpare(w) == w \in holding /\ (job[w].at = "write" => Free)

Executes(w) == w \in holding

\* The statement is over: its connection is back and the request goes on at the
\* next stage, or ends.
Proceed(w, next) ==
  /\ holding' = holding \ {w}
  /\ job' = [job EXCEPT ![w] = next]
  /\ UNCHANGED <<process, session>>

Finish(w) == Proceed(w, Idle)

\* AuthService.Login: an active account of that name and its password.
FindUser(w) ==
  /\ At(w, "find") /\ Executes(w)
  /\ Row(job[w].user).active
  /\ Proceed(w, [job[w] EXCEPT !.at = "sign", !.role = Row(job[w].user).role])

\* No such account, a wrong password, or a fault of the database.
RefuseLogin(w) == At(w, "find") /\ Executes(w) /\ Finish(w)

SignToken(w) ==
  /\ At(w, "sign")
  /\ tokens' = tokens \cup {[user |-> job[w].user, role |-> job[w].role]}
  /\ job' = [job EXCEPT ![w] = Idle]
  /\ UNCHANGED <<process, account, holding>>

Ping(w) == At(w, "ping") /\ Executes(w) /\ Finish(w)

\* The caller of /readyz hangs up: the ping carries the request's context, the
\* only statement of the server that does.
Abandon(w) == At(w, "ping") /\ w \notin holding /\ Finish(w)

\* Mutant: the role is the one the token was issued for.
RoleFromClaim(j) == j.role

\* AuthService.Parse: the account as it is now, not as the token remembers it.
ActingRole(j) == Row(j.user).role

Admitted(j) == Row(j.user).active /\ ActingRole(j) \in RouteRoles[j.task]

\* AuthMiddleware, then RBACMiddleware, then the handler.
Authenticate(w) ==
  /\ At(w, "parse") /\ Executes(w)
  /\ Admitted(job[w])
  /\ Proceed(w, [job[w] EXCEPT !.at = "read", !.left = Reads,
                               !.role = ActingRole(job[w])])

\* The account is inactive, its role not admitted, or the look-up failed.
Unauthorized(w) == At(w, "parse") /\ Executes(w) /\ Finish(w)

Read(w) ==
  /\ At(w, "read") /\ Executes(w)
  /\ LET j == job[w] IN
       Proceed(w, IF j.left > 1 THEN [j EXCEPT !.left = j.left - 1]
                  ELSE [j EXCEPT !.at = "write", !.left = Writes])

\* A check on what was read fails: nothing to do, or an error.
RefuseRead(w) == At(w, "read") /\ Executes(w) /\ Finish(w)

\* A statement inside the transaction keeps the connection.
Write(w) ==
  /\ At(w, "write") /\ Executes(w)
  /\ job[w].left > 0
  /\ job' = [job EXCEPT ![w].left = @ - 1]
  /\ UNCHANGED <<process, session, holding>>

Commit(w) == At(w, "write") /\ Executes(w) /\ job[w].left = 0 /\ Finish(w)

\* An error rolls the transaction back and frees its connection; a detection
\* then looks its key up again.
Rollback(w) ==
  /\ At(w, "write") /\ Executes(w)
  /\ Proceed(w, IF job[w].task = "detectConflicts"
                THEN [job[w] EXCEPT !.at = "recheck", !.left = 0] ELSE Idle)

Recheck(w) == At(w, "recheck") /\ Executes(w) /\ Finish(w)

\* The database has been closed: a request that waits for a connection, or
\* wants one, fails.  A failed BEGIN of a detection leads to the second look-up,
\* which fails in its turn.
FailClosed(w) ==
  /\ phase = "closed"
  /\ NeedsConnection(w) /\ w \notin holding
  /\ Finish(w)

------------------------------------------------------------------------------
\* No handler changes an account: it is changed beside the running server.
ChangeAccount(u, s) ==
  /\ Len(account[u]) <= MaxChanges
  /\ s # Row(u)
  /\ account' = [account EXCEPT ![u] = Append(@, s)]
  /\ UNCHANGED <<process, tokens, holding, job>>

ExpireToken(t) ==
  /\ t \in tokens
  /\ tokens' = tokens \ {t}
  /\ UNCHANGED <<process, account, holding, job>>

\* SIGTERM: Shutdown stops listening and waits.
Signal ==
  /\ phase = "serving"
  /\ phase' = "draining"
  /\ UNCHANGED <<cut, session, holding, job>>

\* Mutant: the wait is for the pool, not for the requests.
PoolQuiet == holding = {}

Quiet == \A w \in Workers : ~ Busy(w)

\* Shutdown returns and the database is closed.
CloseDrained ==
  /\ phase = "draining"
  /\ Quiet
  /\ phase' = "closed"
  /\ UNCHANGED <<cut, session, holding, job>>

\* ShutdownTimeout is over first.
CloseAtDeadline ==
  /\ phase = "draining"
  /\ ~ Quiet
  /\ phase' = "closed" /\ cut' = TRUE
  /\ UNCHANGED <<session, holding, job>>

\* main returns.
Exit ==
  /\ phase = "closed"
  /\ phase' = "stopped"
  /\ UNCHANGED <<cut, session, holding, job>>

\* ListenAndServe fails: os.Exit.
ListenFails ==
  /\ phase = "serving"
  /\ phase' = "stopped" /\ cut' = TRUE
  /\ UNCHANGED <<session, holding, job>>

------------------------------------------------------------------------------
Runs == phase # "stopped"

\* What a request does once it is being served.
Step(w) ==
  \/ FindUser(w) \/ RefuseLogin(w) \/ SignToken(w) \/ Ping(w)
  \/ Authenticate(w) \/ Unauthorized(w)
  \/ Read(w) \/ RefuseRead(w) \/ Write(w) \/ Commit(w) \/ Rollback(w)
  \/ Recheck(w) \/ FailClosed(w)

Next ==
  /\ Runs
  /\ \/ \E w \in Workers : \/ \E u \in Users : Login(w, u)
                           \/ Readiness(w)
                           \/ \E r \in Routes, t \in tokens : Present(w, r, t)
                           \/ Acquire(w)
                           \/ Step(w) \/ Abandon(w)
     \/ \E u \in Users, s \in Standings : ChangeAccount(u, s)
     \/ \E t \in tokens : ExpireToken(t)
     \/ Signal \/ CloseDrained \/ CloseAtDeadline \/ Exit \/ ListenFails

Spec == Init /\ [][Next]_vars

\* Go runs every goroutine and PostgreSQL answers; the pool gives a freed
\* connection to one that waits and passes none over for ever; the deadline of
\* a shutdown comes.
FairSpec ==
  /\ Spec
  /\ \A w \in Workers : WF_vars(Runs /\ Step(w)) /\ SF_vars(Runs /\ Acquire(w))
  /\ WF_vars(CloseDrained \/ CloseAtDeadline) /\ WF_vars(Exit)

------------------------------------------------------------------------------
\* Whoever changes something has the right to do so: the role the handler acts
\* with is one the account, while active, has had at some time since the request
\* arrived, whatever the token says and whenever it was issued (AuthService.Parse).
RightsAreCurrent ==
  \A w \in Workers : (At(w, "read") \/ At(w, "write")) =>
    LET j == job[w] IN
      \E i \in j.since..Len(account[j.user]) :
        /\ account[j.user][i] = [role |-> j.role, active |-> TRUE]
        /\ j.role \in RouteRoles[j.task]

\* A process that closes its database without having given up on its requests
\* has none left: nobody is cut off by an orderly shutdown (main).
OrderlyShutdown ==
  (phase \in {"closed", "stopped"} /\ ~ cut) => \A w \in Workers : job[w] = Idle

\* No request waits for ever: however many share the pool, each is answered
\* unless the process stops, since a transaction never asks for a second
\* connection while it holds one (Store.Transaction and its closures).
EveryRequestEnds == \A w \in Workers : Busy(w) ~> (~ Busy(w) \/ phase = "stopped")
==============================================================================
