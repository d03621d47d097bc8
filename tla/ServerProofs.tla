---------------------------- MODULE ServerProofs ----------------------------
(***************************************************************************)
(* Safety of Server for every number of requests, connections, accounts    *)
(* and changes to them.                                                    *)
(***************************************************************************)
EXTENDS Server, FiniteSetTheorems, TLAPS

\* The row a request found when it arrived is one the account has had.
ArrivedInPast(w) == Busy(w) => job[w].since <= Len(account[job[w].user])

\* RightsAreCurrent of one request j, given the rows h its account has had.
Entitled(j, h) ==
  \E i \in j.since..Len(h) :
    h[i] = [role |-> j.role, active |-> TRUE] /\ j.role \in RouteRoles[j.task]

InHandler(j) == j # Idle /\ j.at \in {"read", "write"}

IInv ==
  /\ TypeOK
  /\ IsFiniteSet(holding)
  /\ \A w \in Workers : ArrivedInPast(w)
  /\ \A w \in Workers : InHandler(job[w]) => Entitled(job[w], account[job[w].user])
  /\ OrderlyShutdown

------------------------------------------------------------------------------
\* RightsAreCurrent, one request at a time.
LEMMA RightsOfEach ==
  RightsAreCurrent <=>
    \A w \in Workers : InHandler(job[w]) => Entitled(job[w], account[job[w].user])
BY DEF RightsAreCurrent, InHandler, Entitled, At, Busy

\* A connection given back or taken keeps the pool within its size.
LEMMA PoolStaysBounded ==
  ASSUME IsFiniteSet(holding), holding \subseteq Workers,
         Cardinality(holding) <= PoolSize, NEW w \in Workers
  PROVE  /\ IsFiniteSet(holding \ {w})
         /\ Cardinality(holding \ {w}) <= PoolSize
         /\ Free => /\ IsFiniteSet(holding \cup {w})
                    /\ Cardinality(holding \cup {w}) <= PoolSize
<1>1. Cardinality(holding) \in Nat
  BY FS_CardinalityType
<1>2. PoolSize \in Nat
  BY SizesAssumption
<1>3. IsFiniteSet(holding \ {w}) /\ Cardinality(holding \ {w}) <= Cardinality(holding)
  BY <1>1, FS_RemoveElement
<1>4. /\ IsFiniteSet(holding \cup {w})
      /\ Cardinality(holding \cup {w}) <= Cardinality(holding) + 1
  BY <1>1, FS_AddElement
<1>5. Cardinality(holding \ {w}) \in Nat /\ Cardinality(holding \cup {w}) \in Nat
  BY <1>3, <1>4, FS_CardinalityType
<1> QED
  BY <1>1, <1>2, <1>3, <1>4, <1>5 DEF Free

\* A request that moves on: what its next stage must satisfy.
Follows(next, w) ==
  \/ next = Idle
  \/ /\ next \in Job
     /\ next.user = job[w].user /\ next.since = job[w].since
     /\ InHandler(next) => Entitled(next, account[next.user])

LEMMA MoveKeeps ==
  ASSUME IInv, NEW w \in Workers, Busy(w), NEW next, Follows(next, w),
         job' = [job EXCEPT ![w] = next], UNCHANGED <<phase, cut, account>>,
         tokens' \subseteq Token, IsFiniteSet(holding'), holding' \subseteq Workers,
         Cardinality(holding') <= PoolSize
  PROVE  IInv'
<1>1. job' \in [Workers -> Job \cup {Idle}]
  BY DEF Follows, IInv, TypeOK
<1>2. TypeOK'
  BY <1>1 DEF IInv, TypeOK
<1>3. ASSUME NEW v \in Workers PROVE job'[v] = IF v = w THEN next ELSE job[v]
  BY DEF IInv, TypeOK
<1>4. ASSUME NEW v \in Workers PROVE ArrivedInPast(v)'
  <2>1. CASE v = w
    BY <1>3, <2>1 DEF Follows, IInv, ArrivedInPast, Busy
  <2>2. CASE v # w
    BY <1>3, <2>2 DEF IInv, ArrivedInPast, Busy
  <2> QED
    BY <2>1, <2>2
<1>5. ASSUME NEW v \in Workers, InHandler(job'[v])
      PROVE  Entitled(job'[v], account'[job'[v].user])
  <2>1. CASE v = w
    BY <1>3, <1>5, <2>1 DEF Follows, InHandler
  <2>2. CASE v # w
    BY <1>3, <1>5, <2>2 DEF IInv
  <2> QED
    BY <2>1, <2>2
<1>6. OrderlyShutdown'
  BY <1>3 DEF IInv, OrderlyShutdown, Busy
<1> QED
  BY <1>2, <1>4, <1>5, <1>6 DEF IInv

LEMMA ProceedKeeps ==
  ASSUME IInv, NEW w \in Workers, Busy(w), NEW next, Follows(next, w), Proceed(w, next)
  PROVE  IInv'
<1>1. /\ holding' = holding \ {w} /\ job' = [job EXCEPT ![w] = next]
      /\ UNCHANGED <<phase, cut, account, tokens>>
  BY DEF Proceed, process, session
<1>2. IsFiniteSet(holding') /\ holding' \subseteq Workers
      /\ Cardinality(holding') <= PoolSize
  BY <1>1, PoolStaysBounded DEF IInv, TypeOK
<1>3. tokens' \subseteq Token
  BY <1>1 DEF IInv, TypeOK
<1> QED
  BY <1>1, <1>2, <1>3, MoveKeeps

LEMMA FinishKeeps ==
  ASSUME IInv, NEW w \in Workers, Busy(w), Finish(w)
  PROVE  IInv'
BY ProceedKeeps DEF Finish, Follows

------------------------------------------------------------------------------
LEMMA InitIInv == Init => IInv
<1> SUFFICES ASSUME Init PROVE IInv
  OBVIOUS
<1>1. IsFiniteSet(holding) /\ Cardinality(holding) <= PoolSize
  BY FS_EmptySet, SizesAssumption DEF Init
<1>2. ASSUME NEW u \in Users
      PROVE  account[u] \in Seq(Standings) /\ Len(account[u]) \in 1..(MaxChanges + 1)
  <2>1. PICK s \in Standings : account[u] = <<s>>
    BY DEF Init
  <2>2. <<s>> \in Seq(Standings) /\ Len(<<s>>) = 1
    OBVIOUS
  <2> QED
    BY <2>1, <2>2, SizesAssumption
<1>3. job \in [Workers -> Job \cup {Idle}]
  BY DEF Init
<1>4. TypeOK
  BY <1>1, <1>2, <1>3 DEF Init, TypeOK
<1> QED
  BY <1>1, <1>4 DEF Init, IInv, ArrivedInPast, Busy, InHandler, OrderlyShutdown

------------------------------------------------------------------------------
\* Steps that take a connection, change an account or the process: what each
\* leaves alone is enough.
LEMMA ArriveKeeps ==
  ASSUME IInv, NEW w \in Workers, NEW task \in Routes \cup {"login", "ready"},
         NEW at \in {"find", "ping", "parse"}, NEW u \in Users, NEW role \in Roles,
         Arrive(w, task, at, u, role)
  PROVE  IInv'
<1> DEFINE new == [task |-> task, at |-> at, left |-> 0, user |-> u,
                   role |-> role, since |-> Len(account[u])]
<1>1. /\ job[w] = Idle /\ Listening /\ job' = [job EXCEPT ![w] = new]
      /\ UNCHANGED <<phase, cut, account, tokens, holding>>
  BY DEF Arrive, process, session
<1>2. new \in Job
  <2>1. Len(account[u]) \in 1..(MaxChanges + 1) /\ 0 \in 0..(Reads + Writes)
    BY SizesAssumption DEF IInv, TypeOK
  <2> QED
    BY <2>1 DEF Job, Stage
<1>3. new.user = u /\ new.since = Len(account[u]) /\ ~ InHandler(new)
  BY DEF InHandler
<1> HIDE DEF new
<1>4. ASSUME NEW v \in Workers PROVE job'[v] = IF v = w THEN new ELSE job[v]
  BY <1>1 DEF IInv, TypeOK
<1>5. TypeOK'
  BY <1>1, <1>2 DEF IInv, TypeOK
<1>6. ASSUME NEW v \in Workers PROVE ArrivedInPast(v)'
  <2>1. Len(account[u]) <= Len(account[u])
    BY DEF IInv, TypeOK
  <2>2. CASE v = w
    BY <1>1, <1>3, <1>4, <2>1, <2>2 DEF ArrivedInPast
  <2>3. CASE v # w
    BY <1>1, <1>4, <2>3 DEF IInv, ArrivedInPast, Busy
  <2> QED
    BY <2>2, <2>3
<1>7. ASSUME NEW v \in Workers, InHandler(job'[v])
      PROVE  Entitled(job'[v], account'[job'[v].user])
  BY <1>1, <1>3, <1>4, <1>7 DEF IInv
<1>8. OrderlyShutdown'
  BY <1>1 DEF Listening, OrderlyShutdown
<1> QED
  BY <1>1, <1>5, <1>6, <1>7, <1>8 DEF IInv

LEMMA AcquireKeeps ==
  ASSUME IInv, NEW w \in Workers, Acquire(w)
  PROVE  IInv'
<1>1. /\ holding' = holding \cup {w} /\ Free
      /\ UNCHANGED <<phase, cut, account, tokens, job>>
  BY DEF Acquire, process, session
<1>2. IsFiniteSet(holding') /\ holding' \subseteq Workers
      /\ Cardinality(holding') <= PoolSize
  BY <1>1, PoolStaysBounded DEF IInv, TypeOK
<1> QED
  BY <1>1, <1>2 DEF IInv, TypeOK, ArrivedInPast, Busy, OrderlyShutdown

\* A row added to an account's history takes no right away from a request that
\* had it when it arrived or since.
LEMMA ChangeKeeps ==
  ASSUME IInv, NEW u \in Users, NEW s \in Standings, ChangeAccount(u, s)
  PROVE  IInv'
<1> DEFINE h == account[u]  g == Append(account[u], s)
<1>1. /\ Len(h) <= MaxChanges /\ account' = [account EXCEPT ![u] = g]
      /\ UNCHANGED <<phase, cut, tokens, holding, job>>
  BY DEF ChangeAccount, process
<1>2. h \in Seq(Standings) /\ Len(h) \in Nat
  BY DEF IInv, TypeOK
<1>3. /\ g \in Seq(Standings) /\ Len(g) = Len(h) + 1
      /\ \A i \in 1..Len(h) : g[i] = h[i]
  BY <1>2
<1> HIDE DEF h, g
<1>4. Len(g) \in 1..(MaxChanges + 1)
  BY <1>1, <1>2, <1>3, SizesAssumption
<1>5. account' \in [Users -> Seq(Standings)]
  BY <1>1, <1>3 DEF IInv, TypeOK
<1>6. ASSUME NEW v \in Users
      PROVE  /\ Len(account[v]) \in Nat /\ Len(account'[v]) \in 1..(MaxChanges + 1)
             /\ Len(account[v]) <= Len(account'[v])
             /\ \A i \in 1..Len(account[v]) : account'[v][i] = account[v][i]
  <2>1. CASE v = u
    <3>1. account'[v] = g /\ account[v] = h
      BY <1>1, <2>1 DEF IInv, TypeOK, h
    <3> QED
      BY <1>2, <1>3, <1>4, <3>1
  <2>2. CASE v # u
    <3>1. account'[v] = account[v]
      BY <1>1, <2>2 DEF IInv, TypeOK
    <3> QED
      BY <3>1 DEF IInv, TypeOK
  <2> QED
    BY <2>1, <2>2
<1>7. TypeOK'
  BY <1>1, <1>5, <1>6 DEF IInv, TypeOK
<1>8. ASSUME NEW w \in Workers PROVE ArrivedInPast(w)'
  <2>1. CASE Busy(w)
    <3>1. job[w] \in Job
      BY <2>1 DEF IInv, TypeOK, Busy
    <3>2. job[w].user \in Users /\ job[w].since \in Nat
      BY <3>1 DEF Job
    <3>3. job[w].since <= Len(account[job[w].user])
      BY <2>1 DEF IInv, ArrivedInPast
    <3>4. Len(account'[job[w].user]) \in Nat
      BY <1>6, <3>2, SizesAssumption
    <3> QED
      BY <1>1, <1>6, <3>2, <3>3, <3>4 DEF ArrivedInPast
  <2>2. CASE ~ Busy(w)
    BY <1>1, <2>2 DEF ArrivedInPast, Busy
  <2> QED
    BY <2>1, <2>2
<1>9. ASSUME NEW w \in Workers, InHandler(job'[w])
      PROVE  Entitled(job'[w], account'[job'[w].user])
  <2> DEFINE j == job[w]
  <2>1. j \in Job /\ job'[w] = j
    BY <1>1, <1>9 DEF IInv, TypeOK, InHandler
  <2>2. j.user \in Users /\ j.since \in 1..(MaxChanges + 1)
    BY <2>1 DEF Job
  <2>3. Entitled(j, account[j.user])
    BY <1>1, <1>9 DEF IInv
  <2> HIDE DEF j
  <2>4. PICK i \in j.since..Len(account[j.user]) :
          /\ account[j.user][i] = [role |-> j.role, active |-> TRUE]
          /\ j.role \in RouteRoles[j.task]
    BY <2>3 DEF Entitled
  <2>5. /\ i \in 1..Len(account[j.user])
        /\ i \in j.since..Len(account'[j.user])
    BY <1>6, <2>2, <2>4, SizesAssumption
  <2>6. account'[j.user][i] = [role |-> j.role, active |-> TRUE]
    BY <1>6, <2>2, <2>4, <2>5
  <2> QED
    BY <2>1, <2>4, <2>5, <2>6 DEF Entitled
<1>10. OrderlyShutdown' /\ IsFiniteSet(holding')
  BY <1>1 DEF IInv, OrderlyShutdown
<1> QED
  BY <1>7, <1>8, <1>9, <1>10 DEF IInv

\* The steps of the process touch no request.
LEMMA ProcessKeeps ==
  ASSUME IInv, \/ Signal \/ CloseDrained \/ CloseAtDeadline \/ Exit \/ ListenFails
  PROVE  IInv'
<1>1. UNCHANGED <<account, tokens, holding, job>>
  BY DEF Signal, CloseDrained, CloseAtDeadline, Exit, ListenFails, session
<1>2. /\ phase' \in {"serving", "draining", "closed", "stopped"}
      /\ cut' \in BOOLEAN
  BY DEF Signal, CloseDrained, CloseAtDeadline, Exit, ListenFails, IInv, TypeOK
<1>3. TypeOK'
  BY <1>1, <1>2 DEF IInv, TypeOK
<1>4. OrderlyShutdown'
  BY <1>1 DEF Signal, CloseDrained, CloseAtDeadline, Exit, ListenFails, IInv,
              OrderlyShutdown, Quiet, Busy
<1> QED
  BY <1>1, <1>3, <1>4 DEF IInv, ArrivedInPast, Busy

\* Tokens may come and go: no property trusts one.
LEMMA TokensKeep ==
  ASSUME IInv, tokens' \subseteq Token, UNCHANGED <<phase, cut, account, holding, job>>
  PROVE  IInv'
BY DEF IInv, TypeOK, ArrivedInPast, Busy, OrderlyShutdown

------------------------------------------------------------------------------
\* What is known of a busy request.
LEMMA BusyJob ==
  ASSUME IInv, NEW w \in Workers, Busy(w)
  PROVE  /\ job[w] \in Job
         /\ job[w].user \in Users /\ job[w].since \in Nat
         /\ job[w].left \in 0..(Reads + Writes)
         /\ account[job[w].user] \in Seq(Standings)
         /\ Len(account[job[w].user]) \in 1..(MaxChanges + 1)
         /\ Row(job[w].user) \in Standings
<1>1. job[w] \in Job
  BY DEF IInv, TypeOK, Busy
<1>2. /\ job[w].user \in Users /\ job[w].since \in Nat
      /\ job[w].left \in 0..(Reads + Writes)
  BY <1>1, SizesAssumption DEF Job
<1>3. /\ account[job[w].user] \in Seq(Standings)
      /\ Len(account[job[w].user]) \in 1..(MaxChanges + 1)
  BY <1>2 DEF IInv, TypeOK
<1> QED
  BY <1>1, <1>2, <1>3, SizesAssumption DEF Row

LEMMA LoginKeeps ==
  ASSUME IInv, NEW w \in Workers, FindUser(w) \/ SignToken(w)
  PROVE  IInv'
<1>1. CASE FindUser(w)
  <2> DEFINE next == [job[w] EXCEPT !.at = "sign", !.role = Row(job[w].user).role]
  <2>1. Busy(w) /\ Proceed(w, next)
    BY <1>1 DEF FindUser, At
  <2>2. Row(job[w].user).role \in Roles
    BY <2>1, BusyJob, StandingsAssumption
  <2>3. Follows(next, w)
    BY <2>1, <2>2, BusyJob DEF Follows, Job, Stage, InHandler
  <2> QED
    BY <2>1, <2>3, ProceedKeeps
<1>2. CASE SignToken(w)
  <2>1. /\ Busy(w) /\ job' = [job EXCEPT ![w] = Idle]
        /\ tokens' = tokens \cup {[user |-> job[w].user, role |-> job[w].role]}
        /\ UNCHANGED <<phase, cut, account, holding>>
    BY <1>2 DEF SignToken, At, process
  <2>2. [user |-> job[w].user, role |-> job[w].role] \in Token
    BY <2>1, BusyJob DEF Job, Token
  <2>3. tokens' \subseteq Token /\ IsFiniteSet(holding') /\ holding' \subseteq Workers
        /\ Cardinality(holding') <= PoolSize
    BY <2>1, <2>2 DEF IInv, TypeOK
  <2> QED
    BY <2>1, <2>3, MoveKeeps DEF Follows
<1> QED
  BY <1>1, <1>2

\* The role is taken from the row the account has now, which is no earlier than
\* the one it had when the request arrived.
LEMMA AuthenticateKeeps ==
  ASSUME IInv, NEW w \in Workers, Authenticate(w)
  PROVE  IInv'
<1> DEFINE row == Row(job[w].user)
           next == [job[w] EXCEPT !.at = "read", !.left = Reads,
                                  !.role = ActingRole(job[w])]
<1>1. Busy(w) /\ Proceed(w, next)
  BY DEF Authenticate, At
<1>2. row.active /\ row.role \in RouteRoles[job[w].task] /\ row.role = ActingRole(job[w])
  BY DEF Authenticate, Admitted, ActingRole
<1>3. row \in Standings /\ row.role \in Roles /\ row.active \in BOOLEAN
      /\ row = [role |-> row.role, active |-> row.active]
  BY <1>1, BusyJob, StandingsAssumption
<1>4. next \in Job
  <2>1. Reads \in 0..(Reads + Writes)
    BY SizesAssumption
  <2> QED
    BY <1>1, <1>2, <1>3, <2>1, BusyJob DEF Job, Stage
<1>5. /\ next.user = job[w].user /\ next.since = job[w].since
      /\ next.role = row.role /\ next.task = job[w].task
  BY <1>1, <1>2, BusyJob DEF Job
<1>6. Len(account[job[w].user]) \in job[w].since..Len(account[job[w].user])
  BY <1>1, BusyJob, SizesAssumption DEF IInv, ArrivedInPast
<1>7. Entitled(next, account[next.user])
  BY <1>2, <1>3, <1>5, <1>6 DEF Entitled, Row
<1> QED
  BY <1>1, <1>4, <1>5, <1>7, ProceedKeeps DEF Follows

\* Within the handler neither the role nor the arrival of a request changes.
LEMMA HandlerKeeps ==
  ASSUME IInv, NEW w \in Workers, Read(w) \/ Write(w) \/ Rollback(w)
  PROVE  IInv'
<1> DEFINE j == job[w]
<1>1. Busy(w) /\ InHandler(j)
  BY DEF Read, Write, Rollback, At, Busy, InHandler
<1>2. j \in Job /\ j.left \in 0..(Reads + Writes) /\ Entitled(j, account[j.user])
  BY <1>1, BusyJob DEF IInv
<1>3. ASSUME NEW at \in Stage, NEW left \in 0..(Reads + Writes)
      PROVE  Follows([j EXCEPT !.at = at, !.left = left], w)
  <2> DEFINE next == [j EXCEPT !.at = at, !.left = left]
  <2>1. /\ next \in Job /\ next.user = j.user /\ next.since = j.since
        /\ next.role = j.role /\ next.task = j.task
    BY <1>2, <1>3 DEF Job
  <2>2. Entitled(next, account[next.user])
    BY <1>2, <2>1 DEF Entitled
  <2> QED
    BY <2>1, <2>2 DEF Follows
<1>4. CASE Read(w)
  <2>1. Reads \in Nat /\ Writes \in Nat /\ Writes \in 0..(Reads + Writes)
    BY SizesAssumption
  <2>2. CASE j.left > 1
    <3>1. Proceed(w, [j EXCEPT !.left = j.left - 1])
      BY <1>4, <2>2 DEF Read
    <3>2. j.left - 1 \in 0..(Reads + Writes)
      BY <1>2, <2>1, <2>2
    <3>3. j.at \in Stage /\ [j EXCEPT !.at = j.at, !.left = j.left - 1]
                               = [j EXCEPT !.left = j.left - 1]
      BY <1>2 DEF Job
    <3>4. Follows([j EXCEPT !.left = j.left - 1], w)
      BY <1>3, <3>2, <3>3
    <3> QED
      BY <1>1, <3>1, <3>4, ProceedKeeps
  <2>3. CASE ~ (j.left > 1)
    <3>1. Proceed(w, [j EXCEPT !.at = "write", !.left = Writes])
      BY <1>4, <2>3 DEF Read
    <3>2. "write" \in Stage
      BY DEF Stage
    <3>3. Follows([j EXCEPT !.at = "write", !.left = Writes], w)
      BY <1>3, <2>1, <3>2
    <3> QED
      BY <1>1, <3>1, <3>3, ProceedKeeps
  <2> QED
    BY <2>2, <2>3
<1>5. CASE Write(w)
  <2> DEFINE next == [j EXCEPT !.left = j.left - 1]
  <2>1. /\ job' = [job EXCEPT ![w] = next] /\ j.left > 0
        /\ UNCHANGED <<phase, cut, account, tokens, holding>>
    BY <1>5 DEF Write, process, session
  <2>2. j.left - 1 \in 0..(Reads + Writes)
    BY <1>2, <2>1, SizesAssumption
  <2>3. j.at \in Stage /\ [j EXCEPT !.at = j.at, !.left = j.left - 1] = next
    BY <1>2 DEF Job
  <2>4. Follows(next, w)
    BY <1>3, <2>2, <2>3
  <2>5. tokens' \subseteq Token /\ IsFiniteSet(holding') /\ holding' \subseteq Workers
        /\ Cardinality(holding') <= PoolSize
    BY <2>1 DEF IInv, TypeOK
  <2> HIDE DEF next
  <2> QED
    BY <1>1, <2>1, <2>4, <2>5, MoveKeeps
<1>6. CASE Rollback(w)
  <2>1. "recheck" \in Stage /\ 0 \in 0..(Reads + Writes)
    BY SizesAssumption DEF Stage
  <2>2. Follows([j EXCEPT !.at = "recheck", !.left = 0], w) /\ Follows(Idle, w)
    BY <1>3, <2>1 DEF Follows
  <2>3. \/ Proceed(w, [j EXCEPT !.at = "recheck", !.left = 0])
        \/ Proceed(w, Idle)
    BY <1>6 DEF Rollback
  <2> QED
    BY <1>1, <2>2, <2>3, ProceedKeeps
<1> QED
  BY <1>4, <1>5, <1>6

\* All the ways a request ends.
LEMMA EndKeeps ==
  ASSUME IInv, NEW w \in Workers,
         \/ RefuseLogin(w) \/ Ping(w) \/ Abandon(w) \/ Unauthorized(w) \/ RefuseRead(w)
         \/ Commit(w) \/ Recheck(w) \/ FailClosed(w)
  PROVE  IInv'
<1>1. Busy(w) /\ Finish(w)
  BY DEF RefuseLogin, Ping, Abandon, Unauthorized, RefuseRead, Commit, Recheck,
         FailClosed, NeedsConnection, At
<1> QED
  BY <1>1, FinishKeeps

LEMMA StepKeeps ==
  ASSUME IInv, NEW w \in Workers, Step(w) \/ Abandon(w)
  PROVE  IInv'
BY LoginKeeps, AuthenticateKeeps, HandlerKeeps, EndKeeps DEF Step

LEMMA RequestKeeps ==
  ASSUME IInv, NEW w \in Workers,
         \/ \E u \in Users : Login(w, u)
         \/ Readiness(w)
         \/ \E r \in Routes, t \in tokens : Present(w, r, t)
  PROVE  IInv'
<1>1. ASSUME NEW u \in Users PROVE Row(u).role \in Roles
  <2>1. account[u] \in Seq(Standings) /\ Len(account[u]) \in 1..(MaxChanges + 1)
    BY DEF IInv, TypeOK
  <2>2. Row(u) \in Standings
    BY <2>1, SizesAssumption DEF Row
  <2> QED
    BY <2>2, StandingsAssumption
<1>2. ASSUME NEW u \in Users, Login(w, u) PROVE IInv'
  BY <1>1, <1>2, ArriveKeeps DEF Login
<1>3. CASE Readiness(w)
  BY <1>1, <1>3, ArriveKeeps DEF Readiness
<1>4. ASSUME NEW r \in Routes, NEW t \in tokens, Present(w, r, t) PROVE IInv'
  <2>1. t.user \in Users /\ t.role \in Roles
    BY DEF IInv, TypeOK, Token
  <2>2. Arrive(w, r, "parse", t.user, t.role)
    BY <1>4 DEF Present
  <2> QED
    BY <2>1, <2>2, ArriveKeeps
<1> QED
  BY <1>2, <1>3, <1>4

LEMMA NextIInv == IInv /\ [Next]_vars => IInv'
<1> SUFFICES ASSUME IInv, [Next]_vars PROVE IInv'
  OBVIOUS
<1>1. ASSUME NEW w \in Workers,
             \/ \E u \in Users : Login(w, u)
             \/ Readiness(w)
             \/ \E r \in Routes, t \in tokens : Present(w, r, t)
             \/ Acquire(w)
             \/ Step(w) \/ Abandon(w)
      PROVE  IInv'
  BY <1>1, RequestKeeps, AcquireKeeps, StepKeeps
<1>2. ASSUME NEW u \in Users, NEW s \in Standings, ChangeAccount(u, s) PROVE IInv'
  BY <1>2, ChangeKeeps
<1>3. ASSUME NEW t \in tokens, ExpireToken(t) PROVE IInv'
  BY <1>3, TokensKeep DEF ExpireToken, process, IInv, TypeOK
<1>4. CASE Signal \/ CloseDrained \/ CloseAtDeadline \/ Exit \/ ListenFails
  BY <1>4, ProcessKeeps
<1>5. CASE UNCHANGED vars
  BY <1>5, TokensKeep DEF vars, IInv, TypeOK
<1> QED
  BY <1>1, <1>2, <1>3, <1>4, <1>5 DEF Next

LEMMA Invariance == Spec => []IInv
BY InitIInv, NextIInv, PTL DEF Spec

------------------------------------------------------------------------------
\* Requests, tokens and accounts stay typed, and the pool (repository.Open) is
\* never overdrawn.
THEOREM Typing == Spec => []TypeOK
<1>1. IInv => TypeOK
  BY DEF IInv
<1> QED
  BY <1>1, Invariance, PTL

\* No request changes anything under a role its account has not had, while
\* active, since the request arrived (AuthService.Parse, RBACMiddleware).
THEOREM CurrentRights == Spec => []RightsAreCurrent
<1>1. IInv => RightsAreCurrent
  BY RightsOfEach DEF IInv
<1> QED
  BY <1>1, Invariance, PTL

\* A database closed without a deadline passed or a listener lost finds no
\* request at work (main).
THEOREM NobodyCutOff == Spec => []OrderlyShutdown
<1>1. IInv => OrderlyShutdown
  BY DEF IInv
<1> QED
  BY <1>1, Invariance, PTL
=============================================================================
