----------------------------- MODULE RateLimiter -----------------------------
(***************************************************************************)
(* RateLimiter of middleware/auth.go: a fixed window per client, kept in a *)
(* map behind a mutex.  RateLimitMiddleware reads the clock before Allow   *)
(* takes the lock, so requests may enter Allow with a time that is already *)
(* old, and after requests with a later time.  Every so often a request    *)
(* sweeps the windows that have ended, its own client's and all others.    *)
(***************************************************************************)
EXTENDS Integers, Sequences

CONSTANTS
  Clients,   \* scope:ClientIP, the keys of the map
  Workers,   \* goroutines serving requests
  Limit,     \* admissions per window
  Window,    \* length of a window, in ticks of the clock
  None,      \* no entry in the map, or no request in the worker
  MaxClock,  \* bound: the clock stops here
  MaxWait    \* bound: ticks between reading the clock and getting the lock

ASSUME LimitAssumption == Limit \in Nat /\ Window \in Nat \ {0}
ASSUME BoundsAssumption == MaxClock \in Nat /\ MaxWait \in 0..Window

VARIABLES
  clock,      \* the monotonic clock
  visitors,   \* the map: client -> [count, expiresAt]
  lastSweep,  \* the time of the last sweep
  waiting,    \* what each worker brings to the lock: [client, now]
  admitted    \* history: the times of a client's requests let in, in order

vars == <<clock, visitors, lastSweep, waiting, admitted>>

------------------------------------------------------------------------------
Visitor == [count : 0..Limit, expiresAt : Nat]
Request == [client : Clients, now : 0..MaxClock]

ASSUME NoneAssumption == None \notin Visitor \cup Request

TypeOK ==
  /\ clock \in 0..MaxClock
  /\ visitors \in [Clients -> Visitor \cup {None}]
  /\ lastSweep \in 0..MaxClock
  /\ waiting \in [Workers -> Request \cup {None}]
  /\ admitted \in [Clients -> Seq(0..MaxClock)]

------------------------------------------------------------------------------
\* now.After(expiresAt), strictly.
Ended(visitor, now) == now > visitor.expiresAt

SweepDue(now) == now - lastSweep > Window

\* Mutant: the sweep empties the map.
SweptClean(now) == [k \in Clients |-> IF SweepDue(now) THEN None ELSE visitors[k]]

\* Mutant: nothing is ever removed.
SweptNever(now) == visitors

\* The map after the sweep a request at this time makes, if one is due.
Swept(now) ==
  [k \in Clients |->
     IF SweepDue(now) /\ visitors[k] # None /\ Ended(visitors[k], now)
     THEN None ELSE visitors[k]]

\* Mutant: a fresh window does not start from zero.
CurrentKeepsCount(map, k, now) ==
  IF map[k] = None THEN [count |-> 1, expiresAt |-> now + Window]
  ELSE IF Ended(map[k], now) THEN [map[k] EXCEPT !.expiresAt = now + Window]
  ELSE map[k]

\* The window a request of client k counts in.
Current(map, k, now) ==
  IF map[k] = None \/ Ended(map[k], now)
  THEN [count |-> 0, expiresAt |-> now + Window] ELSE map[k]

\* Mutant: one more than the limit.
FullLate(visitor) == visitor.count > Limit

Full(visitor) == visitor.count >= Limit

------------------------------------------------------------------------------
Init ==
  /\ clock = 0
  /\ visitors = [k \in Clients |-> None]
  /\ lastSweep = 0
  /\ waiting = [w \in Workers |-> None]
  /\ admitted = [k \in Clients |-> <<>>]

\* No request waits for the lock longer than MaxWait.
Tick ==
  /\ clock < MaxClock
  /\ \A w \in Workers : waiting[w] # None => clock - waiting[w].now < MaxWait
  /\ clock' = clock + 1
  /\ UNCHANGED <<visitors, lastSweep, waiting, admitted>>

\* limiter.Allow(key, time.Now()): the clock is read, the lock is not held.
Arrive(w, k) ==
  /\ waiting[w] = None
  /\ waiting' = [waiting EXCEPT ![w] = [client |-> k, now |-> clock]]
  /\ UNCHANGED <<clock, visitors, lastSweep, admitted>>

\* What Allow does before it decides, with the lock held.
Enter(w) ==
  /\ waiting[w] # None
  /\ lastSweep' = IF SweepDue(waiting[w].now) THEN waiting[w].now ELSE lastSweep
  /\ waiting' = [waiting EXCEPT ![w] = None]
  /\ UNCHANGED clock

Admit(w) ==
  /\ Enter(w)
  /\ LET k == waiting[w].client  now == waiting[w].now
         current == Current(Swept(now), k, now) IN
       /\ ~ Full(current)
       /\ visitors' = [Swept(now) EXCEPT ![k] = [current EXCEPT !.count = @ + 1]]
       /\ admitted' = [admitted EXCEPT ![k] = Append(@, now)]

\* 429: the fresh window a refused request may have computed is not stored.
Refuse(w) ==
  /\ Enter(w)
  /\ LET k == waiting[w].client  now == waiting[w].now IN
       /\ Full(Current(Swept(now), k, now))
       /\ visitors' = Swept(now)
  /\ UNCHANGED admitted

Next ==
  \/ Tick
  \/ \E w \in Workers, k \in Clients : Arrive(w, k)
  \/ \E w \in Workers : Admit(w)
  \/ \E w \in Workers : Refuse(w)

Spec == Init /\ [][Next]_vars

------------------------------------------------------------------------------
\* However late requests get the lock, and whoever's sweep removes a window a
\* late request would still have counted in, more than 2 * Limit admissions of a
\* client never fit in a Window less twice the wait for the lock.  (The worst two
\* windows back to back allow; each end may be blurred by one wait.)
BurstBound ==
  \A k \in Clients : \A i, j \in DOMAIN admitted[k] :
    j - i >= 2 * Limit => admitted[k][j] - admitted[k][i] > Window - 2 * MaxWait

\* A refused client has used up its limit: the last Limit of its requests that
\* were let in are no older than one Window, and the wait for the lock, before
\* the refused one.
RefusalIsEarned ==
  [][\A w \in Workers : Refuse(w) =>
       LET times == admitted[waiting[w].client] IN
         /\ Len(times) >= Limit
         /\ \A i \in DOMAIN times : i > Len(times) - Limit =>
              times[i] >= waiting[w].now - Window - MaxWait]_vars

\* The map does not grow with clients long gone: after a sweep nothing is left
\* that ended before it, and a late request does not put such a window back.
MapStaysFresh ==
  \A k \in Clients : visitors[k] # None => visitors[k].expiresAt >= lastSweep
==============================================================================
