-------------------------- MODULE RateLimiterProofs --------------------------
(***************************************************************************)
(* Proofs about RateLimiter, for every set of clients and workers, every   *)
(* limit and window, and every wait for the lock up to one window.         *)
(***************************************************************************)
EXTENDS RateLimiter, TLAPS

\* The strengthening MapStaysFresh needs: what a worker brings to the lock is
\* at most MaxWait old, and no sweep lies in the future.
Timely ==
  /\ lastSweep <= clock
  /\ \A w \in Workers : waiting[w] # None =>
       waiting[w].now <= clock /\ clock - waiting[w].now <= MaxWait

IInv == TypeOK /\ Timely /\ MapStaysFresh

\* What the map still knows of a client's admissions, given its entry.  The
\* last count of them lie in the window it holds, those before it no later
\* than its opening, give or take a wait; and whatever lies a whole Limit
\* further back, so in no window that ended last, is more than a Window old,
\* less a wait.
Recorded(times, visitor) ==
  IF visitor = None
  THEN \A i \in DOMAIN times :
         /\ times[i] < clock
         /\ i <= Len(times) - Limit => times[i] + Window - MaxWait < clock
  ELSE /\ visitor.count \in 1..Len(times)
       /\ visitor.expiresAt - Window <= clock
       /\ \A i \in DOMAIN times :
            LET before == Len(times) - visitor.count IN
              /\ i > before => /\ times[i] <= visitor.expiresAt
                              /\ times[i] >= visitor.expiresAt - Window - MaxWait
              /\ i <= before => times[i] + Window - MaxWait < visitor.expiresAt
              /\ i <= before - Limit => times[i] + Window - MaxWait < clock

\* The strengthening BurstBound and RefusalIsEarned need.
History == \A k \in Clients : Recorded(admitted[k], visitors[k])

BInv == IInv /\ History /\ BurstBound

------------------------------------------------------------------------------
\* The sweep of a request removes windows and changes none (Allow, the loop).
LEMMA SweepOnlyRemoves ==
  ASSUME NEW now, NEW k \in Clients
  PROVE  Swept(now)[k] = None \/ Swept(now)[k] = visitors[k]
BY DEF Swept

\* Whatever the sweep of a timely request leaves has not ended before it.
LEMMA SweepLeavesFresh ==
  ASSUME IInv, NEW w \in Workers, waiting[w] # None, NEW k \in Clients,
         Swept(waiting[w].now)[k] # None
  PROVE  LET last == IF SweepDue(waiting[w].now) THEN waiting[w].now ELSE lastSweep
         IN  /\ Swept(waiting[w].now)[k] = visitors[k]
             /\ visitors[k] \in Visitor
             /\ visitors[k].expiresAt >= last
<1>1. waiting[w] \in Request
  BY DEF IInv, TypeOK
<1>2. Swept(waiting[w].now)[k] = visitors[k]
  BY SweepOnlyRemoves
<1>3. visitors[k] \in Visitor /\ visitors[k] # None
  BY <1>2 DEF IInv, TypeOK
<1>4. visitors[k].expiresAt >= lastSweep
  BY <1>3 DEF IInv, MapStaysFresh
<1>5. SweepDue(waiting[w].now) => ~ Ended(visitors[k], waiting[w].now)
  BY <1>2, <1>3 DEF Swept
<1>6. CASE SweepDue(waiting[w].now)
  BY <1>1, <1>2, <1>3, <1>5, <1>6 DEF Ended, Request, Visitor
<1>7. CASE ~ SweepDue(waiting[w].now)
  BY <1>2, <1>3, <1>4, <1>7
<1> QED
  BY <1>6, <1>7

\* The window a request counts in is a full record of the map, and it never
\* ends before the sweep that request made.
LEMMA CurrentIsFresh ==
  ASSUME IInv, NEW w \in Workers, waiting[w] # None
  PROVE  LET now == waiting[w].now  k == waiting[w].client
             current == Current(Swept(now), k, now)
             last == IF SweepDue(now) THEN now ELSE lastSweep
         IN  current \in Visitor /\ current.expiresAt >= last
<1> DEFINE now == waiting[w].now
           k == waiting[w].client
           last == IF SweepDue(now) THEN now ELSE lastSweep
<1>1. now \in 0..MaxClock /\ k \in Clients
  BY DEF IInv, TypeOK, Request
<1>2. /\ clock \in Nat /\ lastSweep \in Nat /\ lastSweep <= clock
      /\ clock - now <= MaxWait /\ MaxWait \in Nat /\ MaxWait <= Window
      /\ Window \in Nat /\ Limit \in Nat
  BY LimitAssumption, BoundsAssumption DEF IInv, TypeOK, Timely
<1>3. CASE Swept(now)[k] = None \/ Ended(Swept(now)[k], now)
  <2>1. Current(Swept(now), k, now) = [count |-> 0, expiresAt |-> now + Window]
    BY <1>3 DEF Current
  <2>2. now + Window >= last
    BY <1>1, <1>2
  <2> QED
    BY <1>1, <1>2, <2>1, <2>2 DEF Visitor
<1>4. CASE ~ (Swept(now)[k] = None \/ Ended(Swept(now)[k], now))
  <2>1. Current(Swept(now), k, now) = visitors[k]
    BY <1>1, <1>4, SweepOnlyRemoves DEF Current
  <2> QED
    BY <1>1, <1>4, <2>1, SweepLeavesFresh
<1> QED
  BY <1>3, <1>4

------------------------------------------------------------------------------
LEMMA InitIInv == Init => IInv
BY LimitAssumption, BoundsAssumption, NoneAssumption
   DEF Init, IInv, TypeOK, Timely, MapStaysFresh

\* Entering the lock keeps the times in order, whatever is decided inside.
LEMMA EnterTimely ==
  ASSUME IInv, NEW w \in Workers, Enter(w)
  PROVE  Timely' /\ lastSweep' \in 0..MaxClock /\ clock' \in 0..MaxClock
         /\ waiting' \in [Workers -> Request \cup {None}]
<1>1. waiting[w] \in Request
  BY DEF IInv, TypeOK, Enter
<1>2. waiting[w].now \in 0..MaxClock /\ waiting[w].now <= clock
  BY <1>1 DEF IInv, Timely, Enter, Request
<1>3. lastSweep' <= clock'
  BY <1>2 DEF IInv, Timely, Enter
<1>4. \A v \in Workers : waiting'[v] # None => waiting'[v] = waiting[v]
  BY DEF Enter, IInv, TypeOK
<1> QED
  BY <1>2, <1>3, <1>4 DEF IInv, TypeOK, Timely, Enter

LEMMA AdmitIInv ==
  ASSUME IInv, NEW w \in Workers, Admit(w)
  PROVE  IInv'
<1> DEFINE now == waiting[w].now
           k == waiting[w].client
           current == Current(Swept(now), k, now)
           counted == [current EXCEPT !.count = @ + 1]
<1>1. waiting[w] # None /\ Enter(w)
  BY DEF Admit, Enter
<1>2. now \in 0..MaxClock /\ k \in Clients
  BY <1>1 DEF IInv, TypeOK, Request
<1>3. Timely' /\ lastSweep' \in 0..MaxClock /\ clock' \in 0..MaxClock
      /\ waiting' \in [Workers -> Request \cup {None}]
  BY <1>1, EnterTimely
<1>4. current \in Visitor /\ current.expiresAt >= lastSweep'
  BY <1>1, CurrentIsFresh DEF Enter
<1>5. counted \in Visitor /\ counted.expiresAt = current.expiresAt
  <2>1. current.count < Limit
    BY <1>4, LimitAssumption DEF Admit, Full, Visitor
  <2> QED
    BY <1>4, <2>1, LimitAssumption DEF Visitor
<1>6. visitors' = [Swept(now) EXCEPT ![k] = counted]
      /\ admitted' = [admitted EXCEPT ![k] = Append(@, now)]
  BY DEF Admit
<1>7. \A j \in Clients : visitors'[j] = IF j = k THEN counted ELSE Swept(now)[j]
  BY <1>2, <1>6 DEF Swept
<1>8. \A j \in Clients : visitors'[j] # None =>
        visitors'[j] \in Visitor /\ visitors'[j].expiresAt >= lastSweep'
  <2> SUFFICES ASSUME NEW j \in Clients, visitors'[j] # None
               PROVE  visitors'[j] \in Visitor /\ visitors'[j].expiresAt >= lastSweep'
    OBVIOUS
  <2>1. CASE j = k
    BY <1>4, <1>5, <1>7, <2>1
  <2>2. CASE j # k
    BY <1>1, <1>7, <2>2, SweepLeavesFresh DEF Enter
  <2> QED
    BY <2>1, <2>2
<1>9. visitors' \in [Clients -> Visitor \cup {None}]
  <2>1. DOMAIN visitors' = Clients /\ visitors' = [j \in Clients |-> visitors'[j]]
    BY <1>6 DEF Swept
  <2> QED
    BY <1>8, <2>1
<1>10. admitted' \in [Clients -> Seq(0..MaxClock)]
  <2>1. admitted \in [Clients -> Seq(0..MaxClock)]
    BY DEF IInv, TypeOK
  <2>2. Append(admitted[k], now) \in Seq(0..MaxClock)
    BY <1>2, <2>1
  <2> QED
    BY <1>6, <2>1, <2>2
<1> QED
  BY <1>3, <1>8, <1>9, <1>10 DEF IInv, TypeOK, MapStaysFresh

LEMMA RefuseIInv ==
  ASSUME IInv, NEW w \in Workers, Refuse(w)
  PROVE  IInv'
<1>1. waiting[w] # None /\ Enter(w) /\ visitors' = Swept(waiting[w].now)
      /\ admitted' = admitted
  BY DEF Refuse, Enter
<1>2. Timely' /\ lastSweep' \in 0..MaxClock /\ clock' \in 0..MaxClock
      /\ waiting' \in [Workers -> Request \cup {None}]
  BY <1>1, EnterTimely
<1>3. \A j \in Clients : visitors'[j] # None =>
        visitors'[j] \in Visitor /\ visitors'[j].expiresAt >= lastSweep'
  BY <1>1, SweepLeavesFresh DEF Enter
<1>4. visitors' \in [Clients -> Visitor \cup {None}]
  <2>1. DOMAIN visitors' = Clients /\ visitors' = [j \in Clients |-> visitors'[j]]
    BY <1>1 DEF Swept
  <2> QED
    BY <1>3, <2>1
<1> QED
  BY <1>1, <1>2, <1>3, <1>4 DEF IInv, TypeOK, MapStaysFresh

LEMMA NextIInv == IInv /\ [Next]_vars => IInv'
<1> SUFFICES ASSUME IInv, [Next]_vars PROVE IInv'
  OBVIOUS
<1>1. CASE Tick
  <2>1. clock' = clock + 1 /\ clock \in 0..MaxClock /\ clock < MaxClock
    BY <1>1 DEF Tick, IInv, TypeOK
  <2>2. clock' \in 0..MaxClock
    BY <2>1, BoundsAssumption
  <2>3. TypeOK' /\ MapStaysFresh'
    BY <1>1, <2>2 DEF Tick, IInv, TypeOK, MapStaysFresh
  <2>4. lastSweep' <= clock'
    BY <1>1, <2>1 DEF Tick, IInv, TypeOK, Timely
  <2>5. ASSUME NEW v \in Workers, waiting'[v] # None
        PROVE  waiting'[v].now <= clock' /\ clock' - waiting'[v].now <= MaxWait
    <3>1. waiting'[v] = waiting[v] /\ clock - waiting[v].now < MaxWait
      BY <1>1, <2>5 DEF Tick
    <3>2. waiting[v].now \in 0..MaxClock /\ waiting[v].now <= clock
      BY <2>5, <3>1 DEF IInv, TypeOK, Timely, Request
    <3> QED
      BY <2>1, <3>1, <3>2, BoundsAssumption
  <2> QED
    BY <2>3, <2>4, <2>5 DEF IInv, Timely
<1>2. ASSUME NEW w \in Workers, NEW k \in Clients, Arrive(w, k) PROVE IInv'
  <2>1. [client |-> k, now |-> clock] \in Request
    BY DEF IInv, TypeOK, Request
  <2>2. \A v \in Workers : waiting'[v] = IF v = w THEN [client |-> k, now |-> clock]
                                       ELSE waiting[v]
    BY <1>2 DEF Arrive, IInv, TypeOK
  <2>3. TypeOK' /\ MapStaysFresh'
    BY <1>2, <2>1 DEF Arrive, IInv, TypeOK, MapStaysFresh
  <2>4. Timely'
    BY <1>2, <2>2, BoundsAssumption DEF Arrive, IInv, TypeOK, Timely
  <2> QED
    BY <2>3, <2>4 DEF IInv
<1>3. ASSUME NEW w \in Workers, Admit(w) PROVE IInv'
  BY <1>3, AdmitIInv
<1>4. ASSUME NEW w \in Workers, Refuse(w) PROVE IInv'
  BY <1>4, RefuseIInv
<1>5. CASE UNCHANGED vars
  BY <1>5 DEF vars, IInv, TypeOK, Timely, MapStaysFresh
<1> QED
  BY <1>1, <1>2, <1>3, <1>4, <1>5 DEF Next

------------------------------------------------------------------------------
LEMMA TimesOfClient ==
  ASSUME IInv, NEW k \in Clients
  PROVE  /\ admitted[k] \in Seq(0..MaxClock)
         /\ Len(admitted[k]) \in Nat
         /\ DOMAIN admitted[k] = 1..Len(admitted[k])
         /\ \A i \in DOMAIN admitted[k] : i \in Nat /\ admitted[k][i] \in Nat
<1>1. admitted[k] \in Seq(0..MaxClock)
  BY DEF IInv, TypeOK
<1>2. ASSUME NEW S, NEW times \in Seq(S), NEW i \in DOMAIN times
      PROVE  i \in Nat /\ times[i] \in S
  BY <1>2
<1>3. Len(admitted[k]) \in Nat /\ DOMAIN admitted[k] = 1..Len(admitted[k])
  BY <1>1
<1>4. \A i \in DOMAIN admitted[k] : i \in Nat /\ admitted[k][i] \in 0..MaxClock
  BY <1>1, <1>2
<1> QED
  BY <1>1, <1>3, <1>4

\* A sweep takes the window of a client away only when it has ended, and then
\* its admissions are all in the past (Allow, the loop).
LEMMA SweepKeepsHistory ==
  ASSUME BInv, NEW w \in Workers, waiting[w] # None, NEW k \in Clients
  PROVE  Recorded(admitted[k], Swept(waiting[w].now)[k])
<1> DEFINE now == waiting[w].now
           times == admitted[k]
           visitor == visitors[k]
<1>1. now \in Nat /\ now <= clock /\ clock \in Nat
  BY DEF BInv, IInv, TypeOK, Timely, Request
<1>2. Recorded(times, visitor)
  BY DEF BInv, History
<1>3. CASE Swept(now)[k] = visitor
  BY <1>2, <1>3
<1>4. CASE Swept(now)[k] # visitor
  <2>1. Swept(now)[k] = None /\ visitor # None /\ Ended(visitor, now)
    BY <1>4 DEF Swept
  <2>2. visitor \in Visitor
    BY <2>1 DEF BInv, IInv, TypeOK
  <2>3. /\ visitor.expiresAt \in Nat /\ visitor.expiresAt < clock
        /\ visitor.count \in Nat /\ visitor.count <= Limit
    BY <1>1, <2>1, <2>2, LimitAssumption DEF Ended, Visitor
  <2> SUFFICES ASSUME NEW i \in DOMAIN times
               PROVE  /\ times[i] < clock
                      /\ i <= Len(times) - Limit => times[i] + Window - MaxWait < clock
    BY <2>1 DEF Recorded
  <2>4. i \in Nat /\ times[i] \in Nat /\ Len(times) \in Nat
    BY TimesOfClient DEF BInv
  <2>5. /\ i > Len(times) - visitor.count => times[i] <= visitor.expiresAt
        /\ i <= Len(times) - visitor.count =>
             times[i] + Window - MaxWait < visitor.expiresAt
    BY <1>2, <2>1 DEF Recorded
  <2> HIDE DEF now, times, visitor
  <2> QED
    BY <1>1, <2>3, <2>4, <2>5, LimitAssumption, BoundsAssumption
<1> QED
  BY <1>3, <1>4

\* One more admission counts in the window the client holds, or opens one; in
\* either case it comes late enough after the one 2 * Limit before it.
LEMMA OneMoreAdmission ==
  ASSUME BInv, NEW w \in Workers, waiting[w] # None,
         ~ Full(Current(Swept(waiting[w].now), waiting[w].client, waiting[w].now))
  PROVE  LET now == waiting[w].now  k == waiting[w].client  times == admitted[k]
             current == Current(Swept(now), k, now)
         IN  /\ Recorded(Append(times, now), [current EXCEPT !.count = @ + 1])
             /\ \A i \in DOMAIN times :
                  i <= Len(times) + 1 - 2 * Limit =>
                    now - times[i] > Window - 2 * MaxWait
<1> DEFINE now == waiting[w].now
           k == waiting[w].client
           times == admitted[k]
           held == Swept(now)[k]
           current == Current(Swept(now), k, now)
           counted == [current EXCEPT !.count = @ + 1]
           longer == Append(times, now)
<1>1. /\ k \in Clients /\ now \in Nat /\ clock \in Nat
      /\ now <= clock /\ clock - now <= MaxWait
  BY DEF BInv, IInv, TypeOK, Timely, Request
<1>2. Recorded(times, held)
  BY <1>1, SweepKeepsHistory
<1>3. current \in Visitor
  BY CurrentIsFresh DEF BInv
<1>4. /\ current.count \in Nat /\ current.count < Limit /\ current.expiresAt \in Nat
      /\ counted.count = current.count + 1
      /\ counted.expiresAt = current.expiresAt
      /\ counted # None
  <2>1. current.count < Limit
    BY <1>3, LimitAssumption DEF Full, Visitor
  <2>2. counted \in Visitor
    BY <1>3, <2>1, LimitAssumption DEF Visitor
  <2> QED
    BY <1>3, <2>1, <2>2, NoneAssumption DEF Visitor
<1>5. /\ times \in Seq(0..MaxClock) /\ \A i \in DOMAIN times : times[i] \in Nat
      /\ now \in 0..MaxClock
  BY <1>1, TimesOfClient DEF BInv, IInv, TypeOK, Request
<1>6. /\ Len(times) \in Nat /\ DOMAIN times = 1..Len(times)
      /\ Len(longer) = Len(times) + 1 /\ DOMAIN longer = 1..(Len(times) + 1)
      /\ longer[Len(times) + 1] = now
      /\ \A i \in DOMAIN times : longer[i] = times[i] /\ times[i] \in Nat
  BY <1>1, <1>5
<1>7. /\ Limit \in Nat /\ Window \in Nat /\ MaxWait \in Nat /\ MaxWait <= Window
  BY LimitAssumption, BoundsAssumption
<1>8. CASE held = None \/ Ended(held, now)
  \* The window opens with this request.
  <2>1. current.count = 0 /\ current.expiresAt = now + Window
    BY <1>8 DEF Current
  <2>2. ASSUME NEW i \in DOMAIN times
        PROVE  /\ times[i] < clock
               /\ i <= Len(times) - Limit => times[i] + Window - MaxWait < clock
    <3>1. CASE held = None
      BY <1>2, <3>1 DEF Recorded
    <3>2. CASE held # None
      <4>1. held \in Visitor /\ Ended(held, now)
        BY <1>1, <1>8, <3>2, SweepOnlyRemoves DEF BInv, IInv, TypeOK
      <4>2. /\ held.expiresAt \in Nat /\ held.expiresAt < clock
            /\ held.count \in Nat /\ held.count <= Limit
        BY <1>1, <1>7, <4>1 DEF Ended, Visitor
      <4>3. /\ i > Len(times) - held.count => times[i] <= held.expiresAt
            /\ i <= Len(times) - held.count =>
                 times[i] + Window - MaxWait < held.expiresAt
        BY <1>2, <3>2 DEF Recorded
      <4>4. i \in Nat /\ times[i] \in Nat
        BY <1>6
      <4> HIDE DEF held, times, now
      <4> QED
        BY <1>1, <1>6, <1>7, <4>2, <4>3, <4>4
    <3> QED
      BY <3>1, <3>2
  <2>3. ASSUME NEW i \in DOMAIN longer
        PROVE  LET before == Len(longer) - counted.count IN
              /\ i > before => /\ longer[i] <= counted.expiresAt
                              /\ longer[i] >= counted.expiresAt - Window - MaxWait
              /\ i <= before => longer[i] + Window - MaxWait < counted.expiresAt
              /\ i <= before - Limit => longer[i] + Window - MaxWait < clock
    <3>1. counted.count = 1 /\ counted.expiresAt = now + Window
      BY <1>4, <2>1
    <3>2. i \in Nat /\ i >= 1 /\ i <= Len(times) + 1
      BY <1>6
    <3>3. CASE i = Len(times) + 1
      <4>1. longer[i] = now
        BY <1>6, <3>3
      <4> HIDE DEF longer, counted, times, now
      <4> QED
        BY <1>1, <1>6, <1>7, <3>1, <3>3, <4>1
    <3>4. CASE i <= Len(times)
      <4>1. i \in DOMAIN times
        BY <1>6, <3>2, <3>4
      <4>2. longer[i] = times[i] /\ times[i] \in Nat
        BY <1>6, <4>1
      <4>3. /\ times[i] < clock
            /\ i <= Len(times) - Limit => times[i] + Window - MaxWait < clock
        BY <2>2, <4>1
      <4> HIDE DEF longer, counted, times, now
      <4> QED
        BY <1>1, <1>6, <1>7, <3>1, <3>2, <3>4, <4>2, <4>3
    <3> QED
      <4> HIDE DEF longer, counted, times, now
      <4> QED
        BY <1>6, <3>2, <3>3, <3>4
  <2>4. Recorded(longer, counted)
    <3>1. counted.count \in 1..Len(longer) /\ counted.expiresAt - Window <= clock
      <4> HIDE DEF longer, counted, times, now, current
      <4> QED
        BY <1>1, <1>4, <1>6, <1>7, <2>1
    <3> HIDE DEF longer, counted
    <3> QED
      BY <1>4, <2>3, <3>1 DEF Recorded
  <2>5. ASSUME NEW i \in DOMAIN times, i <= Len(times) + 1 - 2 * Limit
        PROVE  now - times[i] > Window - 2 * MaxWait
    <3>1. /\ i \in Nat /\ times[i] \in Nat
          /\ i <= Len(times) - Limit => times[i] + Window - MaxWait < clock
      BY <1>6, <2>2
    <3>2. Limit >= 1
      <4> HIDE DEF current
      <4> QED
        BY <1>4, <1>7
    <3> HIDE DEF times, now
    <3> QED
      BY <1>1, <1>6, <1>7, <2>5, <3>1, <3>2
  <2> QED
    BY <2>4, <2>5
<1>9. CASE held # None /\ ~ Ended(held, now)
  \* It counts in the window held, which may be one opened after its time.
  <2>1. current = held
    BY <1>9 DEF Current
  <2>2. /\ held.count \in 1..Len(times)
        /\ held.expiresAt - Window <= clock
        /\ \A i \in DOMAIN times :
             LET before == Len(times) - held.count IN
               /\ i > before => /\ times[i] <= held.expiresAt
                               /\ times[i] >= held.expiresAt - Window - MaxWait
               /\ i <= before => times[i] + Window - MaxWait < held.expiresAt
               /\ i <= before - Limit => times[i] + Window - MaxWait < clock
    BY <1>2, <1>9 DEF Recorded
  <2>3. /\ held.count \in Nat /\ held.count < Limit /\ held.expiresAt \in Nat
        /\ counted.count = held.count + 1 /\ counted.expiresAt = held.expiresAt
        /\ now <= held.expiresAt
    <3>1. held.count \in Nat /\ held.count < Limit /\ held.expiresAt \in Nat
          /\ counted.count = held.count + 1 /\ counted.expiresAt = held.expiresAt
      BY <1>4, <2>1
    <3>2. now <= held.expiresAt
      BY <1>1, <1>9, <3>1 DEF Ended
    <3> QED
      BY <3>1, <3>2
  <2>4. ASSUME NEW i \in DOMAIN longer
        PROVE  LET before == Len(longer) - counted.count IN
              /\ i > before => /\ longer[i] <= counted.expiresAt
                              /\ longer[i] >= counted.expiresAt - Window - MaxWait
              /\ i <= before => longer[i] + Window - MaxWait < counted.expiresAt
              /\ i <= before - Limit => longer[i] + Window - MaxWait < clock
    <3>1. i \in Nat /\ i >= 1 /\ i <= Len(times) + 1
      BY <1>6
    <3>2. CASE i = Len(times) + 1
      <4>1. longer[i] = now
        BY <1>6, <3>2
      <4>2. held.count >= 1 /\ held.expiresAt - Window <= clock
        BY <2>2
      <4>3. Len(longer) = Len(times) + 1 /\ Len(times) \in Nat
        BY <1>6
      <4> HIDE DEF longer, counted, times, now, held
      <4>4. i > Len(longer) - counted.count
        BY <2>3, <3>2, <4>2, <4>3
      <4>5. now <= counted.expiresAt /\ now >= counted.expiresAt - Window - MaxWait
        BY <1>1, <1>7, <2>3, <4>2
      <4>6. Len(longer) - counted.count \in Int
        BY <2>3, <4>3
      <4> QED
        BY <1>7, <3>1, <4>1, <4>3, <4>4, <4>5, <4>6
    <3>3. CASE i <= Len(times)
      <4>1. i \in DOMAIN times
        BY <1>6, <3>1, <3>3
      <4>2. longer[i] = times[i] /\ times[i] \in Nat
        BY <1>6, <4>1
      <4>3. LET before == Len(times) - held.count IN
              /\ i > before => /\ times[i] <= held.expiresAt
                              /\ times[i] >= held.expiresAt - Window - MaxWait
              /\ i <= before => times[i] + Window - MaxWait < held.expiresAt
              /\ i <= before - Limit => times[i] + Window - MaxWait < clock
        BY <2>2, <4>1
      <4>4. Len(longer) - counted.count = Len(times) - held.count
        <5>1. /\ Len(longer) = Len(times) + 1 /\ Len(times) \in Nat
              /\ counted.count = held.count + 1 /\ held.count \in Nat
          BY <1>6, <2>3
        <5> HIDE DEF longer, counted, times, held
        <5> QED
          BY <5>1
      <4>5. counted.expiresAt = held.expiresAt
        BY <2>3
      <4> HIDE DEF longer, counted, times, now, held
      <4> QED
        BY <4>2, <4>3, <4>4, <4>5
    <3> QED
      <4> HIDE DEF longer, counted, times, now, held
      <4> QED
        BY <1>6, <3>1, <3>2, <3>3
  <2>5. Recorded(longer, counted)
    <3>1. counted.count \in 1..Len(longer) /\ counted.expiresAt - Window <= clock
      <4>1. /\ Len(longer) = Len(times) + 1 /\ Len(times) \in Nat
            /\ held.count \in 1..Len(times) /\ counted.count = held.count + 1
        BY <1>6, <2>2, <2>3
      <4>2. counted.expiresAt = held.expiresAt /\ held.expiresAt - Window <= clock
        BY <2>2, <2>3
      <4> HIDE DEF longer, counted, times, now, held
      <4> QED
        BY <4>1, <4>2
    <3> HIDE DEF longer, counted
    <3> QED
      BY <1>4, <2>4, <3>1 DEF Recorded
  <2>6. ASSUME NEW i \in DOMAIN times, i <= Len(times) + 1 - 2 * Limit
        PROVE  now - times[i] > Window - 2 * MaxWait
    <3>1. /\ i \in Nat /\ times[i] \in Nat
          /\ i <= Len(times) - held.count - Limit => times[i] + Window - MaxWait < clock
      BY <1>6, <2>2
    <3>2. i <= Len(times) - held.count - Limit
      <4> HIDE DEF times, held
      <4> QED
        BY <1>6, <1>7, <2>3, <2>6, <3>1
    <3> HIDE DEF times, now, held
    <3> QED
      BY <1>1, <1>7, <3>1, <3>2
  <2> QED
    BY <2>5, <2>6
<1> QED
  BY <1>8, <1>9

LEMMA InitBInv == Init => BInv
<1> SUFFICES ASSUME Init PROVE BInv
  OBVIOUS
<1>1. \A k \in Clients : admitted[k] = <<>> /\ visitors[k] = None
  BY DEF Init
<1>2. History /\ BurstBound
  BY <1>1 DEF History, Recorded, BurstBound
<1> QED
  BY <1>2, InitIInv DEF BInv

LEMMA AdmitBInv ==
  ASSUME BInv, NEW w \in Workers, Admit(w)
  PROVE  BInv'
<1> DEFINE now == waiting[w].now
           k == waiting[w].client
           times == admitted[k]
           counted == [Current(Swept(now), k, now) EXCEPT !.count = @ + 1]
<1>1. waiting[w] # None /\ clock' = clock
      /\ ~ Full(Current(Swept(now), k, now))
  BY DEF Admit, Enter
<1>2. k \in Clients /\ now \in 0..MaxClock
  BY <1>1 DEF BInv, IInv, TypeOK, Request
<1>3. admitted \in [Clients -> Seq(0..MaxClock)] /\ DOMAIN Swept(now) = Clients
  BY DEF BInv, IInv, TypeOK, Swept
<1>4. /\ visitors'[k] = counted /\ admitted'[k] = Append(times, now)
      /\ \A j \in Clients : j # k =>
           visitors'[j] = Swept(now)[j] /\ admitted'[j] = admitted[j]
  BY <1>2, <1>3 DEF Admit
<1>5. /\ Recorded(Append(times, now), counted)
      /\ \A i \in DOMAIN times : i <= Len(times) + 1 - 2 * Limit =>
           now - times[i] > Window - 2 * MaxWait
  BY <1>1, OneMoreAdmission
<1>6. History'
  <2> SUFFICES ASSUME NEW j \in Clients PROVE Recorded(admitted[j], visitors[j])'
    BY DEF History
  <2>1. CASE j = k
    BY <1>1, <1>4, <1>5, <2>1 DEF Recorded
  <2>2. CASE j # k
    <3>1. Recorded(admitted[j], Swept(now)[j])
      BY <1>1, SweepKeepsHistory
    <3> QED
      BY <1>1, <1>4, <2>2, <3>1 DEF Recorded
  <2> QED
    BY <2>1, <2>2
<1>7. BurstBound'
  <2> SUFFICES ASSUME NEW c \in Clients, NEW i \in DOMAIN admitted'[c],
                      NEW j \in DOMAIN admitted'[c], j - i >= 2 * Limit
               PROVE  admitted'[c][j] - admitted'[c][i] > Window - 2 * MaxWait
    BY DEF BurstBound
  <2>1. CASE c # k
    BY <1>4, <2>1 DEF BInv, BurstBound
  <2>2. CASE c = k
    <3>1. times \in Seq(0..MaxClock)
      BY <1>2, <1>3
    <3>2. /\ Len(times) \in Nat /\ DOMAIN times = 1..Len(times)
          /\ DOMAIN admitted'[k] = 1..(Len(times) + 1)
          /\ admitted'[k][Len(times) + 1] = now
          /\ \A n \in DOMAIN times : admitted'[k][n] = times[n]
      BY <1>2, <1>4, <3>1
    <3>3. i \in 1..(Len(times) + 1) /\ j \in 1..(Len(times) + 1) /\ Limit \in Nat
      BY <2>2, <3>2, LimitAssumption
    <3>4. CASE j <= Len(times)
      <4>1. i \in DOMAIN times /\ j \in DOMAIN times
        BY <3>2, <3>3, <3>4
      <4> QED
        BY <1>2, <2>2, <3>2, <4>1 DEF BInv, BurstBound
    <3>5. CASE j = Len(times) + 1 /\ i # j
      <4>1. i \in 1..Len(times) /\ i <= Len(times) + 1 - 2 * Limit
        <5>1. Len(times) \in Nat
          BY <3>2
        <5> HIDE DEF times
        <5> QED
          BY <3>3, <3>5, <5>1
      <4> QED
        BY <1>5, <2>2, <3>2, <3>5, <4>1
    <3>6. CASE j = Len(times) + 1 /\ i = j
      \* Nothing is admitted when the limit is zero.
      <4>1. Limit = 0
        BY <3>3, <3>6
      <4>2. Current(Swept(now), k, now) \in Visitor
        BY <1>1, CurrentIsFresh DEF BInv
      <4> QED
        BY <1>1, <4>1, <4>2 DEF Full, Visitor
    <3> QED
      BY <3>2, <3>3, <3>4, <3>5, <3>6
  <2> QED
    BY <2>1, <2>2
<1> QED
  BY <1>6, <1>7, AdmitIInv DEF BInv

\* Time only makes admissions older.
LEMMA TickKeepsHistory ==
  ASSUME BInv, Tick
  PROVE  History'
<1>1. clock \in Nat /\ clock' = clock + 1 /\ UNCHANGED <<visitors, admitted>>
  BY DEF BInv, IInv, TypeOK, Tick
<1> SUFFICES ASSUME NEW k \in Clients PROVE Recorded(admitted[k], visitors[k])'
  BY DEF History
<1>2. Recorded(admitted[k], visitors[k])
  BY DEF BInv, History
<1>3. \A i \in DOMAIN admitted[k] : admitted[k][i] \in Nat
  BY TimesOfClient DEF BInv
<1>4. Window \in Nat /\ MaxWait \in Nat
  BY LimitAssumption, BoundsAssumption
<1>5. CASE visitors[k] = None
  BY <1>1, <1>2, <1>3, <1>4, <1>5 DEF Recorded
<1>6. CASE visitors[k] # None
  <2>1. visitors[k].expiresAt \in Nat
    BY <1>6 DEF BInv, IInv, TypeOK, Visitor
  <2> QED
    BY <1>1, <1>2, <1>3, <1>4, <1>6, <2>1 DEF Recorded
<1> QED
  BY <1>5, <1>6

LEMMA NextBInv == BInv /\ [Next]_vars => BInv'
<1> SUFFICES ASSUME BInv, [Next]_vars PROVE BInv'
  OBVIOUS
<1>1. IInv'
  BY NextIInv DEF BInv
<1>2. CASE Tick
  <2>1. BurstBound'
    BY <1>2 DEF Tick, BInv, BurstBound
  <2> QED
    BY <1>1, <1>2, <2>1, TickKeepsHistory DEF BInv
<1>3. ASSUME NEW w \in Workers, NEW k \in Clients, Arrive(w, k) PROVE BInv'
  BY <1>1, <1>3 DEF Arrive, BInv, History, Recorded, BurstBound
<1>4. ASSUME NEW w \in Workers, Admit(w) PROVE BInv'
  BY <1>4, AdmitBInv
<1>5. ASSUME NEW w \in Workers, Refuse(w) PROVE BInv'
  <2>1. waiting[w] # None /\ visitors' = Swept(waiting[w].now)
        /\ UNCHANGED <<clock, admitted>>
    BY <1>5 DEF Refuse, Enter
  <2>2. \A k \in Clients : Recorded(admitted[k], Swept(waiting[w].now)[k])
    BY <2>1, SweepKeepsHistory
  <2>3. History' /\ BurstBound'
    BY <2>1, <2>2 DEF BInv, History, Recorded, BurstBound
  <2> QED
    BY <1>1, <2>3 DEF BInv
<1>6. CASE UNCHANGED vars
  BY <1>1, <1>6 DEF vars, BInv, History, Recorded, BurstBound
<1> QED
  BY <1>2, <1>3, <1>4, <1>5, <1>6 DEF Next

\* A full window is one the client holds, and its admissions are the last ones.
LEMMA RefusingIsEarned ==
  ASSUME BInv, NEW w \in Workers, Refuse(w)
  PROVE  LET times == admitted[waiting[w].client] IN
           /\ Len(times) >= Limit
           /\ \A i \in DOMAIN times : i > Len(times) - Limit =>
                times[i] >= waiting[w].now - Window - MaxWait
<1> DEFINE now == waiting[w].now
           k == waiting[w].client
           times == admitted[k]
           held == Swept(now)[k]
<1>1. waiting[w] # None /\ Full(Current(Swept(now), k, now))
  BY DEF Refuse, Enter
<1>2. k \in Clients /\ now \in Nat
  BY <1>1 DEF BInv, IInv, TypeOK, Request
<1>3. Len(times) \in Nat
  BY <1>2, TimesOfClient DEF BInv
<1>4. \A i \in DOMAIN times : i \in 1..Len(times) /\ times[i] \in Nat
  BY <1>2, TimesOfClient DEF BInv
<1>5. Limit \in Nat /\ Window \in Nat /\ MaxWait \in Nat
  BY LimitAssumption, BoundsAssumption
<1>6. CASE held = None \/ Ended(held, now)
  <2>1. Limit = 0
    BY <1>1, <1>5, <1>6 DEF Current, Full
  <2> HIDE DEF times
  <2> QED
    BY <1>3, <1>4, <2>1
<1>7. CASE held # None /\ ~ Ended(held, now)
  <2>1. held \in Visitor /\ Current(Swept(now), k, now) = held
    BY <1>2, <1>7, SweepOnlyRemoves DEF BInv, IInv, TypeOK, Current
  <2>2. held.count = Limit /\ held.expiresAt \in Nat /\ now <= held.expiresAt
    BY <1>1, <1>2, <1>5, <1>7, <2>1 DEF Full, Ended, Visitor
  <2>3. Recorded(times, held)
    BY <1>1, <1>2, SweepKeepsHistory
  <2>4. /\ held.count \in 1..Len(times)
        /\ \A i \in DOMAIN times : i > Len(times) - held.count =>
             times[i] >= held.expiresAt - Window - MaxWait
    BY <1>7, <2>3 DEF Recorded
  <2>5. /\ Len(times) >= Limit
        /\ \A i \in DOMAIN times : i > Len(times) - Limit => times[i] >= now - Window - MaxWait
    <3> HIDE DEF times, held, now
    <3> QED
      BY <1>2, <1>3, <1>4, <1>5, <2>2, <2>4
  <2> QED
    BY <2>5
<1> QED
  BY <1>6, <1>7

------------------------------------------------------------------------------
\* The map, the clock and the requests at the lock stay typed; in particular no
\* window ever counts more than Limit.
THEOREM Typing == Spec => []TypeOK
<1>1. IInv => TypeOK
  BY DEF IInv
<1> QED
  BY <1>1, InitIInv, NextIInv, PTL DEF Spec

\* No window that ended before the last sweep is in the map, not even one that
\* a request with an old time put there afterwards (Allow's sweep).
THEOREM FreshMap == Spec => []MapStaysFresh
<1>1. IInv => MapStaysFresh
  BY DEF IInv
<1> QED
  BY <1>1, InitIInv, NextIInv, PTL DEF Spec

\* However requests and sweeps interleave, more than 2 * Limit admissions of a
\* client never fit in a Window less twice the wait for the lock (Allow).
THEOREM Bursts == Spec => []BurstBound
<1>1. BInv => BurstBound
  BY DEF BInv
<1> QED
  BY <1>1, InitBInv, NextBInv, PTL DEF Spec

\* Whoever is refused has had Limit requests let in within a Window and a wait
\* before (Allow's early return): neither other clients nor a window long gone
\* can cause a refusal.
THEOREM Refusals == Spec => RefusalIsEarned
<1> DEFINE Earned ==
      \A w \in Workers : Refuse(w) =>
        LET times == admitted[waiting[w].client] IN
          /\ Len(times) >= Limit
          /\ \A i \in DOMAIN times : i > Len(times) - Limit =>
               times[i] >= waiting[w].now - Window - MaxWait
<1>1. BInv => Earned
  BY RefusingIsEarned
<1>2. Spec => [][Earned]_vars
  BY <1>1, InitBInv, NextBInv, PTL DEF Spec
<1> QED
  BY <1>2 DEF RefusalIsEarned
==============================================================================
