-------------------------- MODULE SignalBusProofs --------------------------
(***************************************************************************)
(* Theorems about the signal bus, for any signals, cadences and timeouts.  *)
(* Both properties are deadlines.  Each is made inductive by adding, to    *)
(* the time that has passed, the longest time that what is due may still   *)
(* take: the sum never grows above the deadline, because time passes only  *)
(* while that remainder shrinks.                                           *)
(***************************************************************************)
EXTENDS SignalBus, TLAPS

\* The longest time until the current fetch ends, or the next one if there is none.
Left(s) ==
    IF took[s] # Idle THEN FetchLimit - took[s]
    ELSE IF s \in ticked THEN FetchLimit
    ELSE due[s] + FetchLimit

\* The snapshot is not what the source says, or is about to become so.
Wrong(s) == values[s] # source[s] \/ s \in stale \/ got[s] \notin {Missing, source[s]}

\* The longest time until the source is read and delivered: a fetch that has read
\* another value has to end first.
Need(s) ==
    IF s \in Injected THEN IF s \in ticked THEN 0 ELSE due[s]
    ELSE IF got[s] \in {Missing, source[s]} THEN Left(s)
    ELSE (IF s \in ticked THEN FetchLimit - took[s]
          ELSE Larger(FetchLimit - took[s], due[s])) + FetchLimit

Idling(s) ==
    /\ s \in Injected => took[s] = Idle
    /\ took[s] = Idle => got[s] = Missing

MarkedInTime(s) ==
    /\ s \in stale => sinceFetch[s] > StaleTimeout
    /\ s \notin stale => sinceFetch[s] + Left(s) <= StaleBy(s)

ArrivesInTime(s) == Wrong(s) => steady[s] + Need(s) <= Lag(s)

BusInv == TypeOK /\ \A s \in Signals : Idling(s) /\ MarkedInTime(s) /\ ArrivesInTime(s)

-----------------------------------------------------------------------------
\* The numbers the deadlines are made of, as integers.
LEMMA Numbers ==
    /\ FetchLimit \in Nat \ {0}
    /\ StaleTimeout \in Nat \ {0}
    /\ \A s \in Signals : /\ Cadence[s] \in Nat \ {0}
                          /\ StaleBy(s) = StaleTimeout + Cadence[s] + FetchLimit
                          /\ s \in Injected => Lag(s) = Cadence[s]
                          /\ s \notin Injected => /\ Lag(s) \in Nat
                                                  /\ Lag(s) >= Cadence[s] + FetchLimit
                                                  /\ Lag(s) >= FetchLimit + FetchLimit
  BY BusAssumption DEF BusAssumption, StaleBy, Lag, Larger

\* One signal's share of TypeOK.
LEMMA TypeOfOne ==
    ASSUME TypeOK, NEW s \in Signals
    PROVE  /\ values[s] \in Data \cup {Missing}
           /\ source[s] \in Data
           /\ got[s] \in Data \cup {Missing}
           /\ sinceFetch[s] \in Int /\ sinceFetch[s] >= 0 - 1 /\ sinceFetch[s] <= StaleBy(s) + 1
           /\ due[s] \in Int /\ due[s] >= 1 /\ due[s] <= Cadence[s]
           /\ took[s] \in Int /\ took[s] >= 0 - 1 /\ took[s] <= FetchLimit
           /\ steady[s] \in Int /\ steady[s] >= 0 /\ steady[s] <= Lag(s) + 1
  BY Numbers DEF TypeOK, Never, Idle

\* The invariant holds at the start: the first fetch of a signal ends within a
\* cadence and a fetch.
LEMMA BusInit == Init => BusInv
<1> SUFFICES ASSUME Init PROVE BusInv
  OBVIOUS
<1> USE Numbers
<1>1. TypeOK
  BY BusAssumption DEF Init, TypeOK, BusAssumption, Never, Idle
<1>2. ASSUME NEW s \in Signals
      PROVE  Idling(s) /\ MarkedInTime(s) /\ ArrivesInTime(s)
  <2>1. /\ took[s] = Idle /\ got[s] = Missing /\ s \notin stale /\ s \notin ticked
        /\ due[s] = Cadence[s] /\ sinceFetch[s] = Never /\ steady[s] = 0
    BY <1>2 DEF Init
  <2>2. Idling(s) /\ MarkedInTime(s)
    BY <1>2, <2>1 DEF Idling, MarkedInTime, Left, Never
  <2>3. ArrivesInTime(s)
    BY <1>2, <2>1 DEF ArrivesInTime, Need, Left
  <2> QED
    BY <2>2, <2>3
<1> QED
  BY <1>1, <1>2 DEF BusInv

-----------------------------------------------------------------------------
\* Types, action by action.
LEMMA TypeStep == TypeOK /\ [Next]_vars => TypeOK'
<1> SUFFICES ASSUME TypeOK, [Next]_vars PROVE TypeOK'
  OBVIOUS
<1> USE Numbers
<1>1. ASSUME NEW new \in [Signals -> Data], Become(new) PROVE TypeOK'
  BY <1>1 DEF Become, TypeOK, pollVars, Lag, StaleBy
<1>2. CASE Inject
  BY <1>1, <1>2 DEF Inject
<1>3. ASSUME NEW s \in Live, LiveChanges(s) PROVE TypeOK'
  <2>1. PICK v \in Data : Become([source EXCEPT ![s] = v])
    BY <1>3 DEF LiveChanges
  <2>2. [source EXCEPT ![s] = v] \in [Signals -> Data]
    BY DEF TypeOK
  <2> QED
    BY <1>1, <2>1, <2>2
<1>4. ASSUME NEW s \in Injected, PollInjected(s) PROVE TypeOK'
  BY <1>4 DEF PollInjected, Store, TypeOK, Signals, StaleBy, Never, Lag
<1>5. ASSUME NEW s \in Live, StartFetch(s) PROVE TypeOK'
  BY <1>5 DEF StartFetch, TypeOK, Signals, StaleBy, Idle, Lag
<1>6. ASSUME NEW s \in Live, Serve(s) PROVE TypeOK'
  BY <1>6 DEF Serve, pollVars, TypeOK, Signals, StaleBy, Lag
<1>7. ASSUME NEW s \in Live, Deliver(s) PROVE TypeOK'
  BY <1>7 DEF Deliver, EndFetch, Store, pollVars, TypeOK, Signals, StaleBy, Never, Idle, Lag
<1>8. ASSUME NEW s \in Live, Fail(s) PROVE TypeOK'
  BY <1>8 DEF Fail, EndFetch, pollVars, TypeOK, Signals, StaleBy, Idle, Lag
<1>9. CASE Elapse
  BY <1>9 DEF Elapse, MayWait, Later, TypeOK, StaleBy, Never, Idle, Lag, Larger
<1>10. CASE UNCHANGED vars
  BY <1>10 DEF vars, TypeOK, StaleBy, Lag
<1> QED
  BY <1>2, <1>3, <1>4, <1>5, <1>6, <1>7, <1>8, <1>9, <1>10 DEF Next

-----------------------------------------------------------------------------
Healthy(s) == Idling(s) /\ MarkedInTime(s) /\ ArrivesInTime(s)

\* Nothing about a signal changes.
Same(s) ==
    /\ values'[s] = values[s] /\ source'[s] = source[s] /\ got'[s] = got[s]
    /\ sinceFetch'[s] = sinceFetch[s] /\ due'[s] = due[s] /\ took'[s] = took[s]
    /\ steady'[s] = steady[s]
    /\ s \in stale' <=> s \in stale
    /\ s \in ticked' <=> s \in ticked

LEMMA SameIsHealthy ==
    ASSUME NEW s \in Signals, Healthy(s), Same(s)
    PROVE  Healthy(s)'
  BY DEF Healthy, Same, Idling, MarkedInTime, ArrivesInTime, Wrong, Need, Left, StaleBy, Lag, Larger

\* A source that changes has the whole of Lag to arrive.
LEMMA ChangeIsHealthy ==
    ASSUME TypeOK, NEW new \in [Signals -> Data], Become(new), NEW s \in Signals, Healthy(s)
    PROVE  Healthy(s)'
<1> USE Numbers, TypeOfOne
<1>1. CASE new[s] = source[s]
  BY <1>1, SameIsHealthy DEF Become, Same, TypeOK, pollVars
<1>2. CASE new[s] # source[s]
  <2>1. /\ got'[s] = got[s] /\ sinceFetch'[s] = sinceFetch[s] /\ due'[s] = due[s]
        /\ took'[s] = took[s] /\ steady'[s] = 0 /\ stale' = stale /\ ticked' = ticked
    BY <1>2 DEF Become, pollVars
  <2>2. Idling(s)' /\ MarkedInTime(s)'
    BY <2>1 DEF Healthy, Idling, MarkedInTime, Left, StaleBy
  <2>3. ArrivesInTime(s)'
    BY <2>1 DEF Healthy, Idling, ArrivesInTime, Need, Left, Lag, Larger, Idle
  <2> QED
    BY <2>2, <2>3 DEF Healthy
<1> QED
  BY <1>1, <1>2

\* The store's answer is the source itself.
LEMMA PollIsHealthy ==
    ASSUME TypeOK, BusAssumption, NEW s \in Injected, PollInjected(s), NEW x \in Signals, Healthy(x)
    PROVE  Healthy(x)'
<1> USE Numbers, TypeOfOne
<1>1. CASE x # s
  BY <1>1, SameIsHealthy DEF PollInjected, Store, Same, TypeOK
<1>2. CASE x = s
  <2>1. /\ got'[x] = got[x] /\ source'[x] = source[x] /\ values'[x] = source[x]
        /\ sinceFetch'[x] = 0 /\ due'[x] = due[x] /\ took'[x] = took[x]
        /\ x \notin stale' /\ x \notin ticked'
    BY <1>2 DEF PollInjected, Store, TypeOK, Signals
  <2>2. Idling(x)' /\ got[x] = Missing /\ took[x] = Idle
    BY <1>2, <2>1 DEF Healthy, Idling
  <2>3. MarkedInTime(x)'
    BY <2>1, <2>2 DEF MarkedInTime, Left, StaleBy
  <2>4. ArrivesInTime(x)'
    BY <2>1, <2>2 DEF ArrivesInTime, Wrong
  <2> QED
    BY <2>2, <2>3, <2>4 DEF Healthy
<1> QED
  BY <1>1, <1>2

\* A fetch that starts or is served is on time if it was before.
LEMMA FetchIsHealthy ==
    ASSUME TypeOK, NEW s \in Live, StartFetch(s) \/ Serve(s), NEW x \in Signals, Healthy(x)
    PROVE  Healthy(x)'
<1> USE Numbers, TypeOfOne
<1>0. s \notin Injected /\ s \in Signals
  BY BusAssumption DEF BusAssumption, Signals
<1>1. CASE x # s
  BY <1>1, <1>0, SameIsHealthy DEF StartFetch, Serve, Same, TypeOK, pollVars
<1>2. CASE x = s /\ StartFetch(s)
  <2>1. /\ got'[x] = got[x] /\ source'[x] = source[x] /\ values'[x] = values[x]
        /\ sinceFetch'[x] = sinceFetch[x] /\ due'[x] = due[x] /\ took'[x] = 0 /\ took[x] = Idle
        /\ steady'[x] = steady[x] /\ stale' = stale /\ x \notin ticked' /\ x \in ticked
    BY <1>2, <1>0 DEF StartFetch, TypeOK
  <2>2. got[x] = Missing
    BY <2>1 DEF Healthy, Idling
  <2>3. Idling(x)' /\ MarkedInTime(x)'
    BY <1>0, <1>2, <2>1, <2>2 DEF Healthy, Idling, MarkedInTime, Left, StaleBy, Idle
  <2>4. ArrivesInTime(x)'
    BY <1>0, <1>2, <2>1, <2>2 DEF Healthy, ArrivesInTime, Wrong, Need, Left, Lag, Larger, Idle
  <2> QED
    BY <2>3, <2>4 DEF Healthy
<1>3. CASE x = s /\ Serve(s)
  <2>1. /\ got[x] = Missing /\ got'[x] = source[x] /\ source'[x] = source[x]
        /\ values'[x] = values[x] /\ sinceFetch'[x] = sinceFetch[x] /\ due'[x] = due[x]
        /\ took'[x] = took[x] /\ took[x] # Idle
        /\ steady'[x] = steady[x] /\ stale' = stale /\ ticked' = ticked
    BY <1>3, <1>0 DEF Serve, TypeOK, pollVars
  <2>2. Idling(x)' /\ MarkedInTime(x)'
    BY <1>0, <1>3, <2>1 DEF Healthy, Idling, MarkedInTime, Left, StaleBy
  <2>3. ArrivesInTime(x)'
    BY <1>0, <1>3, <2>1 DEF Healthy, ArrivesInTime, Wrong, Need, Left, Lag, Larger
  <2> QED
    BY <2>2, <2>3 DEF Healthy
<1> QED
  BY <1>1, <1>2, <1>3

\* A fetch that ends leaves a cadence and a fetch until the next has ended.
LEMMA EndIsHealthy ==
    ASSUME TypeOK, NEW s \in Live, Deliver(s) \/ Fail(s), NEW x \in Signals, Healthy(x)
    PROVE  Healthy(x)'
<1> USE Numbers, TypeOfOne
<1>0. s \notin Injected /\ s \in Signals
  BY BusAssumption DEF BusAssumption, Signals
<1>1. CASE x # s
  BY <1>1, <1>0, SameIsHealthy DEF Deliver, Fail, EndFetch, Store, Same, TypeOK, pollVars
<1>2. CASE x = s /\ Deliver(s)
  <2>1. /\ got'[x] = Missing /\ source'[x] = source[x] /\ values'[x] = got[x]
        /\ sinceFetch'[x] = 0 /\ due'[x] = due[x] /\ took'[x] = Idle /\ got[x] # Missing
        /\ steady'[x] = steady[x] /\ x \notin stale' /\ ticked' = ticked
    BY <1>2, <1>0 DEF Deliver, EndFetch, Store, TypeOK, pollVars
  <2>2. took[x] # Idle
    BY <2>1 DEF Healthy, Idling
  <2>3. Idling(x)' /\ MarkedInTime(x)'
    BY <1>0, <1>2, <2>1 DEF Idling, MarkedInTime, Left, StaleBy
  <2>4. ArrivesInTime(x)'
    BY <1>0, <1>2, <2>1, <2>2 DEF Healthy, ArrivesInTime, Wrong, Need, Left, Lag, Larger, Idle
  <2> QED
    BY <2>3, <2>4 DEF Healthy
<1>3. CASE x = s /\ Fail(s)
  <2>1. /\ got'[x] = Missing /\ source'[x] = source[x] /\ values'[x] = values[x]
        /\ sinceFetch'[x] = sinceFetch[x] /\ due'[x] = due[x] /\ took'[x] = Idle
        /\ steady'[x] = 0 /\ ticked' = ticked
        /\ x \in stale' <=> (x \in stale \/ Overdue(x))
    BY <1>3, <1>0 DEF Fail, EndFetch, TypeOK, pollVars
  <2>2. Idling(x)'
    BY <1>0, <1>3, <2>1 DEF Idling
  <2>3. MarkedInTime(x)'
    BY <1>0, <1>3, <2>1 DEF Healthy, MarkedInTime, Left, StaleBy, Overdue, Never
  <2>4. ArrivesInTime(x)'
    BY <1>0, <1>3, <2>1 DEF ArrivesInTime, Wrong, Need, Left, Lag, Larger
  <2> QED
    BY <2>2, <2>3, <2>4 DEF Healthy
<1> QED
  BY <1>1, <1>2, <1>3

\* Time passes only where what is due comes nearer.
LEMMA ElapseIsHealthy ==
    ASSUME TypeOK, Elapse, NEW s \in Signals, Healthy(s)
    PROVE  Healthy(s)'
<1> USE Numbers, TypeOfOne
<1>1. /\ got'[s] = got[s] /\ source'[s] = source[s] /\ values'[s] = values[s] /\ stale' = stale
      /\ sinceFetch'[s] = IF sinceFetch[s] = Never THEN Never ELSE Later(sinceFetch[s], StaleBy(s) + 1)
      /\ due'[s] = IF due[s] = 1 THEN Cadence[s] ELSE due[s] - 1
      /\ took'[s] = IF took[s] = Idle THEN Idle ELSE took[s] + 1
      /\ steady'[s] = Later(steady[s], Lag(s) + 1)
      /\ s \in ticked' <=> (s \in ticked \/ due[s] = 1)
      /\ MayWait(s)
  BY DEF Elapse, Fires
<1>2. Idling(s)'
  BY <1>1 DEF Healthy, Idling, Idle
<1>3. MarkedInTime(s)'
  BY <1>1 DEF Healthy, MarkedInTime, MayWait, Left, StaleBy, Later, Never, Idle
<1>4. ArrivesInTime(s)'
  <2>1. steady'[s] <= steady[s] + 1
    BY <1>1 DEF Later, Lag, Larger
  <2>2. Wrong(s)' <=> Wrong(s)
    BY <1>1 DEF Wrong
  <2>3. Wrong(s) => Need(s)' <= Need(s) - 1
    BY <1>1 DEF Healthy, Idling, MayWait, Need, Left, Larger, Idle, Wrong
  <2>4. steady'[s] \in Int /\ Need(s) \in Int /\ Need(s)' \in Int
    BY <1>1 DEF Need, Left, Larger, Later, Lag, Idle
  <2> QED
    BY <2>1, <2>2, <2>3, <2>4 DEF Healthy, ArrivesInTime, Lag
<1> QED
  BY <1>2, <1>3, <1>4 DEF Healthy

-----------------------------------------------------------------------------
\* The inductive invariant: both deadlines with what may still be due.
THEOREM BusInvariant == Spec => []BusInv
<1>1. BusInv /\ [Next]_vars => BusInv'
  <2> SUFFICES ASSUME BusInv, [Next]_vars, NEW x \in Signals PROVE Healthy(x)'
    BY TypeStep DEF BusInv, Healthy
  <2>0. TypeOK /\ Healthy(x)
    BY DEF BusInv, Healthy
  <2>1. CASE Inject
    BY <2>0, <2>1, ChangeIsHealthy DEF Inject
  <2>2. ASSUME NEW s \in Live, LiveChanges(s) PROVE Healthy(x)'
    <3>1. PICK v \in Data : Become([source EXCEPT ![s] = v])
      BY <2>2 DEF LiveChanges
    <3>2. [source EXCEPT ![s] = v] \in [Signals -> Data]
      BY <2>0 DEF TypeOK
    <3> QED
      BY <2>0, <3>1, <3>2, ChangeIsHealthy
  <2>3. ASSUME NEW s \in Live, StartFetch(s) \/ Serve(s) PROVE Healthy(x)'
    BY <2>0, <2>3, FetchIsHealthy
  <2>4. ASSUME NEW s \in Live, Deliver(s) \/ Fail(s) PROVE Healthy(x)'
    BY <2>0, <2>4, EndIsHealthy
  <2>5. ASSUME NEW s \in Injected, PollInjected(s) PROVE Healthy(x)'
    BY <2>0, <2>5, BusAssumption, PollIsHealthy
  <2>6. CASE Elapse
    BY <2>0, <2>6, ElapseIsHealthy
  <2>7. CASE UNCHANGED vars
    BY <2>0, <2>7, SameIsHealthy DEF vars, Same
  <2> QED
    BY <2>1, <2>2, <2>3, <2>4, <2>5, <2>6, <2>7 DEF Next
<1> QED
  BY <1>1, BusInit, PTL DEF Spec

\* Types of every variable of the bus.
THEOREM BusTypeCorrect == Spec => []TypeOK
<1>1. BusInv => TypeOK
  BY DEF BusInv
<1> QED
  BY <1>1, BusInvariant, PTL

\* A signal is marked stale only after, and always soon after, StaleTimeout without
\* a refresh, for all cadences, request timeouts and stale timeouts.
THEOREM StaleIsTimely == Spec => []StaleMeansOld
<1>1. BusInv => StaleMeansOld
  <2> SUFFICES ASSUME BusInv, NEW s \in Signals
               PROVE  /\ s \in stale => sinceFetch[s] > StaleTimeout
                      /\ sinceFetch[s] > StaleBy(s) => s \in stale
    BY DEF StaleMeansOld
  <2>1. TypeOK /\ MarkedInTime(s)
    BY DEF BusInv
  <2>2. Left(s) \in Nat
    BY <2>1, Numbers, TypeOfOne DEF Left, Idle
  <2> QED
    BY <2>1, <2>2, Numbers, TypeOfOne DEF MarkedInTime
<1> QED
  BY <1>1, BusInvariant, PTL

\* A steady source reaches the evaluator's snapshot within Lag.
THEOREM SteadySourcesArrive == Spec => []SteadyArrives
<1>1. BusInv => SteadyArrives
  <2> SUFFICES ASSUME BusInv, NEW s \in Signals, steady[s] > Lag(s) PROVE ~Wrong(s)
    BY DEF SteadyArrives, Wrong
  <2>1. TypeOK /\ ArrivesInTime(s)
    BY DEF BusInv
  <2>2. Need(s) \in Int /\ Need(s) >= 0
    BY <2>1, Numbers, TypeOfOne DEF Need, Left, Larger, Idle
  <2> QED
    BY <2>1, <2>2, Numbers, TypeOfOne DEF ArrivesInTime
<1> QED
  BY <1>1, BusInvariant, PTL

=============================================================================
