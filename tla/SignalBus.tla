----------------------------- MODULE SignalBus -----------------------------
(***************************************************************************)
(* From the signal sources to the snapshot the evaluator reads: the signal *)
(* bus (pkg/runtime/signals.go), its fetchers (pkg/sigfetch), and          *)
(* POST /inject (cmd/dg-engine/control.go).                                *)
(*                                                                         *)
(* One goroutine per signal waits for its ticker, fetches, and writes the  *)
(* snapshot under the bus's mutex.  The ticker's channel holds one tick;   *)
(* further ones are dropped while a fetch is under way.  An injected       *)
(* signal is read from the store in memory, a live one by a request that   *)
(* the client gives up after FetchLimit.                                   *)
(*                                                                         *)
(* Time is a number of equal units.  A poller that has a tick starts its   *)
(* fetch, and a fetch ends, before the unit is over in which they have to: *)
(* Elapse waits for them.  Ages saturate one unit above the bounds the     *)
(* properties speak of.                                                    *)
(***************************************************************************)
EXTENDS Integers

CONSTANTS
    Injected,      \* signals fetched from the InjectedStore
    Live,          \* signals fetched over HTTP or from Prometheus or /proc
    Data,          \* signal values
    Missing,       \* no value yet
    Cadence,       \* the poll cadence of each signal
    FetchLimit,    \* the HTTP clients' Timeout
    StaleTimeout   \* SignalBus.staleTimeout

Signals == Injected \cup Live

ASSUME BusAssumption ==
    /\ Injected \cap Live = {}
    /\ Missing \notin Data
    /\ Cadence \in [Signals -> Nat \ {0}]
    /\ FetchLimit \in Nat \ {0}
    /\ StaleTimeout \in Nat \ {0}

VARIABLES
    source,       \* what the store holds, or the live system would answer
    values,       \* snapshot.Values
    stale,        \* the signals snapshot.Stale marks
    sinceFetch,   \* now - lastFetchAt, Never while that is zero
    due,          \* time until the ticker fires
    ticked,       \* the signals whose ticker.C holds a tick
    took,         \* how long the fetch has taken, Idle when there is none
    got,          \* what the fetch has read of the source
    steady        \* history: time since the source changed or a fetch failed

pollVars == <<due, ticked>>
vars     == <<source, values, stale, sinceFetch, due, ticked, took, got, steady>>

Never == 0 - 1
Idle  == 0 - 1

Larger(a, b) == IF a > b THEN a ELSE b

\* A failing source goes on for this long before the snapshot says so.
StaleBy(s) == StaleTimeout + Cadence[s] + FetchLimit

\* A change of the source takes this long to arrive: a live one may come right
\* after a fetch has read the old value, which then lasts its full time.
Lag(s) == IF s \in Injected THEN Cadence[s] ELSE Larger(Cadence[s], FetchLimit) + FetchLimit

Later(age, limit) == IF age < limit THEN age + 1 ELSE age

Init ==
    /\ source \in [Signals -> Data]
    /\ values = [s \in Signals |-> Missing]
    /\ stale = {}
    /\ sinceFetch = [s \in Signals |-> Never]
    /\ due = Cadence
    /\ ticked = {}
    /\ took = [s \in Signals |-> Idle]
    /\ got = [s \in Signals |-> Missing]
    /\ steady = [s \in Signals |-> 0]

-----------------------------------------------------------------------------
\* The sources.  Of /inject only the requests that name injectable signals
\* alone change the store; entries they do not name keep their value.
Become(new) ==
    /\ source' = new
    /\ steady' = [s \in Signals |-> IF new[s] = source[s] THEN steady[s] ELSE 0]
    /\ UNCHANGED <<values, stale, sinceFetch, pollVars, took, got>>

Inject ==
    \E new \in [Signals -> Data] :
        /\ \A s \in Live : new[s] = source[s]
        /\ Become(new)

LiveChanges(s) == \E v \in Data : Become([source EXCEPT ![s] = v])

-----------------------------------------------------------------------------
\* A fetch that succeeded.
Store(s, v) ==
    /\ values' = [values EXCEPT ![s] = v]
    /\ stale' = stale \ {s}
    /\ sinceFetch' = [sinceFetch EXCEPT ![s] = 0]

\* The store in memory answers at once, and has had a value for every injected
\* signal since buildFetchers seeded it.
PollInjected(s) ==
    /\ s \in ticked
    /\ ticked' = ticked \ {s}
    /\ Store(s, source[s])
    /\ UNCHANGED <<source, due, took, got, steady>>

StartFetch(s) ==
    /\ s \in ticked
    /\ took[s] = Idle
    /\ ticked' = ticked \ {s}
    /\ took' = [took EXCEPT ![s] = 0]
    /\ UNCHANGED <<source, values, stale, sinceFetch, due, got, steady>>

\* The live system answers; the answer is on its way.
Serve(s) ==
    /\ took[s] # Idle
    /\ got[s] = Missing
    /\ got' = [got EXCEPT ![s] = source[s]]
    /\ UNCHANGED <<source, values, stale, sinceFetch, pollVars, took, steady>>

EndFetch(s) ==
    /\ took' = [took EXCEPT ![s] = Idle]
    /\ got' = [got EXCEPT ![s] = Missing]

Deliver(s) ==
    /\ got[s] # Missing
    /\ Store(s, got[s])
    /\ EndFetch(s)
    /\ UNCHANGED <<source, pollVars, steady>>

\* Mutation of Overdue: a signal that was never fetched counts as overdue.
OverdueFromTheStart(s) == sinceFetch[s] = Never \/ sinceFetch[s] > StaleTimeout

Overdue(s) == sinceFetch[s] # Never /\ sinceFetch[s] > StaleTimeout

\* Refused, timed out, or an answer without a number in it: the last value stays.
Fail(s) ==
    /\ took[s] # Idle
    /\ stale' = stale \cup {x \in {s} : Overdue(x)}
    /\ EndFetch(s)
    /\ steady' = [steady EXCEPT ![s] = 0]
    /\ UNCHANGED <<source, values, sinceFetch, pollVars>>

-----------------------------------------------------------------------------
\* Mutation of MayWait: a client without a timeout.
MayWaitForever(s) == s \in ticked => s \in Live /\ took[s] # Idle

\* Time may not pass over a poller that can go on or a request that is over.
MayWait(s) == (s \in ticked => s \in Live /\ took[s] # Idle) /\ took[s] < FetchLimit

\* Mutation of Fires: a ticker that does not buffer its tick.
FiresWhenIdle(s) == due[s] = 1 /\ took[s] = Idle

Fires(s) == due[s] = 1

Elapse ==
    /\ \A s \in Signals : MayWait(s)
    /\ due' = [s \in Signals |-> IF due[s] = 1 THEN Cadence[s] ELSE due[s] - 1]
    /\ ticked' = ticked \cup {s \in Signals : Fires(s)}
    /\ took' = [s \in Signals |-> IF took[s] = Idle THEN Idle ELSE took[s] + 1]
    /\ sinceFetch' = [s \in Signals |-> IF sinceFetch[s] = Never THEN Never
                                        ELSE Later(sinceFetch[s], StaleBy(s) + 1)]
    /\ steady' = [s \in Signals |-> Later(steady[s], Lag(s) + 1)]
    /\ UNCHANGED <<source, values, stale, got>>

Next ==
    \/ Inject
    \/ \E s \in Live : LiveChanges(s) \/ StartFetch(s) \/ Serve(s) \/ Deliver(s) \/ Fail(s)
    \/ \E s \in Injected : PollInjected(s)
    \/ Elapse

Spec == Init /\ [][Next]_vars

-----------------------------------------------------------------------------
\* Every variable keeps its type.
TypeOK ==
    /\ source \in [Signals -> Data]
    /\ values \in [Signals -> Data \cup {Missing}]
    /\ stale \subseteq Signals
    /\ sinceFetch \in [Signals -> Int]
    /\ \A s \in Signals : sinceFetch[s] \in Never..StaleBy(s) + 1
    /\ due \in [Signals -> Nat]
    /\ \A s \in Signals : due[s] \in 1..Cadence[s]
    /\ ticked \subseteq Signals
    /\ took \in [Signals -> Idle..FetchLimit]
    /\ got \in [Signals -> Data \cup {Missing}]
    /\ steady \in [Signals -> Nat]
    /\ \A s \in Signals : steady[s] <= Lag(s) + 1

\* signals.go: "true if value hasn't refreshed within StaleTimeout", both ways: a
\* marked signal was not refreshed for that long, and one that was not refreshed
\* is marked at the latest one cadence and one fetch after that, however its
\* requests fail, hang or overrun the ticker.  A signal without a value is never
\* marked.
StaleMeansOld ==
    \A s \in Signals :
        /\ s \in stale => sinceFetch[s] > StaleTimeout
        /\ sinceFetch[s] > StaleBy(s) => s \in stale

\* What a source has been saying for the length of Lag without a failed fetch is
\* what the evaluator reads, and is not marked stale: no older answer overtakes
\* it, and of two signals injected at once neither is late for longer.
SteadyArrives ==
    \A s \in Signals : steady[s] > Lag(s) => values[s] = source[s] /\ s \notin stale

=============================================================================
