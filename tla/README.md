# A TLA+ model of Intent-Driven Degradation Contracts

`dg-engine` watches signals, decides how degraded a service should run (its
*tier*), asks people before it enters some tiers, and tells feature flags, a
write buffer and Kubernetes about the tier it applies. This directory holds TLA+
modules of that engine, TLC configurations that check them on small instances,
and TLAPS proofs of the properties of its core for every value of the constants.

Paths below are relative to `src/`.

## 1. The system

| Component | State | Operations | Talks to |
|---|---|---|---|
| Signal bus `pkg/runtime/signals.go` | last value, staleness per signal | a polling goroutine per signal, `Snapshot`, `Inject` | fetchers; read by the engine loop |
| Tier evaluator `pkg/runtime/evaluator.go` | current tier, candidate and its clock, lock | `Evaluate`, `LockTier`, `Unlock` under one mutex | called by the engine loop and, through `Engine`, by the enforcer |
| Engine loop, dispatcher `pkg/runtime/engine.go`, `dispatcher.go` | a channel of 32 transitions | tick, `Dispatch` (drops when full), `Drain` | calls `Enforcer.HandleTransition` |
| Enforcer `pkg/enforcement/enforcer` | applied tier, held tier, gate number and cancel function | `HandleTransition`, `Force`, `Release`, `resolveGate`, under one mutex | locks the evaluator; starts a goroutine per gate and per reconcile |
| Human gate `pkg/gate/gate.go` | the pending gate with its answer channel | `Fire` (blocks), `Respond` | operators through the callback server and the console |
| Write queue `pkg/enforcement/writequeue` | items with times, drop counter | `Enqueue`, `Drain`, `Depth`; each evicts | control API, enforcer |
| Control API `cmd/dg-engine/control.go` | none | `/write`, `/override`, `/release`, views | enforcer, queue, store |
| Kubernetes reconciler `pkg/enforcement/k8s` | nodes it cordoned | `Reconcile` in a goroutine per applied tier | Deployment, HPA and nodes through the API server |
| Compiler `pkg/compiler`, policy `pkg/policy` | none | validate, find gaps, blast radius, emit | `dg`, policy lab; its bundle drives everything else |
| Signal fetchers `pkg/sigfetch` | the store of injected signals | one fetch per signal; `/inject` sets the store | called by the bus |
| Sidecar `pkg/enforcement/sidecar` | tier, signals, policy | `/flags`, `SetTier`, its own `/override` | enforcer, applications |
| Demo shop `cmd/demo-app` | none | `/checkout` and pages | sidecar, `/write` of the control API |
| Engine main `cmd/dg-engine/main.go` | none | wiring, `buildFetchers`, `buildWriteQueue` | all |
| Audit, metrics, collectors, notifications, fallback page, CLI | logs and gauges | I/O | |

**What is hard about it.** Five kinds of goroutines share the evaluator and the
enforcer: the tick loop, the drain, the gate goroutines, HTTP handlers, reconcile
goroutines. Nothing orders two goroutines started by `go`. A transition is
*in flight* between the evaluator's decision and the enforcer's handling of it,
and everything else may happen meanwhile. Gates outlive their usefulness and
bring late decisions. `Respond` reads and sends in two steps. Handlers check and
then act. API calls fail half-way, the context of a reconcile ends after 30 s, and
a restart keeps only what the cluster itself remembers. A fetch may take longer than
the ticker that starts it. An application asks one server what to do and another to
do it, and may hear from neither. `PROJECT.json` lists these
hazards one by one, each at its line.

**What makes each part correct.**

- *Evaluator*: a tier is entered only after an uninterrupted breach; a lock holds
  against signals; steady signals win in the end.
- *Enforcer and gate*: a rise into a gated tier needs its own gate's decision; only
  one gate is open and it can be answered; superseded gates are inert; every hold
  ends; the enforcer follows the evaluator.
- *Signal bus*: what a source says reaches the evaluator in bounded time, and a signal
  is marked stale when it is, and only then.
- *Enforcer as a whole*: whatever its goroutines do, it is a machine with a
  tier, a held tier and a lock.
- *Sidecar and shop*: a customer is told what became of the order, and no order is
  confirmed in a tier that does not take orders.
- *Write queue*: bounded; no accepted write lost, duplicated, reordered or
  handed out after its TTL; empty in tiers that do not queue.
- *Compiler*: an accepted ladder leaves no value without a tier; reported gaps and
  cycles are real; what it accepts means the same to the engine.
- *Reconciler*: the cluster follows the applied tier; what the owner configured
  (HPA bounds, cordons) survives and comes back.

## 2. Modules

| Module | What it is |
|---|---|
| `Ladder` | the tiers of a bundle as `1..N`, gated tiers, timeout policies |
| `TierEvaluator` | variables and operations of the evaluator, no `Next` |
| `EvaluatorLoop` | the evaluator alone under ticks, time, locks and releases, with a history of what ticks saw |
| `HumanGate` | `Fire` and `Respond`, one program counter per gate goroutine |
| `Engine` | tick loop and dispatcher around the evaluator |
| `Enforcement` | the core: `Engine`, `HumanGate` and the enforcer composed |
| `TierContract` | what the enforcer promises, without evaluator, goroutines and clocks |
| `TierEvaluatorLemmas`, `EvaluatorProofs`, `EnforcementProofs` | proofs of evaluator and core, of what the contract implies, and that the core implements it |
| `SignalBus` | pollers, fetches, snapshot and stale marks, in discrete time |
| `SignalBusProofs` | its deadlines |
| `Filtering`, `FilteringLemmas` | the loop of `evict`; induction, and what the loop computes |
| `WriteQueue` | the queue's operations |
| `WriteBuffering` | the queue with `handleWrite` and `applyLocked` around it, no `Next` |
| `Storefront` | `WriteBuffering` with the sidecar, the shop's checkout and restarts: who calls it |
| `StorefrontProofs` | its safety properties: order of the queue, answers, confirmed orders |
| `Reconciler` | the reconciler goroutines, the cluster and its faults |
| `ReconcilerProofs` | its safety properties |
| `Comparators` | one comparator: `evalComparator`, `comparatorToInterval`, empty ranges |
| `GapScan` | the scan of a ladder for values without a tier |
| `Conditions` | the condition tree: `evalCondition`, `MatchTier`, `tierIndex`, the compiler's walks |
| `BlastRadius` | the dependency graph and the search for a cycle |
| `Compiler` | `Compile`: the three above in order, errors, the emitted bundle |
| `CompilerProofs` | its safety properties: gap scan, cycle search, what emitted bundles match |
| `MCEvaluatorLoop`, `MCEnforcement`, `MCSignalBus`, `MCStorefront`, `MCReconciler`, `MCCompiler` | values for TLC: pools of model values, symmetry, timeout policies |

Definitions whose comment begins with *Mutation of* are faulty variants of the
definition that follows. No specification uses them. Each shows that some
property notices the fault: put in place of the definition, TLC finds the property
violated under the configuration of its run (`mutants` in `PROJECT.json`).

### How the model corresponds to the code

*Critical sections are actions.* Every method of the evaluator, the enforcer
and the queue holds one mutex throughout, so it is one action. `Evaluate` and
`Dispatch` are two actions of the tick loop. `Fire` is cut at its two critical
sections, after the notifications, at the select, and before the caller takes the decision to the enforcer;
`Respond` between reading `pending` and sending; `handleWrite` between the check and
`Enqueue`; a reconcile at every API call, those for single nodes
included, with `Reconciler.mu` held over a loop (`MutexFree`). The enforcer calls `LockTier` inside its
own critical section and writes its own fields after it; nobody can see the moment
between (the evaluator reads nothing of the enforcer), so both are one action.

*Time is durations.* `age` is `now - candidateStart` and `lockLeft` is
`lockUntil - now`. `Elapse` lets one unit pass. Ages saturate at the longer window
and at the TTL, where nothing depends on them any more. A gate's timer may fire at
any time once it runs: no property depends on how long `Wait` is.

*Notifications block.* `Fire` stores the gate in `pending`, calls Slack and PagerDuty, and only then
makes the timer and gets to the select. In between (`"notifying"`) answers
are accepted into the channel and wait there, and neither cancellation nor time has an effect. PagerDuty is
called with a limit of 10 s and a bounded number of attempts; `sendSlack` uses
`http.Post`, which has no limit. So the end of the stage, `Notify`, is a step
of its own without fairness. The second call of PagerDuty, after an escalation, is within
the `"returning"` stage: it always returns.

*The signal bus keeps time.* `SignalBus` is the one module whose properties are
deadlines. Its clock is digital: `Elapse` passes one unit for all of `due`, `took`,
`sinceFetch` and `steady`. `Elapse` waits for a poller that has a tick and no fetch under way, and
for a request that has lasted `FetchLimit`: a goroutine that can go on does so within the unit, and
`http.Client.Timeout` ends a request. This is the urgency the deadlines rest on; a
process that is not scheduled for longer is outside the model. `ticked` are the
tickers whose channel, of capacity one, holds a tick: a second tick is dropped as in
`time.Ticker`. A live fetch is two steps, `Serve` (the source is read) and `Deliver`
(the snapshot is written), with any delay between them, or a `Fail`. A fetch of the
injected store is one step.

*The contract* of `TierContract` is read off the package comment of `enforcer.go` and its
methods. In `Enforcement!Contract` its `tier`, `held` and `pin` are `applied`, `pendingTier`
and the evaluator's `locked`, and its `requests` are the transitions in the channel: a
confirmed transition becomes a request when it is dispatched, and one that is dropped
never does. No variable of `HumanGate` appears in the mapping.

*Customers and engine.* `Storefront` is a composition of processes that only exchange
requests. `applyLocked` sets the applied tier, the sidecar and the queue under one mutex.
The sidecar's and the queue's own mutexes let others look in between, and what they
see is what they would have seen before or after: one action. `handleWrite`
remains two, and a checkout is one action for each of its requests: fetch the flags, send the order,
hear the answer. The engine goes on with a request whose client
has left (`unanswered`). `Restart` ends the process with queue, sidecar and
requests; the shop survives. A policy tier without `behavior.mode` has full
service.

*Tiers are numbers.* `applied`/`appliedIdx` and `currentTier`/`currentTierIdx` are the
same information. `NoTier` is the empty string, and any name that is not declared.

*Signals are the tier they match.* `match` is what `MatchTier` returns for the
current snapshot; `SignalsMove` changes it to any other tier at any time. What
`MatchTier` computes is in `Conditions`, where it is checked, and proved, on emitted bundles.

*The compiler is a sequential program*, so its actions are the iterations of its
two loops: `ScanStep` is one turn of the scan in `detectTierGaps`, `Descend`, `BackEdge`
and `Return` one turn of the loop in `dfs`, whose recursion is the variable `stack`.
The only choice is the start of the next search, as `range` over a Go map has no
order. Errors are kept by category. Values are integers and thresholds even
(`InfinityAssumption`, `Thresholds`), so
that, as with Go's floats, there is a value between any two thresholds and beyond them all.
Conditions are nested records. The recursive Go functions over them, `evalCondition` and the
compiler's walks, are recursive functions on `PolicyConditions`, the conditions that occur;
`ConditionsAssumption` says that they are trees (`Depth`), as anything decoded from YAML is.
Go's NaN, its infinities, and two thresholds so close that no float lies between them are outside
the model; `emptyRanges` accepts `gt x, lt y` for such neighbours, which no value satisfies.
`Comparators!Plain` are the comparators with at most one bound a side. `types.go`
asks for them and nothing enforces it; a comparator with both `gte` and `gt` is a
conjunction for the engine and just `gte` for the compiler, so properties that
compare the two are stated for `Plain` ones.

*Gate goroutines are a pool.* `Gates` are identities that are reused when a goroutine
has ended and no `Respond` still holds its channel. The number of gates opened is
unbounded, the number alive at once is the size of the pool. Opening another is
not possible while the pool is exhausted; two suffice for the one open gate and a
superseded one, and the theorems hold for any pool.

*History variables* decide nothing: `seen` (what ticks matched), `raced` (the last
confirmed transition was dropped, or overtaken by a lock), `fate`, `accepted`,
`drained`, `overtaken` (writes), `direct`, `mayBuy` (orders), `steady` (sources),
`foreign`, `clean`, `troubles` (cluster). The last two
state under which conditions a property of the cluster holds: `clean` looks at the
last reconcile, `troubles` at everything since the beginning.

*OrderedStart.* `TRUE` restricts gate goroutines to start in the order they were
created, so that `OpenGateIsAnswerable` can be checked apart from the fault that
run `late_gate` shows. The safety theorems need no such restriction.

*External*: the cluster, its autoscaler and administrators, as far as the
reconciler's calls read and write them. An administrator only cordons, and only
nodes that are schedulable.

## 3. Runs

| Run | Constants | Shows |
|---|---|---|
| `evaluator` | 4 tiers, windows 3 and 5, locks of 1 and 3, fair | `EvCoherent`, `SustainedBreach`, `LockIgnoresSignals`, `SettlesOnSignals` |
| `signals` | two injected signals and a live one, cadence 2, requests of up to 3, stale after 4 | `StaleMeansOld`, `SteadyArrives` |
| `core_gates` | 3 tiers, 2 and 3 gated (`escalate`, `hold`), channel of 1, any start order, fair, notifications return | held tier guarded, others cancelled, `EnforcerFollows`, `LockPinsEnforcer`; the core implements the contract (`KeepsContract`) and comes to what steady signals call for (`Converges`) |
| `core_answers` | 2 tiers, 2 gated (`execute_policy`), one operator, ordered start | the inductive invariant, `GatedRiseIsDecided`, `CancelledGateIsInert`, `OpenGateIsAnswerable` |
| `core_live` | the same without operator, `hold`, any start order, fair, notifications return | `HoldsEnd` |
| `slack_hangs` | as `core_live` with `execute_policy`, fair, notifications may not return | **violated**: `HoldsEnd` |
| `late_gate` | 2 tiers, 2 gated, no operator, any start order | **violated**: `OpenGateIsAnswerable` |
| `release_stuck` | 2 tiers, no gate, fair | **violated**: `SignalsDriveAgain` |
| `storefront` | an order and 2 other writes, room for 2, TTL 2; 4 tiers, the modes none, `full_service`, `read_only` and `static_fallback`, the middle two queueing; overrides of the sidecar, lost answers, restarts | order, no loss, no expired write drained, who can be stranded, `QueuedLeaves`; `AnswersMatchFates`, `ConfirmedByMode` |
| `k8s` | 2 workers, 1 node, all 5 tiers, refused and unanswered calls, restarts | sequential reconciles: nominal undoes everything, HPA bounds recoverable; a lone reconcile enforces its tier whatever came before; no cordon is forgotten without a lost answer or a restart |
| `compile` | every ladder of 2 and 3 tiers over 27 comparators with thresholds 2 and 4; two-level conditions over declared and undeclared signals; repeated and missing names; dependency lists of up to 2 services each | ladders accepted are covered, gaps are real inside, cycles found, bundles mean what the compiler checked |
| `false_gap` | the same | **violated**: `ReportedGapsAreReal` |

*Why these bounds.* Two tiers have one move up and one down; the third makes a held
tier that differs from both the applied tier and the top, hence leapfrogging
transitions and `escalate` to another tier than the held one. A channel of one is
full as soon as one transition waits, so dropping happens; the source's 32 only
delays it. Two gate goroutines give an open and a superseded one in every order.
Windows of 0 in the core make every matching tick confirm, which maximises the
transitions in flight; longer and unequal windows are checked where they matter, on
the evaluator. Lock durations of 1 let a lock be taken, last and expire. The
queue's three writes against two slots reach overflow, expiry and a stranded write
together; one of them is an order, as orders meet each other in the queue only. A
live request of 3 units against a cadence of 2 overruns its ticker, as the 5 s of the
HTTP client overrun the default cadence of 2 s; the stale timeout of 4 lies beyond both. `Lag` and `StaleBy` are exact there:
with either bound one unit less, TLC finds a violation. Two reconciles at once suffice for
every overlap of two calls. One node lets the two loops and the administrator meet on it; for several nodes there are the
theorems of `ReconcilerProofs`, which hold for any set of nodes. `MaxPods` of 2 pins the HPA of an owner's
1 to 2.

Two thresholds make bounds of two
comparators meet, cross, nest and leave a gap; three tiers make the cursor of the
scan remember an interval that is not the last. `Infinity` is 6, which leaves a
value on each side of each threshold. The theorems hold for any number of tiers and
values.

*Symmetry* is used on gate goroutines and workers in safety runs only;
`CHOOSE` is not used there and no property names one of them. `k8s` has a *view*
(`MCView`): what a goroutine has read counts up to the last step that uses it, and
of the troubles only what the properties ask; states that agree in that have the same
steps and properties.

*Deadlock* is checked in every run but those of the compiler: the environment can
always move, and a compilation ends.

### Fairness

`EvaluatorLoop!Fairness` and `Enforcement!Fairness` are weak fairness of what the Go
runtime owes: the ticker fires and the loop runs (`EngineStep`), the drain takes the
next transition, each gate goroutine goes on, a `Respond` under way sends, and time
passes (`Clock`). A gate goroutine in its select is not stuck: its timer is part of
`Select`. One that still notifies may be: `Notify` is fair only in `AnsweredSpec`, where
`NotificationsReturn` states what the code relies on and does not enforce. `HoldsEnd` is checked with
it (`core_live`) and refuted without it (`slack_hangs`). `Converges` (`core_gates`) is checked with it as well, though the code needs
it less there, as a tier still held counts as reached: without it, calls that hang
use up the pool of goroutines, of which the code has as many as it asks for.
Nothing is assumed of signals, overrides, releases or answers. `SignalBus` and `Storefront` state no fairness: the deadlines are safety
properties. `Converges`
concerns behaviours in which signals settle, operators fall silent and no
transition was lost from some time on. `QueuedLeaves` assumes no fairness, only
that the ladder keeps entering and leaving the queueing tiers.

## 4. What is proved

`tlapm` proves what follows of evaluator and core from `LadderAssumption`, `EvaluatorAssumption`,
`GateAssumption` and `EngineAssumption` alone, which say that tiers are `1..N` with
`N > 0`, windows are naturals, locks last at least one unit, `NoGate` is not a gate,
and the channel holds at least one transition. Pools may be of any size. The bus is
proved from `BusAssumption`, the storefront from the queue's, tiers' and modes' assumptions.

*Evaluator* (`EvaluatorProofs`, on the lemmas of `TierEvaluatorLemmas`).
`EvaluatorCoherent`: `EvCoherent` is inductive together with the types. Its
conjunct "the stored direction is the direction of the move" is the reason why an
unlocked evaluator cannot confirm a recovery in the shorter up window: `current`
moves only when the candidate is cleared. `BreachIsSustained` needs one more
conjunct that links the evaluator's own clock to the history: as long as there is a
candidate, `seen[candidate] >= age`. `LocksHold` needs the first only.

*Core* (`EnforcementProofs`). `IInv` is types, `EvCoherent` and `GateInv`, where

- `HeldTierHasLiveGate` says what a held tier relies on,
- `OthersAreCancelled` that every other goroutine has been cancelled,
- `GoroutineInv` that only a cancelled gate decides it was superseded, and
- `PendingIsRegistered` where `HumanGate.pending` may point.

None is inductive alone. That a superseded outcome never reaches `resolveGate` with
its gate open (`SupersededIsNeverOpen`) takes three: the open gate is the last
opened, the last opened is uncancelled, and superseded gates are cancelled.
`GatedRiseIsDecided` follows step by step from `IInv`: of all actions only
`HandleTransition` without a gate, `Force` and `resolveGate` write `applied`; the
first never rises into a gated tier by `NeedsGate`, the second locks, the third is
the decision the property speaks of. `CancelledGateIsInert` is `OthersAreCancelled`
read backwards: a cancelled gate is not the open one, so `resolveGate` returns early.
`EnforcerFollows` and `LockPinsEnforcer` are proved together, strengthened with what
the channel holds: `Heading` is the newest of proposal, channel, held and applied
tier, and a step moves a tier from one of these places to the next.

`OpenGatesAreAnswerable` takes `Answerable`: from the registration of the open gate to its decision `pending` points
to it and no goroutine is left that has yet to register. It has the hypothesis
`OrderedStart`, without which `late_gate` refutes `OpenGateIsAnswerable`.

*Refinement* (end of `EnforcementProofs`). `CoreKeepsContract` is `Spec => KeepsContract` for the
mapping above. `IInv` is what makes the steps map: `ResolveGate` on an open gate must be `Admit` of the tier
held or a `Pin`, which takes that the open gate's tier is `pendingTier`; superseded
ones must be stutters. `Dispatch` is a `Request`, or a stutter if it drops; `Tick` stutters, or is an `Unpin`
if it finds the lock expired; `Release` is an `Unpin`. `HeldTiersAreAbove` and
`ContractHoldsRises` are proved of the contract alone: a held tier is
gated and above the tier in effect, and rises into gated tiers are held or locked first.
`CoreHoldsRises` carries both over to the core.

*Signal bus* (`SignalBusProofs`). No deadline is inductive alone. `BusInvariant` adds for
every signal that what has elapsed plus what may remain stays within the bound:
since the last success, there is at most the rest of a cadence, a tick that
waits, and the rest of a request. `StaleIsTimely`, `SteadySourcesArrive` and
`BusTypeCorrect` are its
consequences; the first also needs that a mark is set only by a fetch, after the
timeout, and cleared by the next success.

*Induction* (`FilteringLemmas`). The library's induction theorems take the property as an operator,
which no installed prover can instantiate. `Induct` takes the *set* of the numbers that have it instead, and is
derived from the naturals being well-founded (`LeastNumber`): a set that is not all of
`0..m` would have a least element missing. With it a recursive function is shown to
exist, so that its defining equation may be used (`RetainedStep`), and `Retain`, the
loop of `evict`, is known by what it does to a prefix, to `Append`, to `\o`, to a second
filter, and to sequences with corresponding elements.

*Queue and storefront* (`StorefrontProofs`, from the assumptions on queue, tiers and modes).
`AcceptedWritesStayInOrder` rests on `QueueInv`: no write is queued twice, the
`fate` of every write in the queue and in the histories is what its place says, and the accepted writes still alive are the drained followed
by the queued. Each operation evicts first, so the central lemma is `EvictingKeepsOrder`:
dropping from the history what has expired (`RetainTwice`, `RetainConcat`) leaves what
`evict` leaves of the queue. `ExpiredWritesAreNotReplayed` and the bound on the depth in
`ShopTypeCorrect` come from the same invariant. `StrandedWritesWereOvertaken` (`BufferInv`) follows
a write from the check in `handleWrite` to its `Enqueue`: in a tier that does not queue, the writes
that are queued or still on their way were overtaken. `CustomersAreToldTheTruth` (`AnswersInv`) ties what
the checkout has heard to the fate of the order, case by case. `OrdersAreConfirmedByMode` follows from a chain: while
nobody has overridden the sidecar its tier is the applied one, so a checkout that is
open and sees full service has `mayBuy`: it was recorded when the order was
placed or when the tier was entered.

*Reconciler* (`ReconcilerProofs`, from `ReconcilerAssumption`). Types and `CordonsAreOwned` are inductive as they
are. What a reconcile achieves when nothing disturbs it has to be known call by
call: `OnItsWay` says what it has read and done by the call that comes next, and
`AloneInv` that a goroutine at work while `clean` is alone and on its way. Within the loops over
the nodes it says which are left: those not yet cordoned, or all that are still owned. At its end
`OnItsWay` is `LoneReconcileEnforces`. For the owner's bounds `BoundsAt` does the same
as long as there was no trouble at all: between reconciles the HPA is free or locked,
and every call in between leaves the originals in one of the two places.
`BoundsAreNeverLost` and `NominalLeavesNothing` follow. The proof of the types found
a fault of the model, not of the code: sizes were bounded without `TargetWarm`, so that `TypeOK` failed for
instances with a larger `TargetWarm` than TLC had been given; `Sizes` now includes it.

*Compiler* (`CompilerProofs`, from `InfinityAssumption`, `ConditionsAssumption` and
`PoliciesAssumption`: policies are records of tiers, names, services and conditions of any
depth). `CompilerInv` puts three invariants together. `EmitInv`: once validated, the errors contain those
of `ShapeErrors`, and a bundle is emitted only without any. `LadderInv`: there is no ladder to scan,
or `ScanInv`. And `BlastInv`. `CompilerTypeCorrect` follows.

- *Gap scan.* The lemmas `SatisfiedIsWithin` and
  `WithinIsSatisfied` relate the engine's reading of a comparator to the compiler's.
  `ScanInv` then speaks of intervals only: as long as nothing is reported the
  intervals handled cover everything from the lowest bound to the cursor
  (`CoverInv`), the cursor is above all of them (`UpperInv`), no interval reaches into a
  reported gap (`GapInv`), and a scan without a gap ended at the top (`TopInv`). That
  later intervals do not reach back into a gap is where the sorting is needed, so
  the type invariant contains `StablySorts`. `AcceptedLaddersAreCovered` and
  `GapsAreUncoveredInside` follow from the last state of the loop.
- *Cycle search.* `SearchFindsCycles`, for any finite graph and without an assumption: the depth-first search, its
  recursion unfolded into a stack, reports a cycle exactly when there is one. `BlastInv`
  says that the grey nodes are those on the stack, each once (`GreyIsOnStack`), that
  each frame was pushed for the neighbour the one below has just passed (`StackIsPath`), that the other passed
  neighbours are black (`PassedAreBlack`), and that the black nodes have ranks that
  decrease along edges (`BlackIsRanked`): a node that turns black gets a rank above all.
  A ranked graph has no cycle (`RankedIsAcyclic`, by `Induct`). A back edge closes one
  with the frames above it, and there are no more of those than nodes (`StackIsBounded`), so
  it is a cycle in the sense of `Cyclic`. `PolicyCyclesAreFound` states it of the compiler.
- *Conditions.* `NestedInduct` is induction over conditions, by a counterexample of least depth.
  `NestedRecursion` shows that a function defined by recursion over them exists: what the recursion makes of a
  function is itself a value here, a function on functions, so one proof serves both recursions.
  So `evalCondition` and the walk are what their calls make of them (`EvalStep`,
  `LeavesStep`). A condition depends on the signals the walk finds (`EvalOfKnown`) and is monotonic in the
  signals that are known (`EvalIsMonotonic`); with `MatchIs`, `NamedIndex` and what `ShapeErrors` rules out
  (`ShapeIsSound`) this gives `BundlesNeedDeclaredSignals`, `MissingSignalsOnlyHide` and
  `MatchedNamesAreFound`. `EmittedComparatorsAreSatisfiable` is where thresholds must be even.

## 5. What is only model-checked, and what is not modelled

Liveness (`SettlesOnSignals`, `HoldsEnd`, `Converges`, `QueuedLeaves`) is beyond
TLAPS and is checked on the instances above.

Every safety invariant and action property that a passing run checks is proved. `ReportedGapsAreReal`,
`OpenGateIsAnswerable` without `OrderedStart`, `SignalsDriveAgain` and `HoldsEnd` without
`NotificationsReturn` do not hold (section 6).

Not modelled: the compiler's warnings and the encoding of the bundle; the table of
features, which applications read like the mode; the audit ring, metrics, collectors, the contents of
notifications, configuration, console views, policy lab, CLI and the shop's other
pages (input, output and wiring; they hold no state the rest depends on). A
shutdown abandons transitions and gates; as nothing of them is persisted, a restart is a new behaviour from
`Init`, and only where something survives it, the cluster and the customers, is it a
step (`Crash`, `Restart`). By how much slow notifications delay the timer of a gate beyond its
published deadline (`gate.go:133`) only a timed model of the gate could state. The bus and the
evaluator are not composed: `SignalsMove` allows more than any bus.

## 6. Findings

Each is a run that TLC refutes; `PROJECT.json` quotes the sentence it disagrees with.

1. `late_gate`: a superseded gate goroutine that starts late takes over
   `HumanGate.pending`; the open gate cannot be answered and will time out.
2. `release_stuck`: a transition in flight when an operator forces a tier is applied
   afterwards, under the lock; evaluator and enforcer then disagree until the next
   confirmed transition, which steady signals never cause.
3. `false_gap`: a complete ladder is rejected when an open and a closed interval start
   at the same value and the open one is declared first.
4. `slack_hangs`: a Slack webhook that never answers keeps the dead man's switch from being
   armed; the hold ends neither by timeout nor by an answer.

The conditions of the properties that hold say what else can go wrong; each is
needed.

- `EnforcerFollows` and `LockPinsEnforcer` exclude a last transition that was dropped
  by a full channel or overtaken by a lock (`raced`). Either is enough to violate `SignalsDriveAgain`:
  with `LockDurations = {}`, which leaves the drop only, TLC finds a violation too.
- `StrandedWasOvertaken`: a write admitted before a tier is left may be queued after
  the drain. This is the only way, and by `QueuedLeaves` it does not stay for good.
- `BoundsRecoverable` needs that no call failed, no reconciles overlapped and the
  engine was not restarted: `lockHPA` ignores a failed annotation and pins the HPA
  all the same, judges "first lock" by a Deployment read earlier, and by the first
  of two annotations only.
- `CordonsAreOwned` allows refused calls and overlap, not lost answers or restarts:
  a cordon that was carried out but not answered is not recorded, and the record is
  in memory.
- `NominalUndoesAll` says nothing of nodes an administrator cordoned. One cordoned after `cordonAll`
  listed the nodes (`AdminCordon` between `ListNodes` and `CordonNode`) is recorded as the engine's own and
  uncordoned with the rest, although `uncordonOwned` "uncordons only nodes that IDDC previously
  cordoned".
- `LoneReconcileEnforces` starts with an applied transition: a restarted engine
  applies its first tier without reconciling it.
- `LoneReconcileEnforces` speaks of a reconcile that runs alone. Of two that overlap, that of the tier already left may have
  the last word: the reconcile of `nominal` finds nothing to unpause, then that of `critical`
  pauses. Rollouts stay as it left them until the next reconcile that runs alone.
- `StaleMeansOld` says when a signal is marked, not what follows: the evaluator reads
  values and not marks, so a stale value drives the tier for as long as the source is
  silent. A signal that was never fetched is missing and never marked.
- `SteadyArrives` leaves one cadence in which of two values injected together one has arrived:
  a tick then evaluates a combination nobody sent. Hysteresis hides it unless the window is zero.
- `AnswersMatchFates` leaves out orders whose answer was lost. The customer is told to
  retry and may then have two orders in the queue. An order told to be
  "processed shortly" may still expire or be lost in a restart.
- The engine answers a write outside queueing tiers with 409, "write to the backend directly"; the shop tells the customer to retry.
- `ConfirmedByMode` needs its exceptions. The shop fails open when it cannot reach the
  sidecar, and the sidecar is part of the engine's process, so that is also while the engine restarts. A `Force` to the tier already applied returns
  early in `applyLocked` and leaves an overridden sidecar as it is.

## 7. Plan

1. *Done*: evaluator, engine, enforcer and gate with proofs; write queue;
   reconciler.
2. *Done*: comparators, conditions and compiler, with proofs of the gap scan.
3. *Done*: the contract of the core, and its refinement checked and proved.
4. *Done*: the signal bus with its fetchers, in discrete time, with proofs; sidecar,
   shop and restarts around the write queue.
5. *Done*: proofs of every safety invariant of reconciler, queue, sidecar and shop, and
   of the cycle search; the contract's properties carried over to the core.
6. *Done*: conditions as recursive functions, and proofs of the compiler as a whole.
7. *Done*: notifications as a stage of the gate, the loops over the nodes call by call.
8. A timed gate, for the published deadline (`gate.go:133`).
9. The policy lab's `scenarioFor`, which promises a scenario for every tier; the
   audit ring.
