--------------------------- MODULE EvaluatorLoop ---------------------------
(***************************************************************************)
(* The evaluator on its own: signals move, ticks evaluate, time passes and *)
(* operators lock and unlock at any moment.  The history variable seen     *)
(* records, for every tier, how long the ticks have been agreeing on it;   *)
(* it is computed from the ticks alone, never from the evaluator's own     *)
(* candidate bookkeeping.                                                  *)
(***************************************************************************)
EXTENDS TierEvaluator

VARIABLE seen   \* seen[t]: time since the first of the unbroken run of ticks
                \* that matched t, Unseen if the last tick matched another

Unseen == 0 - 1
vars   == <<evVars, seen>>

Forget == [t \in Tiers |-> Unseen]

SeenOnTick(m) ==
    [t \in Tiers |-> IF t # m THEN Unseen
                     ELSE IF seen[t] = Unseen THEN 0 ELSE seen[t]]

\* A tick of Engine.Start.  A confirmed transition starts the record afresh,
\* and a tick under a lock looks at no signal.
Tick ==
    /\ Evaluate(match)
    /\ seen' = IF Locked THEN seen
               ELSE IF Confirms(match) THEN Forget ELSE SeenOnTick(match)

Pass ==
    /\ Elapse
    /\ seen' = [t \in Tiers |-> IF seen[t] # Unseen /\ seen[t] < LongestWindow
                                THEN seen[t] + 1 ELSE seen[t]]

Move    == SignalsMove /\ UNCHANGED seen
Lock    == \E t \in Tiers, d \in LockDurations : LockTier(t, d) /\ seen' = Forget
Release == Unlock /\ UNCHANGED seen

Init == EvInit /\ seen = Forget
Next == Tick \/ Pass \/ Move \/ Lock \/ Release

\* Ticks keep coming and time passes: Engine.Start's ticker and the clock.
\* Signals and operators owe nothing.
Fairness == WF_vars(Tick) /\ WF_vars(Pass)

Spec     == Init /\ [][Next]_vars
FairSpec == Spec /\ Fairness

-----------------------------------------------------------------------------
\* Every variable of evaluator.go's TierEvaluator keeps its type.
TypeOK == EvTypeOK /\ seen \in [Tiers -> Unseen..LongestWindow]

\* The hysteresis promise (README, "hysteresis"): the evaluator leaves its tier
\* on a signal only for a tier that every tick has matched without interruption
\* for the whole window of that direction.
SustainedBreach ==
    [][ (current' # current /\ locked' = NoTier)
        => seen[current'] >= Window(DirectionTo(current')) \/ Window(DirectionTo(current')) = 0 ]_vars

\* evaluator.go, LockTier: "forces the evaluator to hold tierName for duration,
\* ignoring signals".  Under a lock in force the current tier changes only by a
\* new lock on the new tier.
LockIgnoresSignals ==
    [][ (Locked /\ current' # current) => locked' = current' /\ lockLeft' > 0 ]_vars

\* Once operators stop locking and the signals settle on a tier, the evaluator
\* gets there, whatever lock or candidate it was left with.
SettlesOnSignals ==
    \A t \in Tiers :
        (<>[](match = t) /\ <>[][~Lock]_vars) => <>[](current = t)

=============================================================================
