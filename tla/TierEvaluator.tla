--------------------------- MODULE TierEvaluator ---------------------------
(***************************************************************************)
(* The tier evaluator (pkg/runtime/evaluator.go): hysteresis and the tier  *)
(* lock.  Each operation runs under TierEvaluator.mu, so each is one       *)
(* action.  The module constrains only its own variables; the modules that *)
(* extend it say when an operation is called.                              *)
(*                                                                         *)
(* Time is kept as durations instead of instants: age is                   *)
(* now - candidateStart (saturating at the longer window, beyond which     *)
(* nothing depends on it) and lockLeft is lockUntil - now (zero from the   *)
(* instant the lock expires).  Elapse is the passing of one unit.          *)
(***************************************************************************)
EXTENDS Ladder

CONSTANTS
    UpHysteresis,     \* EvaluatorConfig.UpHysteresis, in time units
    DownHysteresis,   \* EvaluatorConfig.DownHysteresis
    LockDurations     \* the durations operators and the enforcer lock for

ASSUME EvaluatorAssumption ==
    /\ UpHysteresis \in Nat
    /\ DownHysteresis \in Nat
    /\ LockDurations \subseteq Nat \ {0}

VARIABLES
    match,         \* the tier MatchTier returns for the current signal values
    current,       \* currentTier (currentTierIdx is the same number)
    candidate,     \* candidateTier, NoTier when ""
    direction,     \* candidateUp, as Up or Down; Down while candidate is NoTier
    age,           \* now - candidateStart; 0 while candidate is NoTier (neither is
                   \* read then)
    locked,        \* lockedTier, NoTier when ""
    lockLeft       \* lockUntil - now, never below 0

lockVars == <<locked, lockLeft>>
evVars   == <<match, current, candidate, direction, age, locked, lockLeft>>

Up   == "up"
Down == "down"
Directions == {Up, Down}

LongestWindow == IF UpHysteresis > DownHysteresis THEN UpHysteresis ELSE DownHysteresis

EvTypeOK ==
    /\ match \in Tiers
    /\ current \in Tiers
    /\ candidate \in TierOrNone
    /\ direction \in Directions
    /\ age \in 0..LongestWindow
    /\ locked \in TierOrNone
    /\ lockLeft \in Nat

EvInit ==
    /\ match \in Tiers
    /\ current = Bottom
    /\ candidate = NoTier
    /\ direction = Down
    /\ age = 0
    /\ locked = NoTier
    /\ lockLeft = 0

-----------------------------------------------------------------------------
ClearCandidate ==
    /\ candidate' = NoTier
    /\ direction' = Down
    /\ age' = 0

\* Mutation of LockTier: a candidate survives the lock.
LockTierKeepingCandidate(t, d) ==
    /\ locked' = t
    /\ lockLeft' = d
    /\ current' = t
    /\ UNCHANGED <<match, candidate, direction, age>>

\* LockTier(t, d) for a declared tier t; an unknown name changes nothing.
LockTier(t, d) ==
    /\ locked' = t
    /\ lockLeft' = d
    /\ current' = t
    /\ ClearCandidate
    /\ UNCHANGED match

\* Unlock leaves the current tier and any candidate alone.
Unlock ==
    /\ locked' = NoTier
    /\ lockLeft' = 0
    /\ UNCHANGED <<match, current, candidate, direction, age>>

\* LockState().locked: a lock is in force.
Locked == locked # NoTier /\ lockLeft > 0

DirectionTo(m) == IF m > current THEN Up ELSE Down

Window(d) == IF d = Up THEN UpHysteresis ELSE DownHysteresis

\* Evaluate will return changed = true: m has been the candidate for its whole
\* window, or its window is empty.
Confirms(m) ==
    /\ ~Locked
    /\ m # current
    /\ \/ candidate = m /\ age >= Window(direction)
       \/ candidate # m /\ Window(DirectionTo(m)) = 0

ObserveLocked ==
    /\ Locked
    /\ UNCHANGED <<current, candidate, direction, age, lockVars>>

\* An expired lock is forgotten by the next call that finds it.
DropExpiredLock == ~Locked /\ locked' = NoTier /\ UNCHANGED lockLeft

ObserveCurrent(m) ==
    /\ DropExpiredLock
    /\ m = current
    /\ ClearCandidate
    /\ UNCHANGED current

\* Mutations of StartOrKeepCandidate: the clock of one candidate is inherited by
\* the next, and the clock restarts at every tick.
InheritCandidateAge(m) ==
    /\ DropExpiredLock
    /\ m # current
    /\ ~Confirms(m)
    /\ candidate' = m
    /\ direction' = DirectionTo(m)
    /\ UNCHANGED <<current, age>>

RestartCandidate(m) ==
    /\ DropExpiredLock
    /\ m # current
    /\ ~Confirms(m)
    /\ candidate' = m
    /\ direction' = DirectionTo(m)
    /\ age' = 0
    /\ UNCHANGED current

StartOrKeepCandidate(m) ==
    /\ DropExpiredLock
    /\ m # current
    /\ ~Confirms(m)
    /\ candidate' = m
    /\ direction' = IF candidate = m THEN direction ELSE DirectionTo(m)
    /\ age' = IF candidate = m THEN age ELSE 0
    /\ UNCHANGED current

ConfirmTransition(m) ==
    /\ Confirms(m)
    /\ DropExpiredLock
    /\ current' = m
    /\ ClearCandidate

\* Mutation of Evaluate: worsening signals break through the lock.
EvaluateUpThroughLock(m) ==
    /\ \/ m <= current /\ ObserveLocked
       \/ Locked /\ m > current /\ current' = m /\ ClearCandidate /\ UNCHANGED lockVars
       \/ ObserveCurrent(m)
       \/ StartOrKeepCandidate(m)
       \/ ConfirmTransition(m)
    /\ UNCHANGED match

\* Evaluate(snap) where MatchTier(snap) = m.
Evaluate(m) ==
    /\ \/ ObserveLocked
       \/ ObserveCurrent(m)
       \/ StartOrKeepCandidate(m)
       \/ ConfirmTransition(m)
    /\ UNCHANGED match

-----------------------------------------------------------------------------
\* The environment: signal values move so that another tier matches, and time
\* passes.
SignalsMove ==
    /\ match' \in Tiers \ {match}
    /\ UNCHANGED <<current, candidate, direction, age, lockVars>>

Elapse ==
    /\ age' = IF candidate # NoTier /\ age < LongestWindow THEN age + 1 ELSE age
    /\ lockLeft' = IF lockLeft > 0 THEN lockLeft - 1 ELSE 0
    /\ UNCHANGED <<match, current, candidate, direction, locked>>

-----------------------------------------------------------------------------
\* The evaluator's bookkeeping agrees with the tier it is about: a candidate is
\* always another tier than the current one, its stored direction is the
\* direction of the move it would make now although current may have been
\* relocked since, and while a lock is stored (in force, or expired and not yet
\* noticed) the current tier is the locked one and no candidate is pending.
EvCoherent ==
    /\ candidate # NoTier => candidate # current /\ direction = DirectionTo(candidate)
    /\ locked # NoTier => current = locked /\ candidate = NoTier
    /\ locked = NoTier => lockLeft = 0

=============================================================================
