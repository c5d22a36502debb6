-------------------------- MODULE EvaluatorProofs --------------------------
(***************************************************************************)
(* Theorems about the evaluator, for every ladder and all windows and lock *)
(* durations.  The strengthening that makes the hysteresis promise         *)
(* inductive relates the evaluator's candidate clock to the history of     *)
(* ticks: the candidate's age never exceeds the time for which every tick  *)
(* has seen it.                                                            *)
(***************************************************************************)
EXTENDS EvaluatorLoop, TierEvaluatorLemmas

SeenType == seen \in [Tiers -> Unseen..LongestWindow]

CandidateIsSeen == candidate # NoTier => seen[candidate] >= age

LoopInv == EvInv /\ SeenType /\ CandidateIsSeen

\* Every action of the loop keeps the history's type.
LEMMA SeenStep == LoopInv /\ [Next]_vars => SeenType'
<1> SUFFICES ASSUME LoopInv, [Next]_vars PROVE SeenType'
  OBVIOUS
<1> USE Bounds DEF LoopInv, SeenType, Unseen
<1>1. Forget \in [Tiers -> Unseen..LongestWindow]
  BY DEF Forget
<1>2. \A m \in Tiers : SeenOnTick(m) \in [Tiers -> Unseen..LongestWindow]
  BY DEF SeenOnTick
<1>3. CASE Tick
  BY <1>1, <1>2, <1>3 DEF Tick, EvInv, EvTypeOK
<1>4. CASE Pass
  BY <1>4 DEF Pass
<1>5. CASE Move \/ Release
  BY <1>5 DEF Move, Release
<1>6. CASE Lock
  BY <1>1, <1>6 DEF Lock
<1>7. CASE UNCHANGED vars
  BY <1>7 DEF vars
<1> QED
  BY <1>3, <1>4, <1>5, <1>6, <1>7 DEF Next

\* Every action keeps the evaluator's own invariant.
LEMMA EvStep == LoopInv /\ [Next]_vars => EvInv'
<1> SUFFICES ASSUME LoopInv, [Next]_vars PROVE EvInv'
  OBVIOUS
<1>0. EvInv
  BY DEF LoopInv
<1>1. CASE Tick
  BY <1>0, <1>1, EvaluateInv DEF Tick
<1>2. CASE Pass \/ Move
  BY <1>0, <1>2, WorldInv DEF Pass, Move
<1>3. CASE Lock
  BY <1>0, <1>3, LockTierInv DEF Lock
<1>4. CASE Release
  BY <1>0, <1>4, UnlockInv DEF Release
<1>5. CASE UNCHANGED vars
  BY <1>0, <1>5 DEF vars, evVars, EvInv, EvTypeOK, EvCoherent, DirectionTo
<1> QED
  BY <1>1, <1>2, <1>3, <1>4, <1>5 DEF Next

\* The candidate's age is covered by the history of ticks.
LEMMA CandidateStep == LoopInv /\ [Next]_vars => CandidateIsSeen'
<1> SUFFICES ASSUME LoopInv, [Next]_vars, candidate' # NoTier
             PROVE  seen'[candidate'] >= age'
  BY DEF CandidateIsSeen
<1> USE Bounds DEF LoopInv, SeenType, CandidateIsSeen, Unseen
<1>0. /\ match \in Tiers /\ candidate \in TierOrNone /\ age \in 0..LongestWindow
      /\ candidate # NoTier => candidate \in Tiers
  BY DEF EvInv, EvTypeOK, TierOrNone
<1>1. CASE Tick
  <2>1. CASE ObserveLocked
    BY <1>0, <1>1, <2>1 DEF Tick, ObserveLocked, lockVars
  <2>2. CASE StartOrKeepCandidate(match)
    <3>1. ~Locked /\ ~Confirms(match) /\ candidate' = match
      BY <2>2 DEF StartOrKeepCandidate, DropExpiredLock
    <3>2. seen' = SeenOnTick(match)
      BY <1>1, <3>1 DEF Tick
    <3>3. seen'[match] = IF seen[match] = Unseen THEN 0 ELSE seen[match]
      BY <1>0, <3>2 DEF SeenOnTick
    <3>4. seen[match] \in Unseen..LongestWindow
      BY <1>0
    <3>5. CASE candidate = match
      BY <1>0, <2>2, <3>1, <3>3, <3>4, <3>5 DEF StartOrKeepCandidate
    <3>6. CASE candidate # match
      BY <1>0, <2>2, <3>1, <3>3, <3>4, <3>6 DEF StartOrKeepCandidate
    <3> QED
      BY <3>5, <3>6
  <2>3. CASE ObserveCurrent(match) \/ ConfirmTransition(match)
    BY <2>3 DEF ObserveCurrent, ConfirmTransition, ClearCandidate
  <2> QED
    BY <1>1, <2>1, <2>2, <2>3 DEF Tick, Evaluate
<1>2. CASE Pass
  <2>1. candidate' = candidate /\ candidate \in Tiers
    BY <1>0, <1>2 DEF Pass, Elapse
  <2>2. /\ seen[candidate] \in Unseen..LongestWindow /\ seen[candidate] >= age
        /\ seen'[candidate] = IF seen[candidate] # Unseen /\ seen[candidate] < LongestWindow
                              THEN seen[candidate] + 1 ELSE seen[candidate]
        /\ age' = IF age < LongestWindow THEN age + 1 ELSE age
    BY <1>2, <2>1 DEF Pass, Elapse
  <2> QED
    BY <1>0, <2>1, <2>2
<1>3. CASE Move \/ Release
  BY <1>3 DEF Move, Release, SignalsMove, Unlock
<1>4. CASE Lock
  BY <1>4 DEF Lock, LockTier, ClearCandidate
<1>5. CASE UNCHANGED vars
  BY <1>5 DEF vars, evVars
<1> QED
  BY <1>1, <1>2, <1>3, <1>4, <1>5 DEF Next

\* The inductive invariant of the evaluator and its history.
THEOREM LoopInvariant == Spec => []LoopInv
<1>1. Init => LoopInv
  <2>1. Init => SeenType
    BY Bounds DEF Init, SeenType, Forget, Unseen
  <2>2. Init => CandidateIsSeen
    BY DEF Init, EvInit, CandidateIsSeen
  <2> QED
    BY <2>1, <2>2, EvInitInv DEF Init, LoopInv
<1>2. LoopInv /\ [Next]_vars => LoopInv'
  BY EvStep, SeenStep, CandidateStep DEF LoopInv
<1> QED
  BY <1>1, <1>2, PTL DEF Spec

\* Types and the coherence of lock, candidate and stored direction.
THEOREM EvaluatorCoherent == Spec => []TypeOK /\ []EvCoherent
<1>1. LoopInv => TypeOK /\ EvCoherent
  BY DEF LoopInv, SeenType, EvInv, TypeOK
<1> QED
  BY <1>1, LoopInvariant, PTL

\* README, hysteresis: no tier is left on signals before every tick of the whole
\* window has agreed on the new one (evaluator.go, Evaluate).
THEOREM BreachIsSustained == Spec => SustainedBreach
<1>1. ASSUME LoopInv, [Next]_vars, current' # current, locked' = NoTier
      PROVE  \/ seen[current'] >= Window(DirectionTo(current'))
             \/ Window(DirectionTo(current')) = 0
  <2>0. EvInv /\ match \in Tiers
    BY <1>1 DEF LoopInv, EvInv, EvTypeOK
  <2>1. CASE Tick
    <3>1. Confirms(match) /\ current' = match
      BY <1>1, <2>0, <2>1, EvaluateEffect DEF Tick
    <3>2. CASE candidate = match /\ age >= Window(direction)
      <4>1. seen[match] >= age /\ direction = DirectionTo(match)
        BY <1>1, <2>0, <3>2, Bounds
        DEF LoopInv, CandidateIsSeen, EvInv, EvCoherent, Tiers, NoTier
      <4>2. seen[match] \in Int /\ age \in Int /\ Window(direction) \in Int
        BY <1>1, <2>0, Bounds DEF LoopInv, SeenType, EvInv, EvTypeOK, Unseen, Window
      <4> QED
        BY <3>1, <3>2, <4>1, <4>2
    <3>3. CASE candidate # match /\ Window(DirectionTo(match)) = 0
      BY <3>1, <3>3
    <3> QED
      BY <3>1, <3>2, <3>3 DEF Confirms
  <2>2. CASE Lock
    <3>1. PICK t \in Tiers : locked' = t
      BY <2>2 DEF Lock, LockTier
    <3> QED
      BY <1>1, <3>1, Bounds DEF Tiers, NoTier
  <2>3. CASE UNCHANGED current
    BY <1>1, <2>3
  <2> QED
    BY <1>1, <2>1, <2>2, <2>3
    DEF Next, Pass, Elapse, Move, SignalsMove, Release, Unlock, vars, evVars
<1>2. LoopInv /\ [Next]_vars =>
        [ (current' # current /\ locked' = NoTier)
          => \/ seen[current'] >= Window(DirectionTo(current'))
             \/ Window(DirectionTo(current')) = 0 ]_vars
  BY <1>1
<1> QED
  BY <1>2, LoopInvariant, PTL DEF Spec, SustainedBreach

\* evaluator.go, LockTier: under a lock in force only a new lock moves the tier.
THEOREM LocksHold == Spec => LockIgnoresSignals
<1>1. ASSUME LoopInv, [Next]_vars, Locked, current' # current
      PROVE  locked' = current' /\ lockLeft' > 0
  <2>1. CASE Tick
    BY <1>1, <2>1, EvaluateEffect DEF Tick, LoopInv, Confirms
  <2>2. CASE Lock
    BY <2>2, LocksLast DEF Lock, LockTier
  <2>3. CASE UNCHANGED current
    BY <1>1, <2>3
  <2> QED
    BY <1>1, <2>1, <2>2, <2>3
    DEF Next, Pass, Elapse, Move, SignalsMove, Release, Unlock, vars, evVars
<1>2. LoopInv /\ [Next]_vars =>
        [(Locked /\ current' # current) => locked' = current' /\ lockLeft' > 0]_vars
  BY <1>1
<1> QED
  BY <1>2, LoopInvariant, PTL DEF Spec, LockIgnoresSignals

=============================================================================
