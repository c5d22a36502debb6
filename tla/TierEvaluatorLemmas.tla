------------------------ MODULE TierEvaluatorLemmas ------------------------
(***************************************************************************)
(* What every operation of the evaluator preserves, for the proofs of the  *)
(* modules that extend it.                                                 *)
(***************************************************************************)
EXTENDS TierEvaluator, TLAPS

\* The two invariants every operation preserves together.
EvInv == EvTypeOK /\ EvCoherent

\* The ladder has a bottom tier, and the saturation bound of age is a natural
\* number no smaller than either window.
LEMMA Bounds ==
    /\ N \in Nat /\ N >= 1
    /\ UpHysteresis \in Nat /\ DownHysteresis \in Nat
    /\ LongestWindow \in Nat
    /\ LongestWindow >= UpHysteresis /\ LongestWindow >= DownHysteresis
  BY LadderAssumption, EvaluatorAssumption
  DEF LadderAssumption, EvaluatorAssumption, LongestWindow

\* Every lock has a positive duration.
LEMMA LocksLast == \A d \in LockDurations : d \in Nat /\ d > 0
  BY EvaluatorAssumption DEF EvaluatorAssumption

\* The evaluator starts coherent (NewTierEvaluator).
LEMMA EvInitInv == EvInit => EvInv
<1> SUFFICES ASSUME EvInit PROVE EvTypeOK /\ EvCoherent
  BY DEF EvInv
<1>1. EvTypeOK
  BY Bounds DEF EvInit, EvTypeOK, Directions, Up, Down, Tiers, TierOrNone, Bottom
<1>2. EvCoherent
  BY DEF EvInit, EvCoherent
<1> QED
  BY <1>1, <1>2

\* LockTier on a declared tier preserves type and coherence.
LEMMA LockTierInv ==
    ASSUME EvInv, NEW t \in Tiers, NEW d \in LockDurations, LockTier(t, d)
    PROVE  EvInv'
<1>1. EvTypeOK'
  BY Bounds, LocksLast DEF EvInv, EvTypeOK, Directions, Up, Down, LockTier, ClearCandidate, TierOrNone
<1>2. EvCoherent'
  <2>1. t # NoTier
    BY Bounds DEF Tiers, NoTier
  <2> QED
    BY <2>1 DEF EvCoherent, LockTier, ClearCandidate
<1> QED
  BY <1>1, <1>2 DEF EvInv

\* Unlock preserves type and coherence.
LEMMA UnlockInv == EvInv /\ Unlock => EvInv'
<1> SUFFICES ASSUME EvInv, Unlock PROVE EvTypeOK' /\ EvCoherent'
  BY DEF EvInv
<1>1. EvTypeOK'
  BY DEF EvInv, EvTypeOK, Unlock, TierOrNone, NoTier
<1>2. EvCoherent'
  BY DEF DirectionTo, EvInv, EvTypeOK, EvCoherent, Unlock, NoTier
<1> QED
  BY <1>1, <1>2

\* One evaluation preserves type and coherence, whichever branch it takes.
LEMMA EvaluateInv ==
    ASSUME EvInv, Evaluate(match)
    PROVE  EvInv'
<1> USE DEF EvInv, lockVars, DropExpiredLock, Locked
<1>0. UNCHANGED match
  BY DEF Evaluate
<1>1. CASE ObserveLocked
  <2>1. EvTypeOK'
    BY <1>0, <1>1 DEF ObserveLocked, EvTypeOK
  <2>2. EvCoherent'
    BY <1>1 DEF ObserveLocked, EvCoherent
  <2> QED
    BY <2>1, <2>2
<1>2. CASE ObserveCurrent(match)
  <2>1. EvTypeOK'
    BY <1>0, <1>2, Bounds DEF ObserveCurrent, ClearCandidate, EvTypeOK, Directions, Up, Down, TierOrNone
  <2>2. EvCoherent'
    BY <1>2 DEF ObserveCurrent, ClearCandidate, DirectionTo, EvCoherent, EvTypeOK
  <2> QED
    BY <2>1, <2>2
<1>3. CASE StartOrKeepCandidate(match)
  <2>1. EvTypeOK'
    BY <1>0, <1>3, Bounds DEF StartOrKeepCandidate, DirectionTo, EvTypeOK, Directions, Up, Down, TierOrNone, Tiers
  <2>2. EvCoherent'
    BY <1>0, <1>3 DEF StartOrKeepCandidate, DirectionTo, EvCoherent, EvTypeOK
  <2> QED
    BY <2>1, <2>2
<1>4. CASE ConfirmTransition(match)
  <2>1. EvTypeOK'
    BY <1>0, <1>4, Bounds DEF ConfirmTransition, ClearCandidate, EvTypeOK, Directions, Up, Down, TierOrNone
  <2>2. EvCoherent'
    BY <1>4 DEF ConfirmTransition, ClearCandidate, DirectionTo, EvCoherent, EvTypeOK
  <2> QED
    BY <2>1, <2>2
<1> QED
  BY <1>1, <1>2, <1>3, <1>4 DEF Evaluate

\* Signals moving and time passing preserve type and coherence.
LEMMA WorldInv == EvInv /\ (SignalsMove \/ Elapse) => EvInv'
<1>1. ASSUME EvInv, SignalsMove PROVE EvInv'
  <2>1. EvTypeOK'
    BY <1>1 DEF SignalsMove, EvInv, EvTypeOK, lockVars
  <2>2. EvCoherent'
    BY <1>1 DEF SignalsMove, DirectionTo, EvInv, EvCoherent, lockVars
  <2> QED
    BY <2>1, <2>2 DEF EvInv
<1>2. ASSUME EvInv, Elapse PROVE EvInv'
  <2>1. EvTypeOK'
    BY <1>2, Bounds DEF Elapse, EvInv, EvTypeOK
  <2>2. EvCoherent'
    BY <1>2 DEF Elapse, EvInv, DirectionTo, EvCoherent, EvTypeOK
  <2> QED
    BY <2>1, <2>2 DEF EvInv
<1> QED
  BY <1>1, <1>2

\* A confirmed transition moves current to the matching tier and leaves no lock;
\* any other evaluation leaves current alone and can only forget an expired lock.
LEMMA EvaluateEffect ==
    ASSUME EvInv, Evaluate(match)
    PROVE  /\ Confirms(match)  => current' = match /\ locked' = NoTier
           /\ ~Confirms(match) => current' = current
           /\ locked' # NoTier => Locked /\ locked' = locked
<1> USE DEF DropExpiredLock, Locked, lockVars
<1>1. CASE ObserveLocked
  BY <1>1 DEF ObserveLocked, Confirms
<1>2. CASE ObserveCurrent(match)
  BY <1>2 DEF ObserveCurrent, Confirms
<1>3. CASE StartOrKeepCandidate(match)
  BY <1>3 DEF StartOrKeepCandidate
<1>4. CASE ConfirmTransition(match)
  BY <1>4 DEF ConfirmTransition
<1> QED
  BY <1>1, <1>2, <1>3, <1>4 DEF Evaluate

=============================================================================
