------------------------- MODULE EnforcementProofs -------------------------
(***************************************************************************)
(* Theorems about the enforcement core, for every ladder, every set of     *)
(* gate goroutines and operators, every channel capacity and every choice  *)
(* of windows and lock durations.                                          *)
(*                                                                         *)
(* IInv, the inductive invariant, is built up in parts:                    *)
(*   EvInv       the evaluator's own bookkeeping (TierEvaluatorLemmas)     *)
(*   TypeOK      types                                                     *)
(*   GoroutineInv, HeldTierHasLiveGate, OthersAreCancelled                 *)
(*               which goroutine may still deliver its decision            *)
(*                                                                         *)
(* The core implements the contract: every step of Enforcement is, with    *)
(* the variables mapped, a step of TierContract or changes none of its     *)
(* variables.  What the contract means for the service is proved from the  *)
(* contract's own steps, and so holds of the core.                         *)
(***************************************************************************)
EXTENDS Enforcement, TierEvaluatorLemmas, SequenceTheorems

-----------------------------------------------------------------------------
\* Typing of the operators that build new channel contents and answers.
LEMMA ChanTypes ==
    ASSUME EngineTypeOK, chan # <<>>
    PROVE  /\ Head(chan) \in Tiers
           /\ Tail(chan) \in Seq(Tiers)
           /\ Len(Tail(chan)) = Len(chan) - 1
           /\ Len(Tail(chan)) <= ChanCap
<1> USE DEF EngineTypeOK
<1>1. Len(chan) \in Nat /\ Len(chan) > 0
  OBVIOUS
<1>2. Head(chan) \in Tiers /\ Tail(chan) \in Seq(Tiers) /\ Len(Tail(chan)) = Len(chan) - 1
  BY <1>1
<1> QED
  BY <1>1, <1>2, EngineAssumption DEF EngineAssumption

\* The core starts with its types right.
LEMMA InitType == Init => TypeOK
<1> SUFFICES ASSUME Init PROVE EngineTypeOK /\ GateTypeOK /\ EnfTypeOK
  BY DEF TypeOK
<1>1. EngineTypeOK
  <2>1. EvTypeOK
    BY EvInitInv DEF Init, EngineInit, EvInv
  <2>2. chan \in Seq(Tiers) /\ Len(chan) <= ChanCap
    BY EngineAssumption DEF Init, EngineInit, EngineAssumption
  <2>3. raced \in BOOLEAN /\ proposal \in TierOrNone
    BY DEF Init, EngineInit, TierOrNone
  <2> QED
    BY <2>1, <2>2, <2>3 DEF EngineTypeOK
<1>2. GateTypeOK
  BY DEF Init, GateInit, GateTypeOK, Stages, TierOrNone
<1>3. EnfTypeOK
  BY Bounds DEF Init, EnfTypeOK, TierOrNone, Tiers, Bottom
<1> QED
  BY <1>1, <1>2, <1>3

-----------------------------------------------------------------------------
\* The gate's own steps keep its types, whatever the enforcer does meanwhile.
LEMMA GateStepTypes ==
    ASSUME GateTypeOK, NEW g \in Gates
    PROVE  /\ Register(g)     => GateTypeOK'
           /\ Notified(g)     => GateTypeOK'
           /\ Select(g)       => GateTypeOK'
           /\ Close(g)        => GateTypeOK'
           /\ EndGoroutine(g) => GateTypeOK'
<1> USE DEF GateTypeOK, Stages
<1>1. ASSUME Register(g) PROVE GateTypeOK'
  BY <1>1 DEF Register
<1>2. ASSUME Select(g) PROVE GateTypeOK'
  <2>1. ASSUME NEW d \in Answers \cup {TimedOut, Superseded, NoDecision}, Decide(g, d)
        PROVE  GateTypeOK'
    BY <2>1 DEF Decide
  <2>2. respCh[g] \in Answers \cup {NoDecision}
    OBVIOUS
  <2> QED
    BY <1>2, <2>1, <2>2 DEF Select, TakeAnswer, TimerFires, SeeCancel
<1>3. ASSUME Close(g) PROVE GateTypeOK'
  BY <1>3 DEF Close
<1>4. ASSUME EndGoroutine(g) PROVE GateTypeOK'
  BY <1>4 DEF EndGoroutine, TierOrNone
<1>5. ASSUME Notified(g) PROVE GateTypeOK'
  BY <1>5 DEF Notified
<1> QED
  BY <1>1, <1>2, <1>3, <1>4, <1>5

\* So do the two halves of an operator's answer.
LEMMA RespondTypes ==
    ASSUME GateTypeOK, NEW o \in Operators
    PROVE  /\ \A a \in Answers : RespondRead(o, a) => GateTypeOK'
           /\ RespondSend(o) => GateTypeOK'
<1>1. ASSUME NEW a \in Answers, RespondRead(o, a) PROVE GateTypeOK'
  <2>1. [gate |-> gpending, answer |-> a] \in InFlight
    BY <1>1 DEF RespondRead, GateTypeOK, InFlight
  <2> QED
    BY <1>1, <2>1 DEF RespondRead, GateTypeOK
<1>2. ASSUME RespondSend(o) PROVE GateTypeOK'
  <2>1. asking[o] \in InFlight
    BY <1>2 DEF RespondSend, GateTypeOK
  <2>2. asking[o].gate \in Gates /\ asking[o].answer \in Answers
    BY <2>1 DEF InFlight
  <2> QED
    BY <1>2, <2>2 DEF RespondSend, GateTypeOK
<1> QED
  BY <1>1, <1>2

\* Cancelling touches only live gates the enforcer knows of.
LEMMA CancelledType ==
    GateTypeOK /\ EnfTypeOK => CancelledAfter \subseteq Gates
  BY DEF GateTypeOK, EnfTypeOK, CancelledAfter

\* The common part of Force and of every transition that opens no gate.
LEMMA ApplyDirectlyTypes ==
    ASSUME GateTypeOK, EnfTypeOK, NEW t \in Tiers, ApplyDirectly(t)
    PROVE  GateTypeOK' /\ EnfTypeOK'
  BY CancelledType DEF ApplyDirectly, CancelGate, GateTypeOK, EnfTypeOK, TierOrNone

LEMMA OpenGateTypes ==
    ASSUME GateTypeOK, EnfTypeOK, NEW t \in Tiers, OpenGate(t)
    PROVE  GateTypeOK' /\ EnfTypeOK'
<1> PICK g \in Gates : /\ Spawn(g, t)
                       /\ cancelled' = CancelledAfter
                       /\ gateSeq' = g
                       /\ gateCancel' = g
                       /\ pendingTier' = t
                       /\ UNCHANGED applied
  BY DEF OpenGate
<1> QED
  BY CancelledType DEF Spawn, GateTypeOK, EnfTypeOK, TierOrNone, Stages

\* What a decision does to lock and tier: the evaluator's invariant survives and
\* the applied tier is a tier, whichever answer or timeout it is.
LEMMA ActOnInv ==
    ASSUME EvInv, EnfTypeOK, raced \in BOOLEAN, NEW d, NEW t \in Tiers, ActOn(d, t)
    PROVE  EvInv' /\ applied' \in Tiers /\ raced' \in BOOLEAN
<1>1. applied \in Tiers /\ Top \in Tiers
  BY Bounds DEF EnfTypeOK, Tiers, Top
<1>2. ASSUME NEW u \in Tiers, NEW dur \in LockDurations, LockAndApply(u, dur)
      PROVE  EvInv' /\ applied' \in Tiers /\ raced' \in BOOLEAN
  BY <1>2, LockTierInv DEF LockAndApply, EngineLock, OnTheWay
<1>3. ASSUME NEW u \in Tiers, ApplyOnly(u)
      PROVE  EvInv' /\ applied' \in Tiers /\ raced' \in BOOLEAN
  BY <1>3 DEF ApplyOnly, evVars, EvInv, EvTypeOK, EvCoherent, DirectionTo
<1>4. CASE d.outcome = "approved" /\ ApplyOnly(t)
  BY <1>4, <1>3
<1>5. CASE /\ d.outcome = "overridden"
           /\ LET target == IF d.target \in Tiers THEN d.target ELSE applied IN
              \E dur \in LockDurations : LockAndApply(target, dur)
  BY <1>5, <1>2, <1>1
<1>6. CASE d.outcome = "escalated" /\ \E dur \in LockDurations : LockAndApply(Top, dur)
  BY <1>6, <1>2, <1>1
<1>7. CASE /\ d.outcome = "timed_out"
           /\ \/ OnTimeout[t] = "execute_policy" /\ ApplyOnly(t)
              \/ OnTimeout[t] = "hold" /\ \E dur \in LockDurations : LockAndApply(applied, dur)
              \/ OnTimeout[t] = "escalate" /\ \E dur \in LockDurations : LockAndApply(Top, dur)
  BY <1>7, <1>3, <1>2, <1>1
<1>8. CASE d.outcome = "superseded" /\ UNCHANGED <<evVars, raced, applied>>
  BY <1>8, <1>1 DEF evVars, EvInv, EvTypeOK, EvCoherent, DirectionTo
<1> QED
  BY <1>4, <1>5, <1>6, <1>7, <1>8 DEF ActOn

-----------------------------------------------------------------------------
\* The gate invariant holds initially: no gate exists.
LEMMA InitGateInv == Init => GateInv
<1> SUFFICES ASSUME Init PROVE GateInv
  OBVIOUS
<1> QED
  BY GateAssumption
  DEF Init, GateInit, GateInv, GoroutineInv, HeldTierHasLiveGate, OthersAreCancelled,
      PendingIsRegistered, GateAssumption, Reachable, NoDecision, Superseded, Answer

\* Steps that leave the goroutines' places and the enforcer alone keep it.
LEMMA GateInvFrame ==
    GateInv /\ UNCHANGED <<gpc, gtier, cancelled, decision, gpending, enfVars>> => GateInv'
  BY DEF GateInv, GoroutineInv, HeldTierHasLiveGate, OthersAreCancelled,
         PendingIsRegistered, Reachable, StillOpen, enfVars

\* A goroutine advancing on its own keeps it: it takes pending when it registers,
\* gives it up when it closes, and calls itself superseded only if cancelled.
LEMMA GateStepInv ==
    ASSUME TypeOK, GateInv, NEW g \in Gates,
           Register(g) \/ Notified(g) \/ Select(g) \/ Close(g), UNCHANGED enfVars
    PROVE  GateInv'
<1> USE DEF TypeOK, GateTypeOK, GateInv, Stages, Reachable
<1>1. CASE Register(g)
  BY <1>1 DEF Register, GoroutineInv, HeldTierHasLiveGate, OthersAreCancelled,
              PendingIsRegistered, StillOpen, enfVars
<1>2. CASE Select(g)
  <2>1. PICK d : Decide(g, d) /\ (d = Superseded => g \in cancelled)
    <3>1. ASSUME respCh[g] # NoDecision, Decide(g, respCh[g])
          PROVE  respCh[g] # Superseded
      BY <3>1 DEF Answers, Superseded, Answer
    <3> QED
      BY <1>2, <3>1 DEF Select, TakeAnswer, TimerFires, SeeCancel, TimedOut, Superseded, Answer
  <2>2. GoroutineInv' /\ PendingIsRegistered'
    BY <2>1 DEF Decide, GoroutineInv, PendingIsRegistered
  <2>3. HeldTierHasLiveGate' /\ OthersAreCancelled'
    BY <2>1 DEF Decide, HeldTierHasLiveGate, OthersAreCancelled, StillOpen, enfVars
  <2> QED
    BY <2>2, <2>3
<1>3. CASE Close(g)
  BY <1>3 DEF Close, GoroutineInv, HeldTierHasLiveGate, OthersAreCancelled,
              PendingIsRegistered, StillOpen, enfVars
<1>4. CASE Notified(g)
  BY <1>4 DEF Notified, GoroutineInv, HeldTierHasLiveGate, OthersAreCancelled,
              PendingIsRegistered, StillOpen, enfVars
<1> QED
  BY <1>1, <1>2, <1>3, <1>4

\* Applying a tier directly cancels the one goroutine that was not cancelled.
LEMMA ApplyDirectlyInv ==
    ASSUME TypeOK, GateInv, NEW t \in Tiers, ApplyDirectly(t)
    PROVE  GateInv'
<1> USE DEF TypeOK, GateTypeOK, EnfTypeOK, GateInv, ApplyDirectly, CancelGate, CancelledAfter
<1>1. GoroutineInv'
  BY GateAssumption DEF GoroutineInv, HeldTierHasLiveGate, GateAssumption
<1>2. HeldTierHasLiveGate'
  BY DEF HeldTierHasLiveGate
<1>3. OthersAreCancelled'
  BY GateAssumption DEF GateAssumption, HeldTierHasLiveGate, OthersAreCancelled, StillOpen
<1>4. PendingIsRegistered'
  BY DEF PendingIsRegistered, Reachable
<1> QED
  BY <1>1, <1>2, <1>3, <1>4

\* Opening a gate cancels the goroutine that held before and leaves the new one
\* as the only one not cancelled.
LEMMA OpenGateInv ==
    ASSUME TypeOK, GateInv, NEW t \in Tiers, NeedsGate(t), OpenGate(t)
    PROVE  GateInv'
<1> USE DEF TypeOK, GateTypeOK, EnfTypeOK, GateInv, CancelledAfter, Spawn, Free, Stages
<1> PICK g \in Gates : /\ Spawn(g, t)
                       /\ cancelled' = CancelledAfter
                       /\ gateSeq' = g
                       /\ gateCancel' = g
                       /\ pendingTier' = t
                       /\ UNCHANGED applied
  BY DEF OpenGate
<1>0. g # gateCancel
  BY GateAssumption DEF HeldTierHasLiveGate, GateAssumption
<1>1. GoroutineInv'
  BY <1>0 DEF GoroutineInv, HeldTierHasLiveGate
<1>2. HeldTierHasLiveGate'
  <2>1. t # NoTier
    BY Bounds DEF Tiers, NoTier
  <2>2. g \notin cancelled'
    BY <1>0 DEF GoroutineInv
  <2>3. gtier'[g] = t /\ gpc'[g] # "free"
    OBVIOUS
  <2> QED
    BY <2>1, <2>2, <2>3 DEF HeldTierHasLiveGate, NeedsGate
<1>3. OthersAreCancelled'
  <2>1. ASSUME NEW h \in Gates, gpc'[h] # "free", h # g
        PROVE  h \in cancelled'
    <3>1. gpc[h] # "free"
      BY <2>1
    <3>2. CASE StillOpen(h)
      BY <3>2, GateAssumption DEF GateAssumption, StillOpen, HeldTierHasLiveGate
    <3>3. CASE ~StillOpen(h)
      BY <3>1, <3>3 DEF OthersAreCancelled
    <3> QED
      BY <3>2, <3>3
  <2>2. StillOpen(g)'
    BY Bounds DEF StillOpen, Tiers, NoTier
  <2> QED
    BY <2>1, <2>2 DEF OthersAreCancelled
<1>4. PendingIsRegistered'
  BY DEF PendingIsRegistered, Reachable
<1> QED
  BY <1>1, <1>2, <1>3, <1>4

\* A delivered decision closes the gate if it is still open, and a delivery from
\* any other goroutine leaves the open gate alone.
LEMMA ResolveGateInv ==
    ASSUME TypeOK, GateInv, NEW g \in Gates, ResolveGate(g)
    PROVE  GateInv'
<1> USE DEF TypeOK, GateTypeOK, EnfTypeOK, GateInv, ResolveGate, EndGoroutine, Stages
<1>1. GoroutineInv'
  BY DEF GoroutineInv, NoDecision, Superseded, Answer
<1>2. PendingIsRegistered'
  BY GateAssumption DEF PendingIsRegistered, Reachable, GateAssumption
<1>3. HeldTierHasLiveGate'
  <2>1. CASE StillOpen(g)
    BY <2>1 DEF HeldTierHasLiveGate
  <2>2. CASE ~StillOpen(g)
    BY <2>2 DEF HeldTierHasLiveGate, StillOpen, enfVars
  <2> QED
    BY <2>1, <2>2
<1>4. OthersAreCancelled'
  <2>1. CASE StillOpen(g)
    BY <2>1 DEF OthersAreCancelled, StillOpen
  <2>2. CASE ~StillOpen(g)
    BY <2>2 DEF OthersAreCancelled, StillOpen, enfVars
  <2> QED
    BY <2>1, <2>2
<1> QED
  BY <1>1, <1>2, <1>3, <1>4

-----------------------------------------------------------------------------
\* A step that leaves the evaluator's variables alone keeps its invariant.
LEMMA EvFrame == EvInv /\ UNCHANGED evVars => EvInv'
  BY DEF evVars, EvInv, EvTypeOK, EvCoherent, DirectionTo

\* The inductive step of the whole core, one case per action.
LEMMA NextInv == IInv /\ [Next]_vars => IInv'
<1> SUFFICES ASSUME IInv, [Next]_vars PROVE IInv'
  OBVIOUS
<1>0. EvInv /\ TypeOK /\ GateInv /\ EngineTypeOK /\ GateTypeOK /\ EnfTypeOK
  BY DEF IInv, TypeOK, EngineTypeOK, EvInv
<1>a. ASSUME EvInv', GateTypeOK', EnfTypeOK', GateInv',
             proposal' \in TierOrNone, raced' \in BOOLEAN,
             chan' \in Seq(Tiers), Len(chan') <= ChanCap
      PROVE  IInv'
  BY <1>a DEF IInv, TypeOK, EngineTypeOK, EvInv
<1>b. ASSUME UNCHANGED <<gateVars, enfVars>> PROVE GateTypeOK' /\ EnfTypeOK' /\ GateInv'
  BY <1>0, <1>b, GateInvFrame DEF gateVars, enfVars, GateTypeOK, EnfTypeOK
<1>c. /\ proposal \in TierOrNone /\ raced \in BOOLEAN
      /\ chan \in Seq(Tiers) /\ Len(chan) <= ChanCap /\ Len(chan) \in Nat
      /\ match \in Tiers
  BY <1>0 DEF EngineTypeOK, EvTypeOK
<1>1. CASE Tick /\ UNCHANGED <<gateVars, enfVars>>
  <2>1. EvInv'
    BY <1>0, <1>1, EvaluateInv DEF Tick
  <2>2. proposal' \in TierOrNone /\ chan' = chan
    BY <1>1, <1>c DEF Tick, TierOrNone
  <2>3. raced' \in BOOLEAN
    BY <1>1, <1>c DEF Tick
  <2> QED
    BY <1>1, <1>a, <1>b, <1>c, <2>1, <2>2, <2>3
<1>2. CASE Dispatch /\ UNCHANGED <<gateVars, enfVars>>
  <2>1. EvInv'
    BY <1>0, <1>2, EvFrame DEF Dispatch
  <2>2. chan' \in Seq(Tiers) /\ Len(chan') <= ChanCap
    <3>1. proposal \in Tiers
      BY <1>2, <1>c DEF Dispatch, TierOrNone
    <3>2. CASE Len(chan) < ChanCap
      BY <1>2, <1>c, <3>1, <3>2, EngineAssumption DEF Dispatch, EngineAssumption
    <3>3. CASE ~(Len(chan) < ChanCap)
      BY <1>2, <1>c, <3>3 DEF Dispatch
    <3> QED
      BY <3>2, <3>3
  <2>3. proposal' \in TierOrNone
    BY <1>2 DEF Dispatch, TierOrNone
  <2>4. raced' \in BOOLEAN
    BY <1>2, <1>c DEF Dispatch
  <2> QED
    BY <1>2, <1>a, <1>b, <2>1, <2>2, <2>3, <2>4
<1>3. CASE HandleTransition
  <2>1. Head(chan) \in Tiers /\ chan' \in Seq(Tiers) /\ Len(chan') <= ChanCap
    BY <1>0, <1>3, ChanTypes DEF HandleTransition
  <2>2. EvInv' /\ proposal' = proposal /\ raced' = raced
    BY <1>0, <1>3, EvFrame DEF HandleTransition
  <2>3. GateTypeOK' /\ EnfTypeOK' /\ GateInv'
    BY <1>0, <1>3, <2>1, OpenGateTypes, OpenGateInv, ApplyDirectlyTypes, ApplyDirectlyInv
    DEF HandleTransition
  <2> QED
    BY <1>a, <1>c, <2>1, <2>2, <2>3
<1>4. ASSUME NEW g \in Gates,
             Register(g) \/ Notified(g) \/ Select(g) \/ Close(g),
             UNCHANGED <<engineVars, enfVars>>
      PROVE  IInv'
  <2>1. EvInv' /\ proposal' = proposal /\ chan' = chan /\ raced' = raced
    BY <1>0, <1>4, EvFrame DEF engineVars
  <2>2. GateTypeOK' /\ EnfTypeOK'
    BY <1>0, <1>4, GateStepTypes DEF EnfTypeOK, enfVars
  <2>3. GateInv'
    BY <1>0, <1>4, GateStepInv
  <2> QED
    BY <1>a, <1>c, <2>1, <2>2, <2>3
<1>5. ASSUME NEW g \in Gates, ResolveGate(g) PROVE IInv'
  <2>1. GateTypeOK'
    BY <1>0, <1>5, GateStepTypes DEF ResolveGate
  <2>2. proposal' = proposal /\ chan' = chan
    BY <1>5 DEF ResolveGate
  <2>3. EvInv' /\ EnfTypeOK' /\ raced' \in BOOLEAN
    <3>1. CASE StillOpen(g)
      <4>1. gtier[g] \in Tiers
        BY <1>0, <3>1 DEF StillOpen, GateInv, HeldTierHasLiveGate, EnfTypeOK, TierOrNone
      <4>2. EvInv' /\ applied' \in Tiers /\ raced' \in BOOLEAN
        BY <1>0, <1>5, <1>c, <3>1, <4>1, ActOnInv DEF ResolveGate
      <4>3. EnfTypeOK'
        BY <1>0, <1>5, <3>1, <4>2 DEF ResolveGate, EnfTypeOK, TierOrNone
      <4> QED
        BY <4>2, <4>3
    <3>2. CASE ~StillOpen(g)
      BY <1>0, <1>5, <1>c, <3>2, EvFrame DEF ResolveGate, EnfTypeOK, enfVars
    <3> QED
      BY <3>1, <3>2
  <2>4. GateInv'
    BY <1>0, <1>5, ResolveGateInv
  <2> QED
    BY <1>a, <1>c, <2>1, <2>2, <2>3, <2>4
<1>6. ASSUME NEW o \in Operators, SendAnswer(o) PROVE IInv'
  <2>1. EvInv' /\ proposal' = proposal /\ chan' = chan /\ raced' = raced /\ EnfTypeOK'
    BY <1>0, <1>6, EvFrame DEF SendAnswer, engineVars, enfVars, EnfTypeOK
  <2>2. GateTypeOK'
    BY <1>0, <1>6, RespondTypes DEF SendAnswer
  <2>3. GateInv'
    BY <1>0, <1>6, GateInvFrame DEF SendAnswer, RespondSend
  <2> QED
    BY <1>a, <1>c, <2>1, <2>2, <2>3
<1>7. CASE Clock \/ Signals
  <2>1. EvInv'
    BY <1>0, <1>7, WorldInv DEF Clock, Signals
  <2> QED
    BY <1>7, <1>a, <1>b, <1>c, <2>1 DEF Clock, Signals
<1>8. ASSUME NEW t \in Tiers, NEW d \in LockDurations, ForceTier(t, d) PROVE IInv'
  <2>1. EvInv'
    BY <1>0, <1>8, LockTierInv DEF ForceTier, EngineLock
  <2>2. GateTypeOK' /\ EnfTypeOK' /\ GateInv'
    BY <1>0, <1>8, ApplyDirectlyTypes, ApplyDirectlyInv DEF ForceTier
  <2>3. raced' \in BOOLEAN
    BY <1>c, <1>8 DEF ForceTier, EngineLock, OnTheWay
  <2> QED
    BY <1>8, <1>a, <1>c, <2>1, <2>2, <2>3 DEF ForceTier
<1>9. CASE Release
  <2>1. EvInv'
    BY <1>0, <1>9, UnlockInv DEF Release
  <2> QED
    BY <1>9, <1>a, <1>b, <1>c, <2>1 DEF Release
<1>10. ASSUME NEW o \in Operators, NEW a \in Answers, RespondRead(o, a),
              UNCHANGED <<engineVars, enfVars>>
       PROVE  IInv'
  <2>1. EvInv' /\ proposal' = proposal /\ chan' = chan /\ raced' = raced /\ EnfTypeOK'
    BY <1>0, <1>10, EvFrame DEF engineVars, enfVars, EnfTypeOK
  <2>2. GateTypeOK' /\ GateInv'
    BY <1>0, <1>10, RespondTypes, GateInvFrame DEF RespondRead
  <2> QED
    BY <1>a, <1>c, <2>1, <2>2
<1>11. CASE UNCHANGED vars
  BY <1>0, <1>11, <1>a, <1>b, <1>c, EvFrame DEF vars, engineVars
<1> QED
  BY <1>1, <1>2, <1>3, <1>4, <1>5, <1>6, <1>7, <1>8, <1>9, <1>10, <1>11
  DEF Next, System, Environment, EngineStep, GateStep, Notify, Override, ReadGate

\* The inductive invariant holds in every reachable state of the core.
THEOREM InductiveInvariant == Spec => []IInv
<1>1. Init => IInv
  BY InitType, InitGateInv, EvInitInv DEF IInv, Init, EngineInit, EvInv
<1> QED
  BY <1>1, NextInv, PTL DEF Spec

\* Types, for every instance of the constants (the run core_gates checks TypeOK).
THEOREM TypeCorrect == Spec => []TypeOK
<1>1. IInv => TypeOK
  BY DEF IInv
<1> QED
  BY <1>1, InductiveInvariant, PTL

\* enforcer.go, State.PendingTier: a tier is never reported as held without a
\* live gate that will still decide about it.
THEOREM HeldTierIsGuarded == Spec => []HeldTierHasLiveGate
<1>1. IInv => HeldTierHasLiveGate
  BY DEF IInv, GateInv
<1> QED
  BY <1>1, InductiveInvariant, PTL

\* README: "Only one gate is open at a time".
THEOREM OneGateUncancelled == Spec => []OthersAreCancelled
<1>1. IInv => OthersAreCancelled
  BY DEF IInv, GateInv
<1> QED
  BY <1>1, InductiveInvariant, PTL

\* resolveGate's missing case is never reached with the gate open.
THEOREM SupersededNeverResolves == Spec => []SupersededIsNeverOpen
<1>1. IInv => SupersededIsNeverOpen
  BY DEF IInv, GateInv, GoroutineInv, HeldTierHasLiveGate, SupersededIsNeverOpen, StillOpen
<1> QED
  BY <1>1, InductiveInvariant, PTL

-----------------------------------------------------------------------------
\* Acting on a decision can raise the applied tier only to the tier the gate
\* held, after an approval or an execute_policy timeout, or to a tier locked.
LEMMA ActOnRise ==
    ASSUME EnfTypeOK, NEW d, NEW t \in Tiers, ActOn(d, t), applied' # applied
    PROVE  \/ LockedNext
           \/ /\ applied' = t
              /\ \/ d.outcome = "approved"
                 \/ d.outcome = "timed_out" /\ OnTimeout[t] = "execute_policy"
<1>1. ASSUME NEW u, NEW dur \in LockDurations, LockAndApply(u, dur) PROVE LockedNext
  BY <1>1, LocksLast DEF LockAndApply, EngineLock, LockTier, LockedNext
<1> QED
  BY <1>1 DEF ActOn, ApplyOnly

\* The applied tier rises into a gated tier only by a lock on that tier or by the
\* open gate's own decision to apply it (enforcer.go, package comment).
THEOREM GatedRisesAreDecided == Spec => GatedRiseIsDecided
<1>1. ASSUME IInv, [Next]_vars, GatedRise PROVE RiseIsDecided
  <2>0. TypeOK /\ EnfTypeOK /\ GateInv /\ applied \in Tiers /\ EngineTypeOK
    BY <1>1 DEF IInv, TypeOK, EnfTypeOK
  <2>1. applied' # applied
    BY <1>1, <2>0 DEF GatedRise, Tiers
  <2>2. CASE HandleTransition
    <3>1. CASE NeedsGate(Head(chan)) /\ OpenGate(Head(chan))
      BY <3>1, <2>1 DEF OpenGate
    <3>2. CASE ~NeedsGate(Head(chan)) /\ ApplyDirectly(Head(chan))
      BY <3>2, <1>1 DEF ApplyDirectly, NeedsGate, GatedRise
    <3> QED
      BY <2>2, <3>1, <3>2 DEF HandleTransition
  <2>3. ASSUME NEW t \in Tiers, NEW d \in LockDurations, ForceTier(t, d) PROVE RiseIsDecided
    BY <2>3, LocksLast
    DEF ForceTier, EngineLock, LockTier, ApplyDirectly, RiseIsDecided, LockedNext
  <2>4. ASSUME NEW g \in Gates, ResolveGate(g) PROVE RiseIsDecided
    <3>1. CASE StillOpen(g)
      <4>1. gtier[g] \in Tiers
        BY <2>0, <3>1 DEF StillOpen, GateInv, HeldTierHasLiveGate, EnfTypeOK, TierOrNone
      <4>2. ActOn(decision[g], gtier[g])
        BY <2>4, <3>1 DEF ResolveGate
      <4>3. gpc[g] = "returning" /\ gpc'[g] = "free"
        BY <2>0, <2>4 DEF ResolveGate, EndGoroutine, TypeOK, GateTypeOK
      <4> QED
        BY <2>0, <2>1, <3>1, <4>1, <4>2, <4>3, ActOnRise DEF RiseIsDecided, AdmitsNext
    <3>2. CASE ~StillOpen(g)
      BY <2>1, <2>4, <3>2 DEF ResolveGate, enfVars
    <3> QED
      BY <3>1, <3>2
  <2>5. CASE UNCHANGED applied
    BY <2>1, <2>5
  <2> QED
    BY <1>1, <2>2, <2>3, <2>4, <2>5
    DEF Next, System, Environment, EngineStep, GateStep, Notify, SendAnswer, Clock,
        Signals, Override, Release, ReadGate, enfVars, vars
<1> QED
  BY <1>1, InductiveInvariant, PTL DEF Spec, GatedRiseIsDecided

\* A gate superseded by newer signals or by an operator changes nothing when it
\* finally returns, whatever it decided (resolveGate's first test).
THEOREM CancelledGatesAreInert == Spec => CancelledGateIsInert
<1>1. ASSUME IInv, [Next]_vars, NEW g \in Gates, CancelledDelivers(g)
      PROVE  UNCHANGED <<enfVars, evVars>>
  <2>0. GateTypeOK /\ GateInv
    BY <1>1 DEF IInv, TypeOK
  <2>1. ~StillOpen(g)
    BY <1>1, <2>0 DEF CancelledDelivers, StillOpen, GateInv, HeldTierHasLiveGate
  <2>2. ASSUME NEW h \in Gates, ResolveGate(h) PROVE UNCHANGED <<enfVars, evVars>>
    <3>1. h = g
      BY <1>1, <2>0, <2>2 DEF CancelledDelivers, ResolveGate, EndGoroutine, GateTypeOK
    <3> QED
      BY <2>1, <2>2, <3>1 DEF ResolveGate
  <2>3. ASSUME NEW h \in Gates, Register(h) \/ Notified(h) \/ Select(h) \/ Close(h)
        PROVE  FALSE
    BY <1>1, <2>0, <2>3
    DEF CancelledDelivers, Register, Notified, Select, TakeAnswer, TimerFires, SeeCancel, Decide,
        Close, GateTypeOK
  <2>4. ASSUME NEW t \in Tiers, OpenGate(t) PROVE FALSE
    BY <1>1, <2>0, <2>4 DEF CancelledDelivers, OpenGate, Spawn, GateTypeOK
  <2>5. CASE UNCHANGED gpc
    BY <1>1, <2>5 DEF CancelledDelivers
  <2>6. CASE HandleTransition
    <3>1. Head(chan) \in Tiers
      BY <1>1, <2>6, ChanTypes DEF HandleTransition, IInv, TypeOK
    <3> QED
      BY <2>4, <2>5, <2>6, <3>1 DEF HandleTransition, ApplyDirectly
  <2> QED
    BY <1>1, <2>2, <2>3, <2>5, <2>6
    DEF Next, System, Environment, EngineStep, GateStep, Notify, SendAnswer, RespondSend,
        Clock, Signals, Override, ForceTier, ApplyDirectly, Release, ReadGate, RespondRead,
        gateVars, vars
<1>2. IInv /\ [Next]_vars =>
        [(\E g \in Gates : CancelledDelivers(g)) => UNCHANGED <<enfVars, evVars>>]_vars
  BY <1>1
<1> QED
  BY <1>2, InductiveInvariant, PTL DEF Spec, CancelledGateIsInert

-----------------------------------------------------------------------------
Follow == EnforcerFollows /\ LockPinsEnforcer

\* The last element of a channel after a send and after a receive.
LEMMA LastAfterSend ==
    ASSUME chan \in Seq(Tiers), NEW t \in Tiers
    PROVE  /\ Append(chan, t) # <<>>
           /\ Append(chan, t)[Len(Append(chan, t))] = t
  OBVIOUS

LEMMA LastAfterReceive ==
    ASSUME chan \in Seq(Tiers), chan # <<>>
    PROVE  /\ Tail(chan) # <<>> => Tail(chan)[Len(Tail(chan))] = chan[Len(chan)]
           /\ Tail(chan) = <<>> => chan[Len(chan)] = Head(chan)
<1>1. /\ Len(chan) \in Nat /\ Len(chan) >= 1
      /\ Tail(chan) \in Seq(Tiers) /\ Len(Tail(chan)) = Len(chan) - 1
  OBVIOUS
<1>2. Tail(chan) = <<>> <=> Len(Tail(chan)) = 0
  BY <1>1, EmptySeq
<1>3. ASSUME Tail(chan) # <<>>
      PROVE  Tail(chan)[Len(Tail(chan))] = chan[Len(chan)]
  <2>1. \A i \in 1..Len(Tail(chan)) : Tail(chan)[i] = chan[i + 1]
    OBVIOUS
  <2>2. Len(Tail(chan)) \in 1..Len(Tail(chan))
    BY <1>1, <1>2, <1>3
  <2> QED
    BY <1>1, <2>1, <2>2
<1>4. ASSUME Tail(chan) = <<>>
      PROVE  chan[Len(chan)] = Head(chan)
  <2>1. Len(chan) = 1
    BY <1>1, <1>2, <1>4
  <2> QED
    BY <2>1
<1> QED
  BY <1>3, <1>4

\* What heading and lock depend on; a step that keeps it keeps Follow.
LEMMA FollowFrame ==
    ASSUME Follow, UNCHANGED <<current, locked, raced, proposal, chan, applied, pendingTier>>
    PROVE  Follow'
  BY DEF Follow, EnforcerFollows, LockPinsEnforcer, Heading, OnTheWay

\* A tier applied under a new lock is where the enforcer heads, unless raced.
LEMMA FollowLock ==
    ASSUME TypeOK, NEW t \in Tiers, NEW d \in LockDurations,
           EngineLock(t, d), applied' = t, pendingTier' = NoTier, UNCHANGED <<proposal, chan>>
    PROVE  Follow'
<1>1. raced \in BOOLEAN
  BY DEF TypeOK, EngineTypeOK
<1>2. ~raced' => ~OnTheWay
  BY DEF EngineLock
<1>3. current' = t /\ locked' = t
  BY DEF EngineLock, LockTier
<1> QED
  BY <1>2, <1>3 DEF Follow, EnforcerFollows, LockPinsEnforcer, Heading, OnTheWay

\* The inductive step, one case per action.
LEMMA FollowStep == IInv /\ Follow /\ [Next]_vars => Follow'
<1> SUFFICES ASSUME IInv, Follow, [Next]_vars PROVE Follow'
  OBVIOUS
<1>0. /\ EvInv /\ TypeOK /\ GateInv /\ EnfTypeOK
      /\ chan \in Seq(Tiers) /\ proposal \in TierOrNone /\ match \in Tiers
  BY DEF IInv, TypeOK, EngineTypeOK, EvInv, EvTypeOK
<1>n. \A t \in Tiers : t # NoTier
  BY Bounds DEF Tiers, NoTier
<1>1. CASE Tick /\ UNCHANGED <<gateVars, enfVars>>
  <2>1. CASE Confirms(match)
    <3>1. proposal' = match /\ current' = match /\ locked' = NoTier
      BY <1>0, <1>1, <2>1, EvaluateEffect DEF Tick
    <3> QED
      BY <1>0, <1>n, <3>1 DEF Follow, EnforcerFollows, LockPinsEnforcer, Heading
  <2>2. CASE ~Confirms(match)
    <3>1. UNCHANGED <<current, raced, proposal, chan, applied, pendingTier>>
      BY <1>0, <1>1, <2>2, EvaluateEffect DEF Tick, enfVars
    <3>2. locked' # NoTier => locked' = locked
      BY <1>0, <1>1, EvaluateEffect DEF Tick
    <3> QED
      BY <3>1, <3>2 DEF Follow, EnforcerFollows, LockPinsEnforcer, Heading, OnTheWay
  <2> QED
    BY <2>1, <2>2
<1>2. CASE Dispatch /\ UNCHANGED <<gateVars, enfVars>>
  <2>1. proposal \in Tiers /\ proposal' = NoTier
    BY <1>0, <1>2 DEF Dispatch, TierOrNone
  <2>2. CASE Len(chan) < ChanCap
    <3>1. chan' # <<>> /\ chan'[Len(chan')] = proposal
      BY <1>0, <1>2, <2>1, <2>2, LastAfterSend DEF Dispatch
    <3> QED
      BY <1>2, <1>n, <2>1, <2>2, <3>1
      DEF Dispatch, evVars, Follow, EnforcerFollows, LockPinsEnforcer, Heading, OnTheWay
  <2>3. CASE ~(Len(chan) < ChanCap)
    BY <1>2, <2>3 DEF Dispatch, Follow, EnforcerFollows, LockPinsEnforcer
  <2> QED
    BY <2>2, <2>3
<1>3. CASE HandleTransition
  <2>0. /\ chan # <<>> /\ chan' = Tail(chan) /\ Head(chan) \in Tiers
        /\ UNCHANGED <<evVars, proposal, raced>>
    BY <1>0, <1>3, ChanTypes DEF HandleTransition, TypeOK
  <2>1. \/ pendingTier' = Head(chan)
        \/ pendingTier' = NoTier /\ applied' = Head(chan)
    BY <1>3 DEF HandleTransition, OpenGate, ApplyDirectly, CancelGate
  <2>2. Heading' = Heading
    BY <1>0, <1>n, <2>0, <2>1, LastAfterReceive DEF Heading
  <2>3. ~raced => locked = NoTier
    BY <2>0 DEF Follow, LockPinsEnforcer, OnTheWay
  <2> QED
    BY <2>0, <2>2, <2>3 DEF Follow, EnforcerFollows, LockPinsEnforcer, evVars
<1>4. ASSUME NEW g \in Gates, ResolveGate(g) PROVE Follow'
  <2>1. CASE ~StillOpen(g)
    BY <1>4, <2>1, FollowFrame DEF ResolveGate, evVars, enfVars
  <2>2. CASE StillOpen(g)
    <3>0. /\ pendingTier # NoTier /\ gtier[g] = pendingTier /\ gtier[g] \in Tiers
          /\ decision[g] # Superseded
          /\ pendingTier' = NoTier /\ UNCHANGED <<proposal, chan>>
          /\ ActOn(decision[g], gtier[g])
      BY <1>0, <1>4, <2>2
      DEF ResolveGate, StillOpen, GateInv, GoroutineInv, HeldTierHasLiveGate, EnfTypeOK, TierOrNone
    <3>1. ASSUME NEW u \in Tiers, NEW d \in LockDurations, LockAndApply(u, d) PROVE Follow'
      BY <1>0, <3>0, <3>1, FollowLock DEF LockAndApply
    <3>2. ASSUME ApplyOnly(gtier[g]) PROVE Follow'
      BY <3>0, <3>2
      DEF ApplyOnly, evVars, Follow, EnforcerFollows, LockPinsEnforcer, Heading, OnTheWay
    <3>3. applied \in Tiers /\ Top \in Tiers
      BY <1>0, Bounds DEF EnfTypeOK, Top, Tiers
    <3>4. decision[g].outcome # "superseded"
      <4>1. decision[g] \in Answers \cup {TimedOut, Superseded, NoDecision}
        BY <1>0 DEF TypeOK, GateTypeOK
      <4> QED
        BY <3>0, <4>1 DEF Answers, TimedOut, Superseded, NoDecision, Answer
    <3> QED
      BY <3>0, <3>1, <3>2, <3>3, <3>4 DEF ActOn
  <2> QED
    BY <2>1, <2>2
<1>5. ASSUME NEW t \in Tiers, NEW d \in LockDurations, ForceTier(t, d) PROVE Follow'
  BY <1>0, <1>5, FollowLock DEF ForceTier, ApplyDirectly, CancelGate
<1>6. CASE Release
  <2>1. locked' = NoTier /\ UNCHANGED <<current, raced, proposal, chan, applied, pendingTier>>
    BY <1>6 DEF Release, Unlock, enfVars
  <2> QED
    BY <2>1 DEF Follow, EnforcerFollows, LockPinsEnforcer, Heading
<1>7. CASE UNCHANGED <<current, locked, raced, proposal, chan, applied, pendingTier>>
  BY <1>7, FollowFrame
<1> QED
  BY <1>1, <1>2, <1>3, <1>4, <1>5, <1>6, <1>7
  DEF Next, System, Environment, EngineStep, GateStep, Notify, SendAnswer, Clock, Signals,
      Elapse, SignalsMove, lockVars, Override, ReadGate, engineVars, evVars, enfVars, vars

LEMMA FollowInvariant == Spec => []Follow
<1>1. Init => Follow
  BY DEF Init, EngineInit, EvInit, Follow, EnforcerFollows, LockPinsEnforcer, Heading
<1> QED
  BY <1>1, FollowStep, InductiveInvariant, PTL DEF Spec

\* The enforcer never loses track of the evaluator except through the two races
\* the history variable records: what it applies, holds or is about to be told is
\* the evaluator's tier.
THEOREM EnforcerFollowsEvaluator == Spec => []EnforcerFollows
<1>1. Follow => EnforcerFollows
  BY DEF Follow
<1> QED
  BY <1>1, FollowInvariant, PTL

\* A lock that overtook no transition holds the enforcer at the locked tier until
\* the evaluator drops it, with no gate open (Force, resolveGate).
THEOREM LocksPinEnforcer == Spec => []LockPinsEnforcer
<1>1. Follow => LockPinsEnforcer
  BY DEF Follow
<1> QED
  BY <1>1, FollowInvariant, PTL

-----------------------------------------------------------------------------
\* Once the open gate has registered, answers go to it until it is decided, and no
\* goroutine is left that has yet to register and would take them away: one that
\* starts in order finds either itself cancelled or all others registered.
Answerable ==
    \A g \in Gates : (StillOpen(g) /\ Reachable(g)) =>
        gpending = g /\ \A h \in Gates : gpc[h] # "spawned"

LEMMA AnswerableStep ==
    ASSUME OrderedStart, IInv, Answerable, [Next]_vars
    PROVE  Answerable'
<1>0. gpc \in [Gates -> Stages] /\ GateInv
  BY DEF IInv, TypeOK, GateTypeOK
<1> SUFFICES ASSUME NEW g \in Gates, StillOpen(g)', gpc'[g] \in {"notifying", "waiting"}
             PROVE  gpending' = g /\ \A h \in Gates : gpc'[h] # "spawned"
  BY DEF Answerable, Reachable
<1>1. ASSUME NEW h \in Gates, Register(h), UNCHANGED <<engineVars, enfVars>>
      PROVE  gpending' = g /\ \A k \in Gates : gpc'[k] # "spawned"
  <2>1. StillOpen(g) /\ g \notin cancelled
    BY <1>0, <1>1 DEF StillOpen, enfVars, GateInv, HeldTierHasLiveGate
  <2>2. CASE h = g
    BY <1>0, <1>1, <2>1, <2>2 DEF Register
  <2>3. CASE h # g
    BY <1>0, <1>1, <2>1, <2>3 DEF Register, Answerable, Reachable
  <2> QED
    BY <2>2, <2>3
<1>2. ASSUME NEW h \in Gates, Notified(h) \/ Select(h) \/ Close(h),
             UNCHANGED <<engineVars, enfVars>>
      PROVE  gpending' = g /\ \A k \in Gates : gpc'[k] # "spawned"
  <2>1. StillOpen(g)
    BY <1>2 DEF StillOpen, enfVars
  <2>2. CASE Select(h)
    BY <1>0, <2>1, <2>2
    DEF Select, TakeAnswer, TimerFires, SeeCancel, Decide, Answerable, Reachable
  <2>3. CASE Close(h)
    BY <1>0, <2>1, <2>3 DEF Close, Answerable, Reachable
  <2>4. CASE Notified(h)
    BY <1>0, <2>1, <2>4 DEF Notified, Answerable, Reachable
  <2> QED
    BY <1>2, <2>2, <2>3, <2>4
<1>3. ASSUME NEW h \in Gates, ResolveGate(h)
      PROVE  gpending' = g /\ \A k \in Gates : gpc'[k] # "spawned"
  <2>1. StillOpen(g)
    BY <1>3 DEF ResolveGate, StillOpen, enfVars
  <2> QED
    BY <1>0, <1>3, <2>1 DEF ResolveGate, EndGoroutine, Answerable, Reachable
<1>4. ASSUME NEW t \in Tiers, OpenGate(t) PROVE FALSE
  BY <1>0, <1>4 DEF OpenGate, Spawn, StillOpen
<1>5. ASSUME NEW t \in Tiers, ApplyDirectly(t) PROVE FALSE
  BY <1>5 DEF ApplyDirectly, CancelGate, StillOpen
<1>6. ~HandleTransition
  <2>1. HandleTransition => Head(chan) \in Tiers
    BY ChanTypes DEF HandleTransition, IInv, TypeOK
  <2> QED
    BY <1>4, <1>5, <2>1 DEF HandleTransition
<1>7. CASE UNCHANGED <<gpc, gpending, gateSeq, pendingTier>>
  BY <1>7 DEF Answerable, Reachable, StillOpen
<1> QED
  BY <1>1, <1>2, <1>3, <1>5, <1>6, <1>7
  DEF Next, System, Environment, EngineStep, GateStep, Notify, SendAnswer, RespondSend,
      RespondRead, Clock, Signals, Override, ForceTier, Release, ReadGate, gateVars, enfVars, vars

\* If gate goroutines start in the order they were created, the open gate can be
\* answered as soon as it has registered (Fire, Respond).
THEOREM OpenGatesAreAnswerable == OrderedStart => (Spec => []OpenGateIsAnswerable)
<1> SUFFICES ASSUME OrderedStart PROVE Spec => []OpenGateIsAnswerable
  OBVIOUS
<1>1. Init => Answerable
  BY DEF Init, GateInit, Answerable, Reachable
<1>2. IInv /\ Answerable /\ [Next]_vars => Answerable'
  BY AnswerableStep
<1>3. Answerable => OpenGateIsAnswerable
  BY DEF Answerable, OpenGateIsAnswerable
<1> QED
  BY <1>1, <1>2, <1>3, InductiveInvariant, PTL DEF Spec

-----------------------------------------------------------------------------
\* What the contract's variables are mapped from.
Visible == <<chan, applied, pendingTier, locked>>

LEMMA SameLadder == Contract!NoTier = NoTier /\ Contract!Tiers = Tiers /\ Contract!Bottom = Bottom
BY DEF Contract!NoTier, NoTier, Contract!Tiers, Tiers, Contract!Bottom, Bottom

\* The drain goroutine serves the request it takes, gate or no gate.
LEMMA HandleServes == HandleTransition => Contract!Serve
BY SameLadder
DEF HandleTransition, Contract!Serve, Contract!TakeEffect, OpenGate, ApplyDirectly,
    CancelGate, NeedsGate, evVars, lockVars

\* The loop shows at most that a lock expired, or sends a request.
LEMMA LoopRequests ==
    ASSUME TypeOK, EngineStep
    PROVE  (\E t \in Tiers : Contract!Request(t)) \/ Contract!Unpin \/ UNCHANGED Visible
<1>1. CASE Tick /\ UNCHANGED <<gateVars, enfVars>>
  <2>1. UNCHANGED <<chan, applied, pendingTier>>
    BY <1>1 DEF Tick, enfVars
  <2>2. locked' = NoTier \/ UNCHANGED locked
    BY <1>1 DEF Tick, Evaluate, ObserveLocked, ObserveCurrent, StartOrKeepCandidate,
                ConfirmTransition, DropExpiredLock, lockVars
  <2> QED
    BY <2>1, <2>2, SameLadder DEF Contract!Unpin, Visible
<1>2. CASE Dispatch /\ UNCHANGED <<gateVars, enfVars>>
  <2>1. proposal \in Tiers
    BY <1>2 DEF TypeOK, EngineTypeOK, TierOrNone, Dispatch
  <2>2. UNCHANGED <<applied, pendingTier, locked>>
    BY <1>2 DEF Dispatch, evVars, lockVars, enfVars
  <2>3. chan' = Append(chan, proposal) \/ UNCHANGED chan
    BY <1>2 DEF Dispatch
  <2> QED
    BY <2>1, <2>2, <2>3 DEF Contract!Request, Visible
<1> QED
  BY <1>1, <1>2 DEF EngineStep

\* The lock an operator takes by Force, or a gate by its decision.
LEMMA ForcePins == ASSUME NEW t \in Tiers, NEW d \in LockDurations, ForceTier(t, d)
                   PROVE  Contract!Pin(t)
BY SameLadder
DEF ForceTier, EngineLock, LockTier, ApplyDirectly, CancelGate, Contract!Pin, Contract!TakeEffect

\* A gate that is still open admits the tier it held, or its decision locks one;
\* that it was superseded is excluded by the invariant.
LEMMA DeliveryDecides ==
    ASSUME TypeOK, GateInv, NEW g \in Gates, ResolveGate(g), StillOpen(g)
    PROVE  Contract!Admit \/ \E t \in Tiers : Contract!Pin(t)
<1>1. /\ pendingTier # NoTier /\ pendingTier' = NoTier
      /\ gtier[g] = pendingTier
      /\ UNCHANGED chan
      /\ ActOn(decision[g], gtier[g])
  BY DEF StillOpen, GateInv, HeldTierHasLiveGate, ResolveGate
<1>2. applied \in Tiers /\ Top \in Tiers
  BY Bounds DEF TypeOK, EnfTypeOK, Tiers, Top
<1>3. decision[g] # Superseded
  BY DEF GateInv, GoroutineInv, StillOpen, HeldTierHasLiveGate
<1>4. ASSUME NEW t \in Tiers, NEW d \in LockDurations, LockAndApply(t, d)
      PROVE  Contract!Pin(t)
  BY <1>1, <1>4, SameLadder
  DEF LockAndApply, EngineLock, LockTier, Contract!Pin, Contract!TakeEffect
<1>5. ASSUME ApplyOnly(gtier[g]) PROVE Contract!Admit
  BY <1>1, <1>5, SameLadder
  DEF ApplyOnly, evVars, lockVars, Contract!Admit, Contract!TakeEffect
<1>6. decision[g].outcome # "superseded"
  <2>1. decision[g] \in Answers \cup {TimedOut, Superseded, NoDecision}
    BY DEF TypeOK, GateTypeOK
  <2> QED
    BY <1>3, <2>1 DEF Answers, Answer, TimedOut, Superseded, NoDecision
<1>7. (IF decision[g].target \in Tiers THEN decision[g].target ELSE applied) \in Tiers
  BY <1>2
<1> QED
  BY <1>1, <1>2, <1>4, <1>5, <1>6, <1>7 DEF ActOn

\* Initial states map to initial states.
LEMMA InitStarts == Init => Contract!Init
BY SameLadder DEF Init, EngineInit, EvInit, Contract!Init

\* Every step maps to a step or to a stutter.
LEMMA StepKeepsContract == IInv /\ [Next]_vars => [Contract!Next]_(Contract!vars)
<1> SUFFICES ASSUME IInv, [Next]_vars PROVE Contract!Next \/ UNCHANGED Contract!vars
  OBVIOUS
<1>0. TypeOK /\ GateInv
  BY DEF IInv
<1>a. ASSUME UNCHANGED Visible PROVE UNCHANGED Contract!vars
  BY <1>a DEF Visible, Contract!vars
<1>1. CASE EngineStep
  BY <1>0, <1>1, <1>a, LoopRequests, SameLadder DEF Contract!Next
<1>2. CASE HandleTransition
  BY <1>2, HandleServes DEF Contract!Next
<1>3. ASSUME NEW g \in Gates, GateStep(g) \/ Notify(g)
      PROVE  Contract!Next \/ UNCHANGED Contract!vars
  <2>1. CASE /\ Register(g) \/ Notified(g) \/ Select(g) \/ Close(g)
             /\ UNCHANGED <<engineVars, enfVars>>
    BY <1>a, <2>1 DEF engineVars, enfVars, evVars, lockVars, Visible
  <2>2. CASE ResolveGate(g) /\ StillOpen(g)
    BY <1>0, <2>2, DeliveryDecides, SameLadder DEF Contract!Next
  <2>3. CASE ResolveGate(g) /\ ~StillOpen(g)
    BY <1>a, <2>3 DEF ResolveGate, enfVars, evVars, lockVars, Visible
  <2> QED
    BY <1>3, <2>1, <2>2, <2>3 DEF GateStep, Notify
<1>4. ASSUME NEW t \in Tiers, NEW d \in LockDurations, ForceTier(t, d) PROVE Contract!Next
  BY <1>4, ForcePins, SameLadder DEF Contract!Next
<1>5. CASE Release
  BY <1>5, SameLadder DEF Release, Unlock, enfVars, Contract!Unpin, Contract!Next
<1>6. CASE (\E o \in Operators : SendAnswer(o)) \/ ReadGate \/ Clock \/ Signals \/ UNCHANGED vars
  <2>1. UNCHANGED Visible
    BY <1>6 DEF SendAnswer, ReadGate, Clock, Signals, Elapse, SignalsMove, vars, engineVars,
                enfVars, evVars, lockVars, Visible
  <2> QED
    BY <1>a, <2>1
<1> QED
  BY <1>1, <1>2, <1>3, <1>4, <1>5, <1>6 DEF Next, System, Environment, Override

\* The core implements the contract: evaluator, channel, gate goroutines, late
\* answers and overrides together show the service nothing but requests served,
\* tiers held and admitted, and locks (enforcer.go, package comment).
THEOREM CoreKeepsContract == Spec => KeepsContract
<1> QED
  BY InitStarts, StepKeepsContract, InductiveInvariant, PTL
  DEF Spec, Contract!Spec, KeepsContract

-----------------------------------------------------------------------------
ContractInv == Contract!TypeOK /\ Contract!HeldIsAbove

LEMMA LadderEnds == Bottom \in Tiers /\ NoTier \notin Tiers /\ Tiers \subseteq Nat
BY LadderAssumption DEF LadderAssumption, Bottom, Tiers, NoTier

\* Requests are served, tiers held and admitted within their types.
LEMMA ContractStep == ContractInv /\ [Contract!Next]_(Contract!vars) => ContractInv'
<1> SUFFICES ASSUME ContractInv, [Contract!Next]_(Contract!vars) PROVE ContractInv'
  OBVIOUS
<1> USE SameLadder DEF ContractInv, Contract!TypeOK, Contract!HeldIsAbove, Contract!TierOrNone
<1>1. ASSUME NEW t \in Tiers, Contract!Request(t) PROVE ContractInv'
  BY <1>1 DEF Contract!Request
<1>2. ASSUME NEW t \in Tiers, Contract!Pin(t) PROVE ContractInv'
  BY <1>2 DEF Contract!Pin, Contract!TakeEffect
<1>3. CASE Contract!Serve
  <2>1. Head(chan) \in Tiers /\ Tail(chan) \in Seq(Tiers)
    BY <1>3 DEF Contract!Serve
  <2>2. CASE Head(chan) \in Gated /\ Head(chan) > applied
    BY <1>3, <2>1, <2>2 DEF Contract!Serve
  <2>3. CASE ~(Head(chan) \in Gated /\ Head(chan) > applied)
    BY <1>3, <2>1, <2>3 DEF Contract!Serve, Contract!TakeEffect
  <2> QED
    BY <2>2, <2>3
<1>4. CASE Contract!Admit
  BY <1>4 DEF Contract!Admit, Contract!TakeEffect
<1>5. CASE Contract!Unpin
  BY <1>5 DEF Contract!Unpin
<1>6. CASE UNCHANGED Contract!vars
  BY <1>6 DEF Contract!vars
<1> QED
  BY <1>1, <1>2, <1>3, <1>4, <1>5, <1>6 DEF Contract!Next

LEMMA ContractInvariant == Contract!Spec => []ContractInv
<1>1. Contract!Init => ContractInv
  BY LadderEnds, SameLadder
  DEF Contract!Init, ContractInv, Contract!TypeOK, Contract!HeldIsAbove, Contract!TierOrNone
<1> QED
  BY <1>1, ContractStep, PTL DEF Contract!Spec

\* A held tier is always a gated one above the tier in effect (State() of the
\* enforcer never shows a pending tier that is already applied or needs no gate).
THEOREM HeldTiersAreAbove == Contract!Spec => []Contract!HeldIsAbove
<1> QED
  BY ContractInvariant, PTL DEF ContractInv

\* The contract keeps its promise: into a gated tier the service rises only from
\* that tier held, or into a lock (HandleTransition, Force, resolveGate).
THEOREM ContractHoldsRises == Contract!Spec => Contract!RisesAreHeldFirst
<1>1. ASSUME applied \in Tiers, [Contract!Next]_(Contract!vars), applied' \in Gated, applied' > applied
      PROVE  pendingTier = applied' \/ locked' = applied'
  <2>1. applied' # applied
    BY <1>1, LadderEnds
  <2>2. ASSUME NEW t \in Tiers, Contract!Pin(t) PROVE locked' = applied'
    BY <2>2 DEF Contract!Pin, Contract!TakeEffect
  <2>3. CASE Contract!Serve
    BY <1>1, <2>1, <2>3 DEF Contract!Serve, Contract!TakeEffect
  <2>4. CASE Contract!Admit
    BY <2>4 DEF Contract!Admit, Contract!TakeEffect
  <2>5. CASE UNCHANGED applied
    BY <2>1, <2>5
  <2> QED
    BY <1>1, <2>2, <2>3, <2>4, <2>5, SameLadder
    DEF Contract!Next, Contract!Request, Contract!Unpin, Contract!vars
<1>2. ContractInv => applied \in Tiers
  BY SameLadder DEF ContractInv, Contract!TypeOK
<1> QED
  BY <1>1, <1>2, ContractInvariant, PTL DEF Contract!Spec, Contract!RisesAreHeldFirst

\* So does the core: nothing that evaluator, gates, late answers and overrides do
\* together raises the service into a gated tier past the gate.
THEOREM CoreHoldsRises == Spec => []Contract!HeldIsAbove /\ Contract!RisesAreHeldFirst
<1> QED
  BY CoreKeepsContract, HeldTiersAreAbove, ContractHoldsRises, PTL DEF KeepsContract

=============================================================================
