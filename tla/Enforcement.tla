---------------------------- MODULE Enforcement ----------------------------
(***************************************************************************)
(* The enforcer (pkg/enforcement/enforcer/enforcer.go) between the engine  *)
(* that proposes tiers and the human gate that holds some of them back.    *)
(*                                                                         *)
(* Goroutines: the engine loop, the dispatcher drain calling               *)
(* HandleTransition, one goroutine per open or superseded gate, the HTTP   *)
(* handlers of the control API (Force, Release) and of the gate callbacks  *)
(* (Respond).  Each enforcer method runs under Enforcer.mu and is one      *)
(* action.  LockTier is called inside that critical section; Evaluate      *)
(* cannot see the moment between the lock and the application (it reads no *)
(* enforcer state), nor can Unlock.                                        *)
(***************************************************************************)
EXTENDS Engine, HumanGate

VARIABLES
    applied,      \* applied (appliedIdx is the same number)
    pendingTier,  \* the tier held behind the open gate, NoTier when ""
    gateCancel,   \* the gate whose context gateCancel cancels, NoGate when nil
    gateSeq       \* the last gate opened: the source numbers them, here the
                  \* goroutine's identity plays the number's part

enfVars == <<applied, pendingTier, gateCancel, gateSeq>>
vars    == <<engineVars, gateVars, enfVars>>

EnfTypeOK ==
    /\ applied \in Tiers
    /\ pendingTier \in TierOrNone
    /\ gateCancel \in Gates \cup {NoGate}
    /\ gateSeq \in Gates \cup {NoGate}

Init ==
    /\ EngineInit
    /\ GateInit
    /\ applied = Bottom
    /\ pendingTier = NoTier
    /\ gateCancel = NoGate
    /\ gateSeq = NoGate

-----------------------------------------------------------------------------
\* Mutation of CancelledAfter: the old gate is forgotten without being cancelled.
CancelledNever == cancelled

\* cancelGateLocked, but for the assignment of cancelled it implies.
CancelledAfter ==
    IF gateCancel # NoGate THEN cancelled \cup {gateCancel} ELSE cancelled

\* Mutation of CancelGate: the held tier is not forgotten.
CancelKeepingTier ==
    /\ cancelled' = CancelledAfter
    /\ gateCancel' = NoGate
    /\ UNCHANGED <<pendingTier, gateSeq>>

CancelGate ==
    /\ cancelled' = CancelledAfter
    /\ gateCancel' = NoGate
    /\ pendingTier' = NoTier
    /\ UNCHANGED gateSeq

\* HandleTransition's third branch, after cancelling: hold t behind a new gate.
OpenGate(t) ==
    \E g \in Gates :
        /\ Spawn(g, t)
        /\ cancelled' = CancelledAfter
        /\ gateSeq' = g
        /\ gateCancel' = g
        /\ pendingTier' = t
        /\ UNCHANGED applied

ApplyDirectly(t) ==
    /\ CancelGate
    /\ applied' = t
    /\ UNCHANGED <<gpc, gtier, respCh, decision, gpending, asking>>

\* Mutation of NeedsGate: a step of one tier is let through.
NeedsGateOnLeap(t) == t \in Gated /\ t > applied + 1

NeedsGate(t) == t \in Gated /\ t > applied

\* Mutation of HandleTransition: it returns early when the tier is applied
\* already, and the gate that signals have moved away from stays open.
HandleOnlyChanges ==
    /\ chan # <<>>
    /\ chan' = Tail(chan)
    /\ LET to == Head(chan) IN
       IF to = applied THEN UNCHANGED <<gateVars, enfVars>>
       ELSE IF NeedsGate(to) THEN OpenGate(to) ELSE ApplyDirectly(to)
    /\ UNCHANGED <<evVars, proposal, raced>>

\* The drain goroutine takes the oldest transition and handles it.  When its
\* target is already applied only the gate is cancelled.
HandleTransition ==
    /\ chan # <<>>
    /\ chan' = Tail(chan)
    /\ LET to == Head(chan) IN
       IF NeedsGate(to) THEN OpenGate(to) ELSE ApplyDirectly(to)
    /\ UNCHANGED <<evVars, proposal, raced>>

\* Mutation of ForceTier: an open gate outlives the override.
ForceKeepingGate(t, d) ==
    /\ EngineLock(t, d)
    /\ applied' = t
    /\ UNCHANGED <<proposal, chan, gateVars, pendingTier, gateCancel, gateSeq>>

\* Force, the manual override of the control API.
ForceTier(t, d) ==
    /\ EngineLock(t, d)
    /\ ApplyDirectly(t)
    /\ UNCHANGED <<proposal, chan>>

\* Mutation of Release: it cancels the open gate's context and no more.
ReleaseCancelling ==
    /\ Unlock
    /\ cancelled' = CancelledAfter
    /\ UNCHANGED <<proposal, chan, raced, gpc, gtier, respCh, decision, gpending, asking>>
    /\ UNCHANGED enfVars

\* Release touches neither the applied tier nor an open gate.
Release ==
    /\ Unlock
    /\ UNCHANGED <<proposal, chan, raced, gateVars, enfVars>>

-----------------------------------------------------------------------------
ApplyOnly(t) == applied' = t /\ UNCHANGED <<evVars, raced>>

LockAndApply(t, d) == EngineLock(t, d) /\ applied' = t

\* Mutation of ActOn: an expired wait is treated like a superseded gate.
ActOnAnswersOnly(d, t) ==
    IF d.outcome = "timed_out" THEN UNCHANGED <<evVars, raced, applied>>
    ELSE \/ d.outcome = "approved" /\ ApplyOnly(t)
         \/ d.outcome = "escalated" /\ \E dur \in LockDurations : LockAndApply(Top, dur)

\* What the decision d of the gate that held t does to tier and lock.
ActOn(d, t) ==
    \/ /\ d.outcome = "approved"
       /\ ApplyOnly(t)
    \/ /\ d.outcome = "overridden"
       /\ LET target == IF d.target \in Tiers THEN d.target ELSE applied IN
          \E dur \in LockDurations : LockAndApply(target, dur)
    \/ /\ d.outcome = "escalated"
       /\ \E dur \in LockDurations : LockAndApply(Top, dur)
    \/ /\ d.outcome = "timed_out"
       /\ \/ OnTimeout[t] = "execute_policy" /\ ApplyOnly(t)
          \/ OnTimeout[t] = "hold" /\ \E dur \in LockDurations : LockAndApply(applied, dur)
          \/ OnTimeout[t] = "escalate" /\ \E dur \in LockDurations : LockAndApply(Top, dur)
    \/ /\ d.outcome = "superseded"
       /\ UNCHANGED <<evVars, raced, applied>>

\* Mutation of StillOpen: the number of the last gate alone decides.
LastOpened(g) == g = gateSeq

StillOpen(g) == g = gateSeq /\ pendingTier # NoTier

\* resolveGate: the goroutine of g delivers its decision and ends.
ResolveGate(g) ==
    /\ EndGoroutine(g)
    /\ IF StillOpen(g)
       THEN /\ gateCancel' = NoGate
            /\ pendingTier' = NoTier
            /\ ActOn(decision[g], gtier[g])
            /\ UNCHANGED gateSeq
       ELSE UNCHANGED <<enfVars, evVars, raced>>
    /\ UNCHANGED <<proposal, chan>>

-----------------------------------------------------------------------------
EngineStep ==
    \/ Tick /\ UNCHANGED <<gateVars, enfVars>>
    \/ Dispatch /\ UNCHANGED <<gateVars, enfVars>>

GateStep(g) ==
    \/ (Register(g) \/ Select(g) \/ Close(g)) /\ UNCHANGED <<engineVars, enfVars>>
    \/ ResolveGate(g)

\* The one step of a gate goroutine that waits for others: for the webhook.
Notify(g) == Notified(g) /\ UNCHANGED <<engineVars, enfVars>>

Clock      == Elapse /\ UNCHANGED <<proposal, chan, raced, gateVars, enfVars>>
SendAnswer(o) == RespondSend(o) /\ UNCHANGED <<engineVars, enfVars>>

\* What signals and people do, at any time and as often as they like.
Signals  == SignalsMove /\ UNCHANGED <<proposal, chan, raced, gateVars, enfVars>>
Override == (\E t \in Tiers, d \in LockDurations : ForceTier(t, d)) \/ Release
ReadGate == /\ \E o \in Operators, a \in Answers : RespondRead(o, a)
            /\ UNCHANGED <<engineVars, enfVars>>
Environment == Signals \/ Override \/ ReadGate

System ==
    \/ EngineStep
    \/ HandleTransition
    \/ \E g \in Gates : GateStep(g) \/ Notify(g)
    \/ \E o \in Operators : SendAnswer(o)
    \/ Clock

Next == System \/ Environment

Spec == Init /\ [][Next]_vars

\* The Go scheduler runs every runnable goroutine, the ticker and the timers
\* fire.  Signals and people owe nothing, nor does a webhook: the code sets no
\* limit to the time it takes to answer.
Fairness ==
    /\ WF_vars(EngineStep)
    /\ WF_vars(HandleTransition)
    /\ \A g \in Gates : WF_vars(GateStep(g))
    /\ \A o \in Operators : WF_vars(SendAnswer(o))
    /\ WF_vars(Clock)

FairSpec == Spec /\ Fairness

\* What the code relies on and cannot enforce: every notification returns.
NotificationsReturn == \A g \in Gates : WF_vars(Notify(g))

AnsweredSpec == FairSpec /\ NotificationsReturn

-----------------------------------------------------------------------------
\* Types of every variable of the composition.
TypeOK == EngineTypeOK /\ GateTypeOK /\ EnfTypeOK

\* A held tier is never orphaned (enforcer.go, State.PendingTier): while a tier
\* is held, the last opened gate admits exactly that tier, its goroutine is
\* alive and uncancelled and still has its decision to deliver, the stored
\* cancel function is its own, and the held tier is a gated one above the
\* applied tier.  When nothing is held no cancel function is kept.
HeldTierHasLiveGate ==
    IF pendingTier = NoTier
    THEN gateCancel = NoGate
    ELSE /\ gateSeq \in Gates
         /\ gateCancel = gateSeq
         /\ gtier[gateSeq] = pendingTier
         /\ gpc[gateSeq] # "free"
         /\ gateSeq \notin cancelled
         /\ pendingTier \in Gated
         /\ pendingTier > applied

\* README: "Only one gate is open at a time".  Every goroutine other than that
\* of the tier being held has had its context cancelled, so none of them can go
\* on waiting for its timer.
OthersAreCancelled ==
    \A g \in Gates : (gpc[g] # "free" /\ ~StillOpen(g)) => g \in cancelled

\* What is known of a goroutine apart from its place in the enforcer: an unused
\* identity is clean, and only a cancelled gate decides it was superseded.
GoroutineInv ==
    \A g \in Gates :
        /\ gpc[g] = "free" => g \notin cancelled /\ decision[g] = NoDecision
        /\ decision[g] = Superseded => g \in cancelled

\* A gate that closed as superseded was superseded by the enforcer: the outcome
\* for which resolveGate has no case never reaches it with the gate still open,
\* where it would drop a held tier without applying, locking or re-proposing.
SupersededIsNeverOpen ==
    \A g \in Gates : decision[g] = Superseded => ~StillOpen(g)

\* HumanGate.pending never points at a gate that is over: an answer is routed
\* only to a goroutine that registered and has not yet closed.
PendingIsRegistered ==
    gpending # NoGate => Reachable(gpending) \/ gpc[gpending] = "decided"

\* The invariant of the gates and the enforcer, and the inductive invariant of
\* the whole core.
GateInv ==
    GoroutineInv /\ HeldTierHasLiveGate /\ OthersAreCancelled /\ PendingIsRegistered

IInv == TypeOK /\ EvCoherent /\ GateInv

\* gate.go: "firing a new one supersedes routing of responses to the old one";
\* README: answering is refused "when no gate is open".  From the moment the open
\* gate notifies its operators until it is decided, answers are routed to it.
OpenGateIsAnswerable ==
    \A g \in Gates : (StillOpen(g) /\ Reachable(g)) => gpending = g

\* Where the enforcer is heading: the newest transition on its way to it, else
\* the tier it holds behind a gate, else the tier it applies.
Heading ==
    IF proposal # NoTier THEN proposal
    ELSE IF chan # <<>> THEN chan[Len(chan)]
    ELSE IF pendingTier # NoTier THEN pendingTier
    ELSE applied

\* The enforcer follows the evaluator (enforcer.go, package comment: the two
\* "differ while a human gate is open"): unless a transition was dropped or a
\* lock overtook one, what the enforcer applies, holds or is about to be told is
\* the evaluator's current tier.
EnforcerFollows == ~raced => Heading = current

\* The lock pins the enforcer too, unless it overtook a transition: from the lock
\* until the evaluator drops it, nothing is on its way, no gate is open, and the
\* locked tier is the applied one.
LockPinsEnforcer ==
    (locked # NoTier /\ ~raced) => applied = locked /\ pendingTier = NoTier /\ ~OnTheWay

\* The contract with the service, its variables mapped to the core's.  A gate, from
\* the go statement to the delivery of its decision, is one tier held.
Contract == INSTANCE TierContract WITH
    requests <- chan, tier <- applied, held <- pendingTier, pin <- locked

\* enforcer.go, package comment: evaluator, channel, gate goroutines and operators
\* together do nothing the contract does not allow.  In particular a held tier
\* never vanishes without a decision, a lock or a later request.
KeepsContract == Contract!Spec

GatedRise == applied' > applied /\ applied' \in Gated

\* g, the open gate for the tier applied next, delivers a decision to apply it.
AdmitsNext(g) ==
    /\ StillOpen(g)
    /\ gpc[g] = "returning" /\ gpc'[g] = "free"
    /\ gtier[g] = applied'
    /\ \/ decision[g].outcome = "approved"
       \/ decision[g].outcome = "timed_out" /\ OnTimeout[gtier[g]] = "execute_policy"

LockedNext == locked' = applied' /\ lockLeft' > 0 /\ current' = applied'

RiseIsDecided == LockedNext \/ \E g \in Gates : AdmitsNext(g)

\* README: an upward move into a gated tier is held "until an operator answers
\* or wait expires".  The applied tier rises into a gated tier only when the gate
\* that is open for it delivers an approval or an execute_policy timeout, or by a
\* lock on that very tier, which only Force and the deciding answers take.
GatedRiseIsDecided == [][GatedRise => RiseIsDecided]_vars

\* enforcer.go: a gate whose signals moved elsewhere is superseded.  Whatever a
\* cancelled gate brings back, late answers included, its delivery changes
\* neither the applied tier, nor the held one, nor the lock.
CancelledDelivers(g) == g \in cancelled /\ gpc[g] = "returning" /\ gpc'[g] = "free"

CancelledGateIsInert ==
    [][(\E g \in Gates : CancelledDelivers(g)) => UNCHANGED <<enfVars, evVars>>]_vars

\* gate.go, Fire: it "blocks until an operator responds, the spec's Wait elapses
\* (OutcomeTimedOut), or ctx is cancelled", and notifications "don't block gate on
\* failure".  The dead man's switch: a held tier is eventually decided or
\* superseded, with or without an answer.  It takes a webhook that answers.
HoldsEnd == \A g \in Gates : (gpc[g] = "spawned") ~> (gpc[g] = "free")

\* Once the signals settle and operators go away, what the enforcer applies or
\* holds is what the signals call for, if no lock or full channel lost a
\* transition on the way.  Holds that end in a lock are tried again after it.
Converges ==
    \A t \in Tiers :
        ( /\ <>[](match = t)
          /\ <>[][~Override /\ ~ReadGate]_vars
          /\ <>[](~raced) )
        => []<>(applied = t \/ pendingTier = t)

\* enforcer.go, Release: "removes any evaluator lock so signals drive the tier
\* again".  The unconditional claim: with the signals settled and no operator
\* around, the enforcer gets to the tier they call for.
SignalsDriveAgain ==
    \A t \in Tiers :
        (<>[](match = t) /\ <>[][~Override /\ ~ReadGate]_vars)
        => []<>(applied = t \/ pendingTier = t)

=============================================================================
