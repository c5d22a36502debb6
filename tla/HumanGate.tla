----------------------------- MODULE HumanGate -----------------------------
(***************************************************************************)
(* The human gate (pkg/gate/gate.go) and the goroutines that call Fire.    *)
(*                                                                         *)
(* Every opened gate has a goroutine (enforcer.openGateLocked) that calls  *)
(* Fire and hands the decision back.  Gates is a pool of goroutine         *)
(* identities: one is taken when a gate opens and returned when its        *)
(* goroutine ends, so the number of gates ever opened is not bounded, only *)
(* the number of goroutines alive at once.                                 *)
(*                                                                         *)
(* gpc[g] is where goroutine g stands:                                     *)
(*   "free"      no such goroutine                                         *)
(*   "spawned"   started, has not yet stored itself in HumanGate.pending   *)
(*   "notifying" registered; calling Slack and PagerDuty, with no timer    *)
(*   "waiting"   in the select, its timer running                          *)
(*   "decided"   the select returned, pending not yet cleared              *)
(*   "returning" pending cleared; Fire is finishing, its caller has not    *)
(*               yet taken the decision to the enforcer                    *)
(***************************************************************************)
EXTENDS Ladder

CONSTANTS
    Gates,            \* pool of gate goroutines
    NoGate,           \* the nil pending gate
    Operators,        \* people or scripts answering on the callback API
    OverrideTargets,  \* tiers operators name in an override; NoTier is an unknown name
    OrderedStart      \* TRUE: gate goroutines start in the order they were created

ASSUME GateAssumption ==
    /\ NoGate \notin Gates
    /\ OverrideTargets \subseteq TierOrNone
    /\ OrderedStart \in BOOLEAN

VARIABLES
    gpc,          \* see above
    gtier,        \* the tier the gate would admit
    cancelled,    \* the gates whose context has been cancelled
    respCh,       \* pendingGate.respCh, capacity one
    decision,     \* what the select chose, NoDecision before it
    gpending,     \* HumanGate.pending
    asking        \* per operator: Respond between reading pending and sending

gateVars == <<gpc, gtier, cancelled, respCh, decision, gpending, asking>>

Stages == {"free", "spawned", "notifying", "waiting", "decided", "returning"}

\* A registered gate whose answer the select will read.
Reachable(g) == gpc[g] \in {"notifying", "waiting"}

Answer(outcome, target) == [outcome |-> outcome, target |-> target]

\* What the select makes of a GateResponse; the callback server rejects an
\* override without a target before it reaches the gate.
Answers ==
    {Answer("approved", NoTier), Answer("escalated", NoTier)}
        \cup {Answer("overridden", t) : t \in OverrideTargets}

TimedOut   == Answer("timed_out", NoTier)
Superseded == Answer("superseded", NoTier)
NoDecision == Answer("none", NoTier)

NotAsking   == [gate |-> NoGate, answer |-> NoDecision]
InFlight    == [gate : Gates, answer : Answers]

GateTypeOK ==
    /\ gpc \in [Gates -> Stages]
    /\ gtier \in [Gates -> TierOrNone]
    /\ cancelled \subseteq Gates
    /\ respCh \in [Gates -> Answers \cup {NoDecision}]
    /\ decision \in [Gates -> Answers \cup {TimedOut, Superseded, NoDecision}]
    /\ gpending \in Gates \cup {NoGate}
    /\ asking \in [Operators -> InFlight \cup {NotAsking}]

GateInit ==
    /\ gpc = [g \in Gates |-> "free"]
    /\ gtier = [g \in Gates |-> NoTier]
    /\ cancelled = {}
    /\ respCh = [g \in Gates |-> NoDecision]
    /\ decision = [g \in Gates |-> NoDecision]
    /\ gpending = NoGate
    /\ asking = [o \in Operators |-> NotAsking]

-----------------------------------------------------------------------------
\* A goroutine identity nobody refers to any more: its goroutine has ended and
\* no late Respond still holds its channel.
Free(g) == gpc[g] = "free" /\ \A o \in Operators : asking[o].gate # g

\* The go statement of openGateLocked, with a context of its own.  Contexts are
\* cancelled by the enforcer, which says what becomes of cancelled.
Spawn(g, t) ==
    /\ Free(g)
    /\ gpc' = [gpc EXCEPT ![g] = "spawned"]
    /\ gtier' = [gtier EXCEPT ![g] = t]
    /\ UNCHANGED <<respCh, decision, gpending, asking>>

\* Fire stores the gate in pending, whatever was there.
Register(g) ==
    /\ gpc[g] = "spawned"
    /\ OrderedStart => g \in cancelled \/ \A h \in Gates \ {g} : gpc[h] # "spawned"
    /\ gpc' = [gpc EXCEPT ![g] = "notifying"]
    /\ gpending' = g
    /\ UNCHANGED <<gtier, cancelled, respCh, decision, asking>>

\* The notifications have returned, sent or failed, and Fire gets to NewTimer.
\* Until then it sees no answer, no cancellation and no timeout.  PagerDuty is
\* called with a time limit, Slack with none (http.Post).
Notified(g) ==
    /\ gpc[g] = "notifying"
    /\ gpc' = [gpc EXCEPT ![g] = "waiting"]
    /\ UNCHANGED <<gtier, cancelled, respCh, decision, gpending, asking>>

\* The select returns; what is left in respCh, now or later, nobody reads.
Decide(g, d) ==
    /\ gpc[g] = "waiting"
    /\ gpc' = [gpc EXCEPT ![g] = "decided"]
    /\ decision' = [decision EXCEPT ![g] = d]
    /\ respCh' = [respCh EXCEPT ![g] = NoDecision]
    /\ UNCHANGED <<gtier, cancelled, gpending, asking>>

\* Mutation of TimerFires: an expired wait is reported as superseded.
ExpiryLooksSuperseded(g) == Decide(g, Superseded)

\* The cases of the select.
TakeAnswer(g) == respCh[g] # NoDecision /\ Decide(g, respCh[g])
TimerFires(g) == Decide(g, TimedOut)
SeeCancel(g)  == g \in cancelled /\ Decide(g, Superseded)

\* Mutation of Select: the wait never ends.
SelectWithoutTimer(g) == TakeAnswer(g) \/ SeeCancel(g)

\* The select: whichever ready case the runtime picks.
Select(g) == TakeAnswer(g) \/ TimerFires(g) \/ SeeCancel(g)

\* Mutation of Close: pending is cleared whoever is there.
CloseClearingAny(g) ==
    /\ gpc[g] = "decided"
    /\ gpc' = [gpc EXCEPT ![g] = "returning"]
    /\ gpending' = NoGate
    /\ UNCHANGED <<gtier, cancelled, respCh, decision, asking>>

\* The second critical section of Fire: a newer gate may have replaced this one.
Close(g) ==
    /\ gpc[g] = "decided"
    /\ gpc' = [gpc EXCEPT ![g] = "returning"]
    /\ gpending' = IF gpending = g THEN NoGate ELSE gpending
    /\ UNCHANGED <<gtier, cancelled, respCh, decision, asking>>

\* The goroutine ends; what it held is garbage.
EndGoroutine(g) ==
    /\ gpc[g] = "returning"
    /\ gpc' = [gpc EXCEPT ![g] = "free"]
    /\ gtier' = [gtier EXCEPT ![g] = NoTier]
    /\ cancelled' = cancelled \ {g}
    /\ respCh' = [respCh EXCEPT ![g] = NoDecision]
    /\ decision' = [decision EXCEPT ![g] = NoDecision]
    /\ UNCHANGED <<gpending, asking>>

-----------------------------------------------------------------------------
\* Respond, with a valid token, in two steps: it reads pending under the lock
\* and sends without it.  With nothing pending it returns ErrNoPendingGate and
\* changes nothing.
RespondRead(o, a) ==
    /\ asking[o] = NotAsking
    /\ gpending # NoGate
    /\ asking' = [asking EXCEPT ![o] = [gate |-> gpending, answer |-> a]]
    /\ UNCHANGED <<gpc, gtier, cancelled, respCh, decision, gpending>>

\* The send is accepted by an empty channel, also by that of a gate past its
\* select, where nobody will read it; on a full one Respond returns
\* ErrAlreadyAnswered.
RespondSend(o) ==
    /\ asking[o] # NotAsking
    /\ LET g == asking[o].gate IN
       respCh' = IF Reachable(g) /\ respCh[g] = NoDecision
                 THEN [respCh EXCEPT ![g] = asking[o].answer]
                 ELSE respCh
    /\ asking' = [asking EXCEPT ![o] = NotAsking]
    /\ UNCHANGED <<gpc, gtier, cancelled, decision, gpending>>

=============================================================================
