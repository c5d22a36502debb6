---------------------------- MODULE TierContract ----------------------------
(***************************************************************************)
(* What the enforcer promises the service it degrades (the package comment *)
(* of pkg/enforcement/enforcer/enforcer.go), without evaluator, goroutines *)
(* or clocks: tiers are requested one after the other; a request to rise   *)
(* into a gated tier is held until it is admitted, given up for a lock or  *)
(* replaced by the next request; all others take effect at once.           *)
(*                                                                         *)
(* Module Enforcement implements this specification.                       *)
(***************************************************************************)
EXTENDS Ladder, Sequences

VARIABLES
    requests,   \* tiers requested and not yet looked at, oldest first
    tier,       \* State().Tier: the tier in effect
    held,       \* State().PendingTier: the tier held behind a gate
    pin         \* the tier an operator or a decision has locked, NoTier if none

vars == <<requests, tier, held, pin>>

Init ==
    /\ requests = <<>>
    /\ tier = Bottom
    /\ held = NoTier
    /\ pin = NoTier

-----------------------------------------------------------------------------
Request(t) ==
    /\ requests' = Append(requests, t)
    /\ UNCHANGED <<tier, held, pin>>

TakeEffect(t) == tier' = t /\ held' = NoTier

\* The next request is looked at.  A tier held so far is given up for it, also
\* when it asks for the tier in effect.
Serve ==
    /\ requests # <<>>
    /\ requests' = Tail(requests)
    /\ LET t == Head(requests) IN
       IF t \in Gated /\ t > tier THEN held' = t /\ UNCHANGED tier ELSE TakeEffect(t)
    /\ UNCHANGED pin

\* The held tier is admitted: an operator approved, or its time ran out.
Admit ==
    /\ held # NoTier
    /\ TakeEffect(held)
    /\ UNCHANGED <<requests, pin>>

\* A tier is locked: by override, by escalation, or by holding on.
Pin(t) ==
    /\ TakeEffect(t)
    /\ pin' = t
    /\ UNCHANGED requests

Unpin ==
    /\ pin' = NoTier
    /\ UNCHANGED <<requests, tier, held>>

Next ==
    \/ \E t \in Tiers : Request(t) \/ Pin(t)
    \/ Serve
    \/ Admit
    \/ Unpin

Spec == Init /\ [][Next]_vars

-----------------------------------------------------------------------------
\* Types of every variable.
TypeOK ==
    /\ requests \in Seq(Tiers)
    /\ tier \in Tiers
    /\ held \in TierOrNone
    /\ pin \in TierOrNone

\* What is held is worth deciding: a gated tier above the one in effect.
HeldIsAbove == held # NoTier => held \in Gated /\ held > tier

\* enforcer.go: "an upward move into a tier that declares human_gate is held".
\* The service rises into a gated tier only if that very tier was held or is
\* being locked.
RisesAreHeldFirst ==
    [][(tier' \in Gated /\ tier' > tier) => held = tier' \/ pin' = tier']_vars

=============================================================================
