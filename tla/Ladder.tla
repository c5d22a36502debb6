------------------------------- MODULE Ladder -------------------------------
(***************************************************************************)
(* The tier ladder of a compiled policy bundle (compiler.CompiledBundle).  *)
(*                                                                         *)
(* A tier is its position in bundle.Tiers, from 1 (least degraded, the     *)
(* source's index 0) to N (most degraded).  NoTier stands for the empty    *)
(* string and for a name that is not declared in the bundle, both of which *)
(* the source maps to index -1.                                            *)
(***************************************************************************)
EXTENDS Integers

CONSTANTS
    N,          \* number of declared tiers
    Gated,      \* tiers whose compiled form has a GateSpec
    OnTimeout   \* the on_timeout policy of each gated tier

Tiers  == 1..N
NoTier == 0
Bottom == 1
Top    == N

TierOrNone == Tiers \cup {NoTier}

\* The empty on_timeout means execute_policy everywhere in the source, so the
\* two spellings are one value here.
TimeoutPolicies == {"execute_policy", "hold", "escalate"}

ASSUME LadderAssumption ==
    /\ N \in Nat \ {0}
    /\ Gated \subseteq Tiers
    /\ OnTimeout \in [Gated -> TimeoutPolicies]

=============================================================================
