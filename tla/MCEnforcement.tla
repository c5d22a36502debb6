--------------------------- MODULE MCEnforcement ---------------------------
(* The enforcement core on a three-tier ladder; see README.                *)
EXTENDS Enforcement, TLC

CONSTANTS g1, g2

MCGates     == {g1, g2}
MCSymmetry  == Permutations(MCGates)
MCMixed     == [t \in Gated |-> IF t = Top THEN "hold" ELSE "escalate"]
MCExecute   == [t \in Gated |-> "execute_policy"]
=============================================================================
