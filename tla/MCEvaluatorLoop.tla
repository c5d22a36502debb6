-------------------------- MODULE MCEvaluatorLoop --------------------------
(* The evaluator on a ladder of four tiers without gates; see README.       *)
EXTENDS EvaluatorLoop

MCOnTimeout == [t \in {} |-> "hold"]
=============================================================================
