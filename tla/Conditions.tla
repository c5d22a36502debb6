----------------------------- MODULE Conditions -----------------------------
(***************************************************************************)
(* Conditions of tiers: what the engine makes of them (evalCondition and   *)
(* MatchTier, pkg/runtime/evaluator.go) and what the compiler collects     *)
(* from them (collectSignalRefs and emptyRanges,                           *)
(* pkg/compiler/validator.go).                                             *)
(*                                                                         *)
(* A condition is a record of comparisons, a function from signals to      *)
(* comparators, and two sequences of conditions, allOf and anyOf.  The     *)
(* recursive Go functions are recursive functions on the conditions that   *)
(* occur.  A snapshot is a function from the signals that have a value.    *)
(***************************************************************************)
EXTENDS Comparators, FiniteSetsExt

CONSTANTS
    Signals,            \* the signals conditions may refer to, declared or not
    PolicyConditions    \* the conditions of all tiers, and those nested in them

Flat(comparisons) == [comparisons |-> comparisons, allOf |-> <<>>, anyOf |-> <<>>]

\* The conditions a condition is made of, and how deep it nests them.
Nested(c) == {c.allOf[i] : i \in DOMAIN c.allOf} \cup {c.anyOf[i] : i \in DOMAIN c.anyOf}

Depth[c \in PolicyConditions] ==
    IF Nested(c) = {} THEN 0 ELSE 1 + Max({Depth[d] : d \in Nested(c)})

\* Conditions are finite trees.
ASSUME ConditionsAssumption ==
    \A c \in PolicyConditions :
        /\ DOMAIN c.comparisons \subseteq Signals
        /\ \A s \in DOMAIN c.comparisons : c.comparisons[s] \in Comparator
        /\ Nested(c) \subseteq PolicyConditions
        /\ Depth[c] \in Nat
        /\ \A d \in Nested(c) : Depth[d] < Depth[c]

-----------------------------------------------------------------------------
\* Mutation of EvalCondition: a missing signal does not speak against a tier.
EvalIgnoringMissing(c, vals) ==
    LET holds[d \in PolicyConditions] ==
            IF d.allOf # <<>> THEN \A i \in DOMAIN d.allOf : holds[d.allOf[i]]
            ELSE IF d.anyOf # <<>> THEN \E i \in DOMAIN d.anyOf : holds[d.anyOf[i]]
            ELSE \A s \in DOMAIN d.comparisons :
                    s \in DOMAIN vals => Satisfies(vals[s], d.comparisons[s])
    IN  holds[c]

\* evalCondition: all_of hides any_of, and both hide the comparisons.
EvalCondition(c, vals) ==
    LET holds[d \in PolicyConditions] ==
            IF d.allOf # <<>> THEN \A i \in DOMAIN d.allOf : holds[d.allOf[i]]
            ELSE IF d.anyOf # <<>> THEN \E i \in DOMAIN d.anyOf : holds[d.anyOf[i]]
            ELSE \A s \in DOMAIN d.comparisons :
                    s \in DOMAIN vals /\ Satisfies(vals[s], d.comparisons[s])
    IN  holds[c]

\* MatchTier: the name of the most degraded tier that matches, or of the first.
MatchTier(tiers, vals) ==
    LET matching == {i \in DOMAIN tiers : EvalCondition(tiers[i].when, vals)} IN
    tiers[IF matching = {} THEN 1 ELSE Max(matching)].name

\* tierIndex: the first tier of that name.
TierIndex(tiers, name) == Min({i \in DOMAIN tiers : tiers[i].name = name})

-----------------------------------------------------------------------------
LeavesHere(c) == {<<s, c.comparisons[s]>> : s \in DOMAIN c.comparisons}

\* Mutation of Leaves: any_of is not walked.
LeavesOfAllOf(c) ==
    LET leaves[d \in PolicyConditions] ==
            LeavesHere(d) \cup UNION {leaves[d.allOf[i]] : i \in DOMAIN d.allOf}
    IN  leaves[c]

\* The walk of collectSignalRefs and emptyRanges: every comparison in the tree,
\* evaluated or not.
Leaves(c) ==
    LET leaves[d \in PolicyConditions] ==
            LeavesHere(d) \cup UNION {leaves[e] : e \in Nested(d)}
    IN  leaves[c]

SignalRefs(c)  == {leaf[1] : leaf \in Leaves(c)}
EmptyRanges(c) == {leaf[1] : leaf \in {l \in Leaves(c) : EmptyRange(l[2])}}

=============================================================================
