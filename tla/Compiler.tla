------------------------------ MODULE Compiler ------------------------------
(***************************************************************************)
(* The policy compiler (Compile, pkg/compiler/compiler.go): semantic       *)
(* checks, the gap scan of GapScan, the graph search of BlastRadius, and   *)
(* the bundle, which is emitted only if none of them reported an error.    *)
(*                                                                         *)
(* A policy is a record of declared signals, tiers and blast radius.  A    *)
(* tier has a name, a condition, and whether its mode and gate are of the  *)
(* known kinds.  Warnings do not keep a bundle back and are left out.      *)
(***************************************************************************)
EXTENDS GapScan, Conditions, BlastRadius

CONSTANTS
    Policies,   \* the policies given to the compiler
    Names,      \* of tiers
    Services,   \* a policy may be about, depend on or cascade to
    NoName      \* a name left empty

Tier   == [name : Names \cup {NoName}, when : PolicyConditions, known : BOOLEAN]
Policy == [signals : SUBSET Signals, tiers : Seq(Tier), service : Services,
           dependsOn : Seq(Services), cascadeTo : Seq(Services),
           boundary : Services \cup {NoName}]

ASSUME PoliciesAssumption == Policies \subseteq Policy

VARIABLES
    policy,     \* the policy being compiled
    stage,      \* what Compile does next
    errors,     \* categories of the errors reported so far
    bundle      \* tiers of the emitted bundle, <<>> if there is none

vars == <<scanVars, blastVars, policy, stage, errors, bundle>>

Stages == {"validate", "scan", "blast", "emit", "done"}

-----------------------------------------------------------------------------
\* Mutation of RepeatedName: names are compared with that of the tier before.
RepeatsPrevious(tiers, i) == i > 1 /\ tiers[i].name = tiers[i - 1].name

RepeatedName(tiers, i) == \E j \in 1..(i - 1) : tiers[j].name = tiers[i].name

\* validate without the scan, and validateTierShape.
ShapeErrors(p) ==
    LET Some(P(_), category) == IF \E i \in DOMAIN p.tiers : P(i) THEN {category} ELSE {}
        BadName(i)  == p.tiers[i].name = NoName \/ RepeatedName(p.tiers, i)
        BadKind(i)  == ~p.tiers[i].known
        BadRange(i) == EmptyRanges(p.tiers[i].when) # {}
        BadRef(i)   == ~(SignalRefs(p.tiers[i].when) \subseteq p.signals)
    IN  (IF p.tiers = <<>> THEN {"structure"} ELSE {})
            \cup Some(BadName, "structure") \cup Some(BadKind, "behavior")
            \cup Some(BadRange, "contradiction") \cup Some(BadRef, "undeclared")

\* detectTierGaps' early returns: the comparators to scan, <<>> for none.
LadderOf(p) ==
    LET Single(i) == /\ p.tiers[i].when.allOf = <<>> /\ p.tiers[i].when.anyOf = <<>>
                     /\ Cardinality(DOMAIN p.tiers[i].when.comparisons) = 1
        SignalAt(i) == CHOOSE s \in DOMAIN p.tiers[i].when.comparisons : TRUE
        ladderOfTiers == [i \in DOMAIN p.tiers |-> p.tiers[i].when.comparisons[SignalAt(i)]]
    IN  IF /\ \A i \in DOMAIN p.tiers : Single(i)
           /\ \A i, j \in DOMAIN p.tiers : SignalAt(i) = SignalAt(j)
           /\ Scannable(ladderOfTiers)
        THEN ladderOfTiers ELSE <<>>

NoScan == ladder = <<>> /\ order = <<>> /\ next = 2 /\ cursor = UpTo([hi |-> 0, hiIncl |-> FALSE]) /\ gaps = {}

Init ==
    /\ policy \in Policies
    /\ ladder = LadderOf(policy)
    /\ IF ladder = <<>> THEN NoScan ELSE ScanInit
    /\ BlastInit(BlastGraph(policy.service, policy.dependsOn, policy.cascadeTo))
    /\ stage = "validate"
    /\ errors = {}
    /\ bundle = <<>>

-----------------------------------------------------------------------------
Validate ==
    /\ stage = "validate"
    /\ stage' = "scan"
    /\ errors' = ShapeErrors(policy)
    /\ UNCHANGED <<scanVars, blastVars, policy, bundle>>

Scan ==
    /\ stage = "scan"
    /\ ScanNext
    /\ UNCHANGED <<blastVars, policy, stage, errors, bundle>>

\* The isolation boundary is checked before the search.
EndScan ==
    /\ stage = "scan" /\ Scanned
    /\ stage' = "blast"
    /\ errors' = errors \cup (IF gaps = {} THEN {} ELSE {"tier gap"})
                        \cup (IF policy.boundary # NoName /\ policy.boundary \in ToSet(policy.cascadeTo)
                              THEN {"contradiction"} ELSE {})
    /\ UNCHANGED <<scanVars, blastVars, policy, bundle>>

Search ==
    /\ stage = "blast"
    /\ BlastStep
    /\ UNCHANGED <<scanVars, policy, stage, errors, bundle>>

EndSearch ==
    /\ stage = "blast" /\ Blasted
    /\ stage' = "emit"
    /\ errors' = errors \cup (IF Searching THEN {} ELSE {"cycle"})
    /\ UNCHANGED <<scanVars, blastVars, policy, bundle>>

Emit ==
    /\ stage = "emit"
    /\ stage' = "done"
    /\ bundle' = IF errors = {} THEN policy.tiers ELSE <<>>
    /\ UNCHANGED <<scanVars, blastVars, policy, errors>>

Next == Validate \/ Scan \/ EndScan \/ Search \/ EndSearch \/ Emit

Spec == Init /\ [][Next]_vars

-----------------------------------------------------------------------------
\* Types of every variable, those of the scan and of the search included.
TypeOK ==
    /\ ladder # <<>> => ScanTypeOK
    /\ BlastTypeOK
    /\ stage \in Stages
    /\ errors \subseteq {"structure", "behavior", "contradiction", "undeclared", "tier gap", "cycle"}
    /\ bundle \in {<<>>, policy.tiers}

\* The snapshots the engine may be shown: any signals, declared or not, with any
\* of a few values, the others missing.
Samples   == {v \in Values : v > 0}
Snapshots == UNION {[known -> Samples] : known \in SUBSET Signals}

Known(vals, signals) == [s \in DOMAIN vals \cap signals |-> vals[s]]

\* Compile, "undeclared".  What an emitted bundle makes of a snapshot depends on
\* declared signals only, whatever branches of a condition evalCondition skips.
UndeclaredNeverMatters ==
    bundle # <<>> => \A vals \in Snapshots :
        MatchTier(bundle, vals) = MatchTier(bundle, Known(vals, policy.signals))

\* MatchTier and evalCondition, a missing signal.  Signals that were never
\* fetched can hide a degraded tier, they never feign one: with more signals
\* known, an emitted bundle matches the same tier or a more degraded one.
MissingSignalsNeverDegrade ==
    bundle # <<>> => \A vals \in Snapshots : \A known \in SUBSET DOMAIN vals :
        TierIndex(bundle, MatchTier(bundle, Known(vals, known)))
            <= TierIndex(bundle, MatchTier(bundle, vals))

\* MatchTier returns a name, and the evaluator looks it up again (tierIndex).  In
\* every emitted bundle it arrives at the most degraded tier whose condition
\* holds, or at the first tier if none does.
NamesLeadToMatches ==
    bundle # <<>> => \A vals \in Snapshots :
        LET i == TierIndex(bundle, MatchTier(bundle, vals)) IN
        /\ i = 1 \/ EvalCondition(bundle[i].when, vals)
        /\ \A j \in DOMAIN bundle : EvalCondition(bundle[j].when, vals) => j <= i

\* Compile, "contradiction".  Every comparator with one bound a side of an emitted
\* bundle is true of some value, however deep in a condition it stands.
EmittedIsSatisfiable ==
    \A i \in DOMAIN bundle : \A leaf \in Leaves(bundle[i].when) :
        Plain(leaf[2]) => \E v \in Values : Satisfies(v, leaf[2])

=============================================================================
