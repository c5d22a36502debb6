---------------------------- MODULE MCCompiler ----------------------------
(* Policies for the compiler: every short ladder of one signal, condition   *)
(* trees, tier names, blast radii; see README.                              *)
EXTENDS Compiler

CONSTANTS rps, mem, undeclared, self, db, cache

MCSignals  == {rps, mem, undeclared}
NoBounds   == [lt |-> {}, lte |-> {}, gt |-> {}, gte |-> {}, eq |-> {}]
BoundChoices == {{}, {2}, {4}}

AnyComparator == [lt : BoundChoices, lte : BoundChoices, gt : BoundChoices, gte : BoundChoices, eq : BoundChoices]

\* The comparators with at most one bound a side, and two that have more.
Contradictory == [NoBounds EXCEPT !.gte = {4}, !.lt = {2}]
Double        == [NoBounds EXCEPT !.gte = {2}, !.gt = {4}]
MCComparators == {c \in AnyComparator : Plain(c) /\ HasBounds(c)} \cup {Double}
MCLadders     == UNION {[1..n -> MCComparators] : n \in {2, 3}}

MCTier(name, when) == [name |-> name, when |-> when, known |-> TRUE]
MCNames == <<"nominal", "warm", "hot">>

MCPolicy(tiers) ==
    [signals |-> {rps, mem}, tiers |-> tiers, service |-> self,
     dependsOn |-> <<>>, cascadeTo |-> <<>>, boundary |-> NoName]

On(s, c) == Flat(s :> c)

LadderPolicies ==
    {MCPolicy([i \in DOMAIN l |-> MCTier(MCNames[i], On(rps, l[i]))]) : l \in MCLadders}

\* Conditions of one and two levels over declared and undeclared signals.
Low  == [NoBounds EXCEPT !.lt = {2}]
High == [NoBounds EXCEPT !.gte = {4}]
Leaf == {On(rps, High), On(mem, Low), On(undeclared, High), On(mem, Contradictory)}
AllOf(f, g) == [Flat(<<>>) EXCEPT !.allOf = <<f, g>>]
AnyOf(f, g) == [Flat(<<>>) EXCEPT !.anyOf = <<f, g>>]
Trees ==
    LET Two == Leaf \cup {AllOf(f, g) : f, g \in Leaf} \cup {AnyOf(f, g) : f, g \in Leaf} IN
    Two \cup {AllOf(On(rps, Low), f) : f \in Two} \cup {AnyOf(On(rps, Low), f) : f \in Two}
        \cup {[f EXCEPT !.comparisons = g.comparisons] : f \in Two, g \in Leaf}
        \cup {Flat(rps :> High @@ mem :> Low), Flat(<<>>)}

TreePolicies ==
    {MCPolicy(<<MCTier("nominal", Flat(<<>>)), MCTier("warm", f), MCTier("hot", g)>>) :
        f \in Leaf, g \in Trees}

NamePolicies ==
    {MCPolicy([i \in 1..3 |-> [name |-> names[i], known |-> known,
                               when |-> <<Flat(<<>>), On(rps, High), On(mem, Low)>>[i]]]) :
        names \in [1..3 -> {"nominal", "warm", NoName}], known \in BOOLEAN}
    \cup {MCPolicy(<<>>)}

Others == UNION {[1..n -> {self, db, cache}] : n \in 0..2}

BlastPolicies ==
    {[MCPolicy(<<MCTier("nominal", Flat(<<>>))>>)
        EXCEPT !.dependsOn = d, !.cascadeTo = c, !.boundary = b] :
        d \in Others, c \in Others, b \in {db, NoName}}

\* TLC keeps the value of a definition, and evaluates again what a constant is replaced by.
Conds        == UNION {{On(rps, c) : c \in MCComparators}, Leaf, Trees}
MCConditions == Conds
MCTierNames  == {"nominal", "warm", "hot"}
MCServices   == {self, db, cache}

MCPolicies == LadderPolicies \cup TreePolicies \cup NamePolicies \cup BlastPolicies
=============================================================================
