---------------------------- MODULE BlastRadius ----------------------------
(***************************************************************************)
(* The compiler's third stage (analyzeBlast, pkg/compiler/blast.go): the   *)
(* graph of what a service depends on and cascades to, and the depth-first *)
(* search for a cycle in it.  The recursion is a stack of frames, each     *)
(* with the number of the neighbour it looks at next; one iteration of its *)
(* loop is one action.  The outer loop ranges over a Go map, in any order. *)
(***************************************************************************)
EXTENDS Integers, SequencesExt

VARIABLES
    graph,      \* node -> sequence of its neighbours
    color,      \* white, grey or black
    stack,      \* frames of dfs, innermost last: [node, next]
    cyclePath   \* <<>> until a back edge is found

blastVars == <<graph, color, stack, cyclePath>>

Colors == {"white", "grey", "black"}
Nodes  == DOMAIN graph

\* The edges all leave the service the policy is about.
BlastGraph(service, dependsOn, cascadeTo) ==
    LET all == dependsOn \o cascadeTo IN
    [n \in {service} \cup ToSet(all) |-> IF n = service THEN all ELSE <<>>]

BlastInit(g) ==
    /\ graph = g
    /\ color = [n \in DOMAIN g |-> "white"]
    /\ stack = <<>>
    /\ cyclePath = <<>>

BlastTypeOK ==
    /\ color \in [Nodes -> Colors]
    /\ \A f \in ToSet(stack) : f.node \in Nodes /\ f.next \in 1..(Len(graph[f.node]) + 1)
    /\ cyclePath \in {<<>>} \cup (Nodes \X Nodes)

-----------------------------------------------------------------------------
Searching == cyclePath = <<>>

Visit(n) == color' = [color EXCEPT ![n] = "grey"]

\* Mutation of PickRoot: the neighbours are counted from zero.
PickRootFromZero ==
    /\ Searching /\ stack = <<>>
    /\ \E n \in Nodes :
        /\ color[n] = "white"
        /\ Visit(n)
        /\ stack' = <<[node |-> n, next |-> 0]>>
    /\ UNCHANGED <<graph, cyclePath>>

\* The outer loop calls dfs on a node not visited yet.
PickRoot ==
    /\ Searching /\ stack = <<>>
    /\ \E n \in Nodes :
        /\ color[n] = "white"
        /\ Visit(n)
        /\ stack' = <<[node |-> n, next |-> 1]>>
    /\ UNCHANGED <<graph, cyclePath>>

\* The innermost frame and the neighbour it is at.
Frame     == Last(stack)
AtEnd     == Frame.next > Len(graph[Frame.node])
Neighbour == graph[Frame.node][Frame.next]

Return ==
    /\ Searching /\ stack # <<>> /\ AtEnd
    /\ color' = [color EXCEPT ![Frame.node] = "black"]
    /\ stack' = Front(stack)
    /\ UNCHANGED <<graph, cyclePath>>

\* Mutation of BackEdge: every node seen before closes a cycle.
BackEdgeToAnySeen ==
    /\ Searching /\ stack # <<>> /\ ~AtEnd
    /\ color[Neighbour] # "white"
    /\ cyclePath' = <<Frame.node, Neighbour>>
    /\ UNCHANGED <<graph, color, stack>>

BackEdge ==
    /\ Searching /\ stack # <<>> /\ ~AtEnd
    /\ color[Neighbour] = "grey"
    /\ cyclePath' = <<Frame.node, Neighbour>>
    /\ UNCHANGED <<graph, color, stack>>

\* A white neighbour is visited, a black one passed over.
Descend ==
    /\ Searching /\ stack # <<>> /\ ~AtEnd
    /\ color[Neighbour] # "grey"
    /\ LET here == Front(stack) \o <<[Frame EXCEPT !.next = @ + 1]>> IN
       IF color[Neighbour] = "white"
       THEN Visit(Neighbour) /\ stack' = Append(here, [node |-> Neighbour, next |-> 1])
       ELSE stack' = here /\ UNCHANGED color
    /\ UNCHANGED <<graph, cyclePath>>

BlastStep == PickRoot \/ Return \/ BackEdge \/ Descend

Blasted == ~Searching \/ (stack = <<>> /\ \A n \in Nodes : color[n] # "white")

\* Reference: a cycle is a path of at most as many edges as there are nodes, from a
\* node to itself.
Path(g, p, l) == \A i \in 1..l : p[i] \in ToSet(g[p[i - 1]])

Cyclic(g) ==
    \E l \in 1..Cardinality(DOMAIN g) : \E p \in [0..l -> DOMAIN g] : Path(g, p, l) /\ p[l] = p[0]

\* Whatever the order of the map, a cycle is reported exactly when there is one,
\* and the edge it names is an edge of the graph.
CyclesAreFound ==
    Blasted =>
        /\ ~Searching <=> Cyclic(graph)
        /\ ~Searching => cyclePath[2] \in ToSet(graph[cyclePath[1]])

=============================================================================
