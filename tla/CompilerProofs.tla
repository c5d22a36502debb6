--------------------------- MODULE CompilerProofs ---------------------------
(***************************************************************************)
(* The compiler, for every set of policies.                                *)
(*                                                                         *)
(* The search of BlastRadius, over any finite graph: BlastInv says that    *)
(* the stack is a path of the grey nodes, that a frame has passed black    *)
(* nodes only, and that the black nodes can be ranked along their edges.   *)
(* So no cycle runs through black nodes, and a grey neighbour closes one   *)
(* with the frames above it.                                               *)
(*                                                                         *)
(* The scan of GapScan, for ladders of any length over any range of        *)
(* values: ScanInv says what is known of the values below the cursor.      *)
(*                                                                         *)
(* Conditions, nested to any depth: NestedRecursion shows that a function  *)
(* defined by recursion over them exists, so that evalCondition is what    *)
(* its calls make of it (EvalStep), and NestedInduct is induction over     *)
(* them.                                                                   *)
(*                                                                         *)
(* CompilerInv puts the three together: what the checks have found is in   *)
(* errors, and a bundle is emitted only without any.                       *)
(***************************************************************************)
EXTENDS Compiler, FilteringLemmas, FiniteSetTheorems

\* The search over any finite graph whose edges end in nodes of it.
IsGraph(g) == IsFiniteSet(DOMAIN g) /\ g \in [DOMAIN g -> Seq(DOMAIN g)]

BlastSpec(g) == BlastInit(g) /\ [][BlastStep]_blastVars

SearchTypeOK ==
    /\ IsGraph(graph)
    /\ color \in [Nodes -> Colors]
    /\ stack \in Seq([node : Nodes, next : Nat])
    /\ \A i \in 1..Len(stack) : stack[i].next \in 1..(Len(graph[stack[i].node]) + 1)
    /\ cyclePath \in {<<>>} \cup (Nodes \X Nodes)

\* The grey nodes are those of the stack, each of which has one frame.
GreyIsOnStack ==
    /\ \A n \in Nodes : color[n] = "grey" <=> \E i \in 1..Len(stack) : stack[i].node = n
    /\ \A i, j \in 1..Len(stack) : stack[i].node = stack[j].node => i = j

\* The stack is a path: a frame was pushed for the neighbour the one below it has just passed.
StackIsPath ==
    \A i \in 1..(Len(stack) - 1) :
        /\ stack[i].next >= 2
        /\ graph[stack[i].node][stack[i].next - 1] = stack[i + 1].node

\* Other than that, the neighbours a frame has passed are black.
PassedAreBlack ==
    \A i \in 1..Len(stack) : \A k \in 1..(stack[i].next - 1) :
        \/ color[graph[stack[i].node][k]] = "black"
        \/ i < Len(stack) /\ k = stack[i].next - 1

\* The black nodes can be numbered, below a bound, so that the numbers decrease along edges:
\* the order in which they were left.
Ranks(f, bound) ==
    /\ f \in [Nodes -> Nat] /\ bound \in Nat
    /\ \A m \in Nodes : color[m] = "black" =>
        /\ f[m] < bound
        /\ \A k \in 1..Len(graph[m]) : color[graph[m][k]] = "black" /\ f[graph[m][k]] < f[m]

BlackIsRanked == \E f, bound : Ranks(f, bound)

FoundIsCycle ==
    ~Searching => Cyclic(graph) /\ cyclePath[2] \in ToSet(graph[cyclePath[1]])

BlastInv ==
    SearchTypeOK /\ GreyIsOnStack /\ StackIsPath /\ PassedAreBlack /\ BlackIsRanked /\ FoundIsCycle

LEMMA ElementAt ==
    ASSUME NEW S, NEW s \in Seq(S)
    PROVE  \A x : x \in ToSet(s) <=> \E k \in 1..Len(s) : s[k] = x
<1>1. DOMAIN s = 1..Len(s)
  OBVIOUS
<1> QED
  BY <1>1, Zenon DEF ToSet

\* A graph whose nodes have numbers that decrease along its edges has no cycle.
LEMMA RankedIsAcyclic ==
    ASSUME NEW g, IsGraph(g), NEW f \in [DOMAIN g -> Nat],
           \A m \in DOMAIN g : \A k \in 1..Len(g[m]) : f[g[m][k]] < f[m]
    PROVE  ~Cyclic(g)
<1> SUFFICES ASSUME NEW l \in 1..Cardinality(DOMAIN g), NEW p \in [0..l -> DOMAIN g], Path(g, p, l), p[l] = p[0]
             PROVE  FALSE
  BY DEF Cyclic
<1>0. l \in Nat \ {0}
  <2>1. Cardinality(DOMAIN g) \in Nat
    BY FS_CardinalityType DEF IsGraph
  <2> QED
    BY <2>1
<1> DEFINE P == {i \in 0..l : i = 0 \/ f[p[i]] < f[p[0]]}
<1>1. 0 \in P
  BY <1>0
<1>2. ASSUME NEW i \in 1..l, i - 1 \in P PROVE i \in P
  <2>1. p[i] \in ToSet(g[p[i - 1]]) /\ p[i - 1] \in DOMAIN g /\ p[i] \in DOMAIN g
    BY <1>0 DEF Path
  <2>2. PICK k \in 1..Len(g[p[i - 1]]) : p[i] = g[p[i - 1]][k]
    <3>1. PICK t \in Seq(DOMAIN g) : t = g[p[i - 1]]
      BY <2>1 DEF IsGraph
    <3> QED
      BY <2>1, <3>1, ElementAt
  <2>3. f[p[i]] < f[p[i - 1]]
    BY <2>1, <2>2
  <2>4. f[p[i]] \in Nat /\ f[p[i - 1]] \in Nat /\ f[p[0]] \in Nat
    BY <1>0, <2>1
  <2>5. i - 1 = 0 \/ f[p[i - 1]] < f[p[0]]
    BY <1>2
  <2>6. f[p[i]] < f[p[0]]
    BY <1>0, <2>3, <2>4, <2>5
  <2> QED
    BY <1>0, <2>6
<1> HIDE DEF P
<1>3. 0..l \subseteq P
  BY <1>0, <1>1, <1>2, Induct
<1>4. f[p[l]] < f[p[0]]
  <2>1. l \in P
    BY <1>0, <1>3
  <2> QED
    BY <1>0, <2>1 DEF P
<1>5. f[p[0]] \in Nat
  BY <1>0
<1> QED
  BY <1>4, <1>5

LEMMA BlastInitInv == ASSUME NEW g, IsGraph(g), BlastInit(g) PROVE BlastInv
<1>1. SearchTypeOK
  BY DEF SearchTypeOK, BlastInit, Nodes, Colors
<1>2. GreyIsOnStack /\ StackIsPath /\ PassedAreBlack
  BY DEF GreyIsOnStack, StackIsPath, PassedAreBlack, BlastInit, Nodes
<1>3. Ranks([n \in Nodes |-> 0], 0)
  BY DEF Ranks, BlastInit, Nodes
<1>4. FoundIsCycle
  BY DEF FoundIsCycle, Searching, BlastInit
<1> QED
  BY <1>1, <1>2, <1>3, <1>4 DEF BlastInv, BlackIsRanked

\* What a finished search has found.
LEMMA SearchIsExact == BlastInv => CyclesAreFound
<1> SUFFICES ASSUME BlastInv, Blasted, Searching PROVE ~Cyclic(graph)
  BY DEF BlastInv, FoundIsCycle, CyclesAreFound
<1>1. PICK f, bound : Ranks(f, bound)
  BY DEF BlastInv, BlackIsRanked
<1>2. \A n \in Nodes : color[n] = "black"
  BY DEF BlastInv, SearchTypeOK, GreyIsOnStack, Blasted, Colors
<1>3. \A m \in Nodes : \A k \in 1..Len(graph[m]) : f[graph[m][k]] < f[m]
  BY <1>1, <1>2 DEF Ranks
<1> QED
  BY <1>1, <1>3, RankedIsAcyclic DEF BlastInv, SearchTypeOK, Ranks, Nodes

-----------------------------------------------------------------------------
LEMMA PickRootInv == BlastInv /\ PickRoot => BlastInv'
<1> SUFFICES ASSUME BlastInv, PickRoot PROVE BlastInv'
  OBVIOUS
<1> USE DEF BlastInv
<1>1. PICK n \in Nodes : /\ color[n] = "white"
                         /\ color' = [color EXCEPT ![n] = "grey"]
                         /\ stack' = <<[node |-> n, next |-> 1]>>
  BY DEF PickRoot, Visit
<1>2. UNCHANGED <<graph, cyclePath>> /\ Nodes' = Nodes
  BY DEF PickRoot, Nodes
<1>3. stack = <<>> /\ Searching
  BY DEF PickRoot
<1>4. Len(stack') = 1 /\ stack'[1].node = n /\ stack'[1].next = 1
  BY <1>1
<1>5. SearchTypeOK'
  <2>1. stack' \in Seq([node : Nodes, next : Nat])
    BY <1>1
  <2>2. 1 \in 1..(Len(graph[n]) + 1)
    BY DEF SearchTypeOK, IsGraph, Nodes
  <2> QED
    BY <1>1, <1>2, <1>4, <2>1, <2>2 DEF SearchTypeOK, Colors
<1>6. GreyIsOnStack'
  BY <1>1, <1>2, <1>3, <1>4 DEF GreyIsOnStack, SearchTypeOK
<1>7. StackIsPath' /\ PassedAreBlack'
  BY <1>4 DEF StackIsPath, PassedAreBlack
<1>8. BlackIsRanked'
  <2>1. PICK f, bound : Ranks(f, bound)
    BY DEF BlackIsRanked
  <2>2. \A m \in Nodes : \A k \in 1..Len(graph[m]) : graph[m][k] \in Nodes
    BY DEF SearchTypeOK, IsGraph, Nodes
  <2>3. color' \in [Nodes -> Colors] /\ \A m \in Nodes : color'[m] = "black" <=> color[m] = "black"
    BY <1>1 DEF SearchTypeOK, Colors
  <2>4. Ranks(f, bound)'
    BY <1>2, <2>1, <2>2, <2>3 DEF Ranks
  <2> QED
    BY <2>4 DEF BlackIsRanked
<1>9. FoundIsCycle'
  BY <1>2, <1>3 DEF FoundIsCycle, Searching
<1> QED
  BY <1>5, <1>6, <1>7, <1>8, <1>9

\* The frames, one by one.
FramesOK ==
    /\ Len(stack) \in Nat
    /\ \A i \in 1..Len(stack) :
        /\ stack[i].node \in Nodes
        /\ stack[i].next \in Nat \ {0}
        /\ stack[i].next <= Len(graph[stack[i].node]) + 1
    /\ \A n \in Nodes : Len(graph[n]) \in Nat /\ \A k \in 1..Len(graph[n]) : graph[n][k] \in Nodes

LEMMA Frames == SearchTypeOK => FramesOK
<1> SUFFICES ASSUME SearchTypeOK PROVE FramesOK
  OBVIOUS
<1>1. Len(stack) \in Nat
  BY DEF SearchTypeOK
<1>2. \A n \in Nodes : Len(graph[n]) \in Nat /\ \A k \in 1..Len(graph[n]) : graph[n][k] \in Nodes
  BY DEF SearchTypeOK, IsGraph, Nodes
<1>3. ASSUME NEW i \in 1..Len(stack)
      PROVE  /\ stack[i].node \in Nodes
             /\ stack[i].next \in Nat \ {0}
             /\ stack[i].next <= Len(graph[stack[i].node]) + 1
  <2> DEFINE F == [node : Nodes, next : Nat]
  <2>1. stack[i] \in F
    <3>1. stack \in Seq(F)
      BY DEF SearchTypeOK
    <3> HIDE DEF F
    <3> QED
      BY <3>1
  <2>2. stack[i].node \in Nodes
    BY <2>1
  <2>3. PICK l \in Nat : l = Len(graph[stack[i].node])
    BY <1>2, <2>2
  <2>4. stack[i].next \in 1..(l + 1)
    BY <2>3 DEF SearchTypeOK
  <2> QED
    BY <2>2, <2>3, <2>4
<1> QED
  BY <1>1, <1>2, <1>3 DEF FramesOK

\* The innermost frame.
LEMMA TopFrame ==
    ASSUME SearchTypeOK, stack # <<>>
    PROVE  /\ Len(stack) \in Nat \ {0}
           /\ Frame = stack[Len(stack)]
           /\ ~AtEnd => Frame.next \in 1..Len(graph[Frame.node]) /\ Neighbour \in Nodes
           /\ AtEnd => Frame.next = Len(graph[Frame.node]) + 1
<1>1. Len(stack) \in Nat \ {0} /\ Frame = stack[Len(stack)]
  BY DEF SearchTypeOK, Frame, Last
<1>2. PICK n, k, l : n = Frame.node /\ k = Frame.next /\ l = Len(graph[n])
  OBVIOUS
<1>3. n \in Nodes /\ k \in Nat \ {0} /\ k <= l + 1 /\ l \in Nat /\ \A j \in 1..l : graph[n][j] \in Nodes
  BY <1>1, <1>2, Frames DEF FramesOK
<1>4. ~AtEnd => k \in 1..l /\ Neighbour \in Nodes
  BY <1>2, <1>3 DEF AtEnd, Neighbour
<1>5. AtEnd => k = l + 1
  BY <1>2, <1>3 DEF AtEnd
<1> QED
  BY <1>1, <1>2, <1>4, <1>5

LEMMA FrontIs ==
    ASSUME NEW S, NEW s \in Seq(S), s # <<>>
    PROVE  /\ Front(s) \in Seq(S) /\ Len(Front(s)) = Len(s) - 1
           /\ \A i \in 1..(Len(s) - 1) : Front(s)[i] = s[i]
<1>1. Len(s) \in Nat \ {0}
  OBVIOUS
<1>2. PICK m \in Nat : m = Len(s) - 1
  BY <1>1
<1>3. \A i \in 1..m : s[i] \in S
  BY <1>1, <1>2
<1>4. Front(s) = [i \in 1..m |-> s[i]]
  BY <1>1, <1>2 DEF Front
<1> QED
  BY <1>1, <1>2, <1>3, <1>4

\* To establish the types, frame by frame.
LEMMA SearchTypes ==
    ASSUME SearchTypeOK, NEW t, NEW c \in [Nodes -> Colors],
           t \in Seq([node : Nodes, next : Nat]),
           \A i \in 1..Len(t) : t[i].next \in 1..(Len(graph[t[i].node]) + 1),
           UNCHANGED <<graph, cyclePath>>, stack' = t, color' = c
    PROVE  SearchTypeOK'
<1>1. Nodes' = Nodes
  BY DEF Nodes
<1> QED
  BY <1>1 DEF SearchTypeOK

LEMMA ReturnInv == BlastInv /\ Return => BlastInv'
<1> SUFFICES ASSUME BlastInv, Return PROVE BlastInv'
  OBVIOUS
<1> USE DEF BlastInv
<1>0. SearchTypeOK /\ stack # <<>> /\ Searching /\ AtEnd
  BY DEF Return
<1>1. PICK L, n, t, c : L = Len(stack) /\ n = Frame.node /\ t = stack' /\ c = color'
  OBVIOUS
<1>2. FramesOK
  BY Frames
<1>3. L \in Nat \ {0} /\ stack[L].node = n /\ stack[L].next = Len(graph[n]) + 1
  BY <1>0, <1>1, TopFrame
<1>4. n \in Nodes /\ Len(graph[n]) \in Nat
  BY <1>1, <1>2, <1>3 DEF FramesOK
<1>5. UNCHANGED <<graph, cyclePath>> /\ Nodes' = Nodes
  BY DEF Return, Nodes
<1>6. c \in [Nodes -> Colors] /\ c[n] = "black" /\ \A m \in Nodes : m # n => c[m] = color[m]
  <2>1. c = [color EXCEPT ![n] = "black"] /\ color \in [Nodes -> Colors]
    BY <1>1 DEF Return, SearchTypeOK
  <2> QED
    BY <1>4, <2>1 DEF Colors
<1>7. /\ t \in Seq([node : Nodes, next : Nat])
      /\ Len(t) = L - 1
      /\ \A i \in 1..(L - 1) : t[i] = stack[i]
  <2> DEFINE F == [node : Nodes, next : Nat]
  <2>1. stack \in Seq(F) /\ stack # <<>> /\ t = Front(stack)
    BY <1>1 DEF SearchTypeOK, Return
  <2> HIDE DEF F
  <2>2. t \in Seq(F) /\ Len(t) = L - 1 /\ \A i \in 1..(L - 1) : t[i] = stack[i]
    BY <1>1, <2>1, FrontIs
  <2> QED
    BY <2>2 DEF F
<1>8. Len(t) = L - 1 /\ \A i \in 1..(L - 1) : t[i] = stack[i]
  BY <1>7
<1>9. SearchTypeOK'
  <2>1. \A i \in 1..L : stack[i].next \in 1..(Len(graph[stack[i].node]) + 1)
    BY <1>0, <1>1 DEF SearchTypeOK
  <2>2. \A i \in 1..Len(t) : t[i].next \in 1..(Len(graph[t[i].node]) + 1)
    <3>1. ASSUME NEW i \in 1..Len(t) PROVE t[i].next \in 1..(Len(graph[t[i].node]) + 1)
      <4>1. i \in 1..(L - 1) /\ i \in 1..L
        BY <1>3, <1>8
      <4>2. t[i] = stack[i]
        BY <1>8, <4>1
      <4> QED
        BY <2>1, <4>1, <4>2
    <3> QED
      BY <3>1
  <2> QED
    BY <1>0, <1>1, <1>5, <1>6, <1>7, <2>2, SearchTypes
<1>10. GreyIsOnStack'
  <2>1. /\ \A m \in Nodes : color[m] = "grey" <=> \E i \in 1..L : stack[i].node = m
        /\ \A i, j \in 1..L : stack[i].node = stack[j].node => i = j
    BY <1>1 DEF GreyIsOnStack
  <2>2. ASSUME NEW m \in Nodes PROVE c[m] = "grey" <=> \E i \in 1..(L - 1) : t[i].node = m
    <3>1. CASE m = n
      BY <1>3, <1>6, <1>8, <2>1, <3>1
    <3>2. CASE m # n
      <4>1. c[m] = color[m]
        BY <1>6, <3>2
      <4>2. (\E i \in 1..L : stack[i].node = m) <=> \E i \in 1..(L - 1) : stack[i].node = m
        BY <1>3, <3>2
      <4> QED
        BY <1>8, <2>1, <4>1, <4>2
    <3> QED
      BY <3>1, <3>2
  <2>3. \A i, j \in 1..(L - 1) : t[i].node = t[j].node => i = j
    BY <1>3, <1>8, <2>1
  <2>4. stack' = t /\ color' = c /\ Nodes' = Nodes /\ Len(t) = L - 1
    BY <1>1, <1>5, <1>8
  <2> HIDE DEF BlastInv
  <2> QED
    BY <2>2, <2>3, <2>4, Zenon DEF GreyIsOnStack
<1>11. StackIsPath'
  <2>1. \A i \in 1..(L - 1) : stack[i].next >= 2 /\ graph[stack[i].node][stack[i].next - 1] = stack[i + 1].node
    BY <1>1 DEF StackIsPath
  <2>2. ASSUME NEW i \in 1..((L - 1) - 1)
        PROVE  t[i].next >= 2 /\ graph[t[i].node][t[i].next - 1] = t[i + 1].node
    <3>1. i \in 1..(L - 1) /\ i + 1 \in 1..(L - 1)
      BY <1>3
    <3>2. t[i] = stack[i] /\ t[i + 1] = stack[i + 1]
      BY <1>8, <3>1
    <3> QED
      BY <2>1, <3>1, <3>2
  <2> QED
    BY <1>1, <1>5, <1>8, <2>2 DEF StackIsPath
<1>12. PassedAreBlack'
  <2>1. ASSUME NEW i \in 1..(L - 1), NEW k \in 1..(stack[i].next - 1)
        PROVE  c[graph[stack[i].node][k]] = "black" \/ (i < L - 1 /\ k = stack[i].next - 1)
    <3>1. color[graph[stack[i].node][k]] = "black" \/ (i < L /\ k = stack[i].next - 1)
      BY <1>1, <1>3 DEF PassedAreBlack
    <3>2. graph[stack[i].node][k] \in Nodes
      <4>1. PICK a, b, l : a = stack[i].node /\ b = stack[i].next /\ l = Len(graph[a])
        OBVIOUS
      <4>2. a \in Nodes /\ b \in Nat /\ b <= l + 1 /\ l \in Nat /\ \A j \in 1..l : graph[a][j] \in Nodes
        <5>1. i \in 1..Len(stack)
          BY <1>1, <1>3
        <5>2. a \in Nodes /\ b \in Nat \ {0} /\ b <= l + 1
          BY <1>2, <4>1, <5>1 DEF FramesOK
        <5>3. l \in Nat /\ \A j \in 1..l : graph[a][j] \in Nodes
          BY <1>2, <4>1, <5>2 DEF FramesOK
        <5> QED
          BY <5>2, <5>3
      <4>3. k \in 1..l
        BY <4>1, <4>2
      <4>4. graph[a][k] \in Nodes
        BY <4>2, <4>3
      <4> QED
        BY <4>1, <4>4
    <3>3. i = L - 1 => graph[stack[i].node][stack[i].next - 1] = n
      BY <1>1, <1>3 DEF StackIsPath
    <3> QED
      BY <1>3, <1>6, <3>1, <3>2, <3>3
  <2> QED
    BY <1>1, <1>5, <1>8, <2>1 DEF PassedAreBlack
<1>13. BlackIsRanked'
  <2>1. PICK f, bound : Ranks(f, bound)
    BY DEF BlackIsRanked
  <2>2. PICK h : h = [f EXCEPT ![n] = bound]
    OBVIOUS
  <2>3. \A k \in 1..Len(graph[n]) : color[graph[n][k]] = "black"
    BY <1>1, <1>3, <1>4 DEF PassedAreBlack
  <2>4. color[n] = "grey"
    BY <1>1, <1>3, <1>4 DEF GreyIsOnStack
  <2>5. /\ f \in [Nodes -> Nat] /\ bound \in Nat
        /\ \A m \in Nodes : color[m] = "black" =>
             /\ f[m] < bound
             /\ \A k \in 1..Len(graph[m]) : color[graph[m][k]] = "black" /\ f[graph[m][k]] < f[m]
    BY <2>1 DEF Ranks
  <2>6. \A m \in Nodes : \A k \in 1..Len(graph[m]) : graph[m][k] \in Nodes
    BY <1>2 DEF FramesOK
  <2>7. h \in [Nodes -> Nat] /\ h[n] = bound /\ \A m \in Nodes : m # n => h[m] = f[m]
    BY <2>2, <2>5, <1>4
  <2>8. ASSUME NEW m \in Nodes, c[m] = "black", NEW k \in 1..Len(graph[m])
        PROVE  c[graph[m][k]] = "black" /\ h[graph[m][k]] < h[m]
    <3>1. PICK o \in Nodes : o = graph[m][k]
      BY <2>6
    <3>2. color[o] = "black" /\ o # n /\ f[o] < bound /\ (m # n => f[o] < f[m])
      BY <1>6, <2>3, <2>4, <2>5, <2>8, <3>1
    <3> QED
      BY <1>6, <2>7, <3>1, <3>2
  <2>9. \A m \in Nodes : c[m] = "black" => h[m] < bound + 1
    <3>1. ASSUME NEW m \in Nodes, c[m] = "black" PROVE h[m] < bound + 1
      <4>1. m # n => f[m] < bound /\ f[m] \in Nat
        BY <1>6, <2>5, <3>1
      <4> QED
        BY <2>5, <2>7, <4>1
    <3> QED
      BY <3>1
  <2>10. Ranks(h, bound + 1)'
    BY <1>1, <1>5, <2>5, <2>7, <2>8, <2>9 DEF Ranks
  <2> QED
    BY <2>10 DEF BlackIsRanked
<1>14. FoundIsCycle'
  BY <1>0, <1>5 DEF FoundIsCycle, Searching
<1> QED
  BY <1>9, <1>10, <1>11, <1>12, <1>13, <1>14


-----------------------------------------------------------------------------
\* The innermost frame passes its neighbour.
LEMMA PassingFrame ==
    ASSUME NEW S, NEW s \in Seq(S), s # <<>>, NEW x \in S
    PROVE  /\ Front(s) \o <<x>> \in Seq(S) /\ Len(Front(s) \o <<x>>) = Len(s)
           /\ \A i \in 1..(Len(s) - 1) : (Front(s) \o <<x>>)[i] = s[i]
           /\ (Front(s) \o <<x>>)[Len(s)] = x
<1>1. PICK a : a = Front(s)
  OBVIOUS
<1>2. a \in Seq(S) /\ Len(a) = Len(s) - 1 /\ \A i \in 1..(Len(s) - 1) : a[i] = s[i]
  BY <1>1, FrontIs
<1>3. Len(s) \in Nat \ {0}
  OBVIOUS
<1>4. PICK b : b = a \o <<x>>
  OBVIOUS
<1>5. <<x>> \in Seq(S) /\ Len(<<x>>) = 1 /\ <<x>>[1] = x
  OBVIOUS
<1>6. b \in Seq(S) /\ Len(b) = Len(s)
  BY <1>2, <1>3, <1>4, <1>5
<1>7. (\A i \in 1..(Len(s) - 1) : b[i] = a[i]) /\ b[Len(s)] = x
  BY <1>2, <1>3, <1>4, <1>5
<1> QED
  BY <1>1, <1>2, <1>4, <1>6, <1>7

\* The search as it is while Descend takes the k-th neighbour o of the node n of the L-th
\* and innermost frame; here is the stack with that neighbour passed.
Passing(L, n, k, o, here) ==
    /\ L \in Nat \ {0} /\ L = Len(stack) /\ stack[L].node = n /\ stack[L].next = k
    /\ n \in Nodes /\ o \in Nodes
    /\ k \in 1..Len(graph[n]) /\ Len(graph[n]) \in Nat /\ o = graph[n][k] /\ color[o] # "grey"
    /\ Len(here) = L
    /\ \A i \in 1..(L - 1) : here[i] = stack[i]
    /\ here[L].node = n /\ here[L].next = k + 1

LEMMA DescendPasses ==
    ASSUME SearchTypeOK, Descend
    PROVE  \E L, n, k, o, here :
              /\ Passing(L, n, k, o, here)
              /\ here \in Seq([node : Nodes, next : Nat])
              /\ IF color[o] = "white"
                 THEN color' = [color EXCEPT ![o] = "grey"] /\ stack' = Append(here, [node |-> o, next |-> 1])
                 ELSE stack' = here /\ UNCHANGED color
<1>1. stack # <<>> /\ ~AtEnd /\ color[Neighbour] # "grey"
  BY DEF Descend
<1>2. PICK L, n, k, o : L = Len(stack) /\ n = Frame.node /\ k = Frame.next /\ o = Neighbour
  OBVIOUS
<1>3. FramesOK
  BY Frames
<1>4. L \in Nat \ {0} /\ Frame = stack[L] /\ k \in 1..Len(graph[n]) /\ o \in Nodes
  BY <1>1, <1>2, TopFrame
<1>5. n \in Nodes /\ Len(graph[n]) \in Nat
  BY <1>2, <1>3, <1>4 DEF FramesOK
<1>6. o = graph[n][k]
  BY <1>2 DEF Neighbour
<1>7. PICK x : x = [Frame EXCEPT !.next = @ + 1]
  OBVIOUS
<1>8. x \in [node : Nodes, next : Nat] /\ x.node = n /\ x.next = k + 1
  <2>1. Frame \in [node : Nodes, next : Nat]
    <3> DEFINE F == [node : Nodes, next : Nat]
    <3>1. stack \in Seq(F)
      BY DEF SearchTypeOK
    <3> HIDE DEF F
    <3>2. stack[L] \in F
      BY <1>2, <1>4, <3>1
    <3> QED
      BY <1>4, <3>2 DEF F
  <2>2. k \in Nat
    BY <1>4, <1>5
  <2> QED
    BY <1>2, <1>7, <2>1, <2>2
<1>9. PICK here : here = Front(stack) \o <<x>>
  OBVIOUS
<1>10. /\ here \in Seq([node : Nodes, next : Nat]) /\ Len(here) = L
       /\ \A i \in 1..(L - 1) : here[i] = stack[i]
       /\ here[L] = x
  <2> DEFINE F == [node : Nodes, next : Nat]
  <2>1. stack \in Seq(F) /\ stack # <<>> /\ x \in F
    BY <1>1, <1>8 DEF SearchTypeOK
  <2> HIDE DEF F
  <2>2. here \in Seq(F) /\ Len(here) = L /\ (\A i \in 1..(L - 1) : here[i] = stack[i]) /\ here[L] = x
    BY <1>2, <1>9, <2>1, PassingFrame
  <2> QED
    BY <2>2 DEF F
<1>11. Passing(L, n, k, o, here)
  BY <1>1, <1>2, <1>4, <1>5, <1>6, <1>8, <1>10 DEF Passing
<1>12. IF color[o] = "white"
       THEN color' = [color EXCEPT ![o] = "grey"] /\ stack' = Append(here, [node |-> o, next |-> 1])
       ELSE stack' = here /\ UNCHANGED color
  BY <1>2, <1>7, <1>9 DEF Descend, Visit
<1> QED
  BY <1>10, <1>11, <1>12

\* The innermost frame has passed black neighbours only.
LEMMA InnermostPassed ==
    ASSUME PassedAreBlack, NEW L \in Nat \ {0}, L = Len(stack), NEW n, NEW k \in Nat,
           stack[L].node = n, stack[L].next = k, NEW j \in 1..(k - 1)
    PROVE  color[graph[n][j]] = "black"
<1>1. L \in 1..Len(stack) /\ j \in 1..(stack[L].next - 1) /\ ~(L < Len(stack))
  OBVIOUS
<1>2. color[graph[stack[L].node][j]] = "black"
  BY <1>1 DEF PassedAreBlack
<1> QED
  BY <1>2

\* A black neighbour is passed.
LEMMA PassInv ==
    ASSUME BlastInv, NEW L, NEW n, NEW k, NEW o, NEW here, Passing(L, n, k, o, here),
           here \in Seq([node : Nodes, next : Nat]), color[o] = "black", stack' = here,
           UNCHANGED <<graph, color, cyclePath>>
    PROVE  BlastInv'
<1> USE DEF BlastInv
<1>1. Nodes' = Nodes
  BY DEF Nodes
<1>2. /\ L \in Nat \ {0} /\ L = Len(stack) /\ stack[L].node = n /\ stack[L].next = k
      /\ k \in 1..Len(graph[n]) /\ Len(graph[n]) \in Nat /\ o = graph[n][k]
      /\ Len(here) = L /\ here[L].node = n /\ here[L].next = k + 1
      /\ \A i \in 1..(L - 1) : here[i] = stack[i]
  BY DEF Passing
<1>3. \A i \in 1..L : here[i].node = stack[i].node /\ (i # L => here[i] = stack[i])
  <2>1. ASSUME NEW i \in 1..L, i # L PROVE here[i] = stack[i]
    <3>1. i \in 1..(L - 1)
      BY <1>2, <2>1
    <3> QED
      BY <1>2, <3>1
  <2> QED
    BY <1>2, <2>1
<1>4. SearchTypeOK'
  <2>1. ASSUME NEW i \in 1..Len(here) PROVE here[i].next \in 1..(Len(graph[here[i].node]) + 1)
    <3>1. CASE i = L
      BY <1>2, <3>1
    <3>2. CASE i # L
      <4>1. stack[i].next \in 1..(Len(graph[stack[i].node]) + 1)
        BY <1>2 DEF SearchTypeOK
      <4> QED
        BY <1>2, <1>3, <3>2, <4>1
    <3> QED
      BY <3>1, <3>2
  <2>2. color \in [Nodes -> Colors]
    BY DEF SearchTypeOK
  <2> QED
    BY <2>1, <2>2, SearchTypes
<1>5. GreyIsOnStack'
  <2>1. ASSUME NEW m \in Nodes PROVE color[m] = "grey" <=> \E i \in 1..L : here[i].node = m
    <3>1. (\E i \in 1..L : here[i].node = m) <=> \E i \in 1..L : stack[i].node = m
      BY <1>3
    <3> QED
      BY <1>2, <3>1 DEF GreyIsOnStack
  <2>2. \A i, j \in 1..L : here[i].node = here[j].node => i = j
    BY <1>2, <1>3 DEF GreyIsOnStack
  <2> QED
    BY <1>1, <1>2, <2>1, <2>2 DEF GreyIsOnStack
<1>6. StackIsPath'
  <2>1. ASSUME NEW i \in 1..(L - 1)
        PROVE  here[i].next >= 2 /\ graph[here[i].node][here[i].next - 1] = here[i + 1].node
    <3>1. stack[i].next >= 2 /\ graph[stack[i].node][stack[i].next - 1] = stack[i + 1].node
      BY <1>2 DEF StackIsPath
    <3>2. i + 1 \in 1..L
      BY <1>2
    <3> QED
      BY <1>2, <1>3, <3>1, <3>2
  <2> QED
    BY <1>2, <2>1 DEF StackIsPath
<1>7. PassedAreBlack'
  <2>1. ASSUME NEW i \in 1..L, NEW j \in 1..(here[i].next - 1)
        PROVE  color[graph[here[i].node][j]] = "black" \/ (i < L /\ j = here[i].next - 1)
    <3>1. CASE i = L /\ j = k
      BY <1>2, <3>1
    <3>2. CASE i = L /\ j # k
      <4>1. j \in 1..(k - 1) /\ k \in Nat
        BY <1>2, <3>2
      <4>2. PassedAreBlack /\ L \in Nat \ {0} /\ L = Len(stack) /\ stack[L].node = n /\ stack[L].next = k
        BY <1>2
      <4>3. color[graph[n][j]] = "black"
        BY <4>1, <4>2, InnermostPassed
      <4>4. here[i].node = n
        BY <1>2, <3>2
      <4> QED
        BY <4>3, <4>4
    <3>3. CASE i # L
      <4>1. here[i] = stack[i] /\ i \in 1..Len(stack) /\ i < L
        BY <1>2, <1>3, <3>3
      <4> QED
        BY <1>2, <4>1 DEF PassedAreBlack
    <3> QED
      BY <3>1, <3>2, <3>3
  <2> QED
    BY <1>2, <2>1 DEF PassedAreBlack
<1>8. BlackIsRanked'
  <2>1. PICK f, bound : Ranks(f, bound)
    BY DEF BlackIsRanked
  <2>2. Ranks(f, bound)'
    BY <1>1, <2>1 DEF Ranks
  <2> QED
    BY <2>2 DEF BlackIsRanked
<1>9. FoundIsCycle'
  BY DEF FoundIsCycle, Searching
<1> QED
  BY <1>4, <1>5, <1>6, <1>7, <1>8, <1>9

\* A white neighbour is visited.
LEMMA VisitInv ==
    ASSUME BlastInv, NEW L, NEW n, NEW k, NEW o, NEW here, Passing(L, n, k, o, here),
           here \in Seq([node : Nodes, next : Nat]), color[o] = "white",
           color' = [color EXCEPT ![o] = "grey"], stack' = Append(here, [node |-> o, next |-> 1]),
           Searching, UNCHANGED <<graph, cyclePath>>
    PROVE  BlastInv'
<1> USE DEF BlastInv
<1>1. Nodes' = Nodes
  BY DEF Nodes
<1>2. /\ L \in Nat \ {0} /\ L = Len(stack) /\ stack[L].node = n /\ stack[L].next = k
      /\ k \in 1..Len(graph[n]) /\ Len(graph[n]) \in Nat /\ o = graph[n][k] /\ o \in Nodes
      /\ Len(here) = L /\ here[L].node = n /\ here[L].next = k + 1
      /\ \A i \in 1..(L - 1) : here[i] = stack[i]
  BY DEF Passing
<1>3. PICK t, c : t = stack' /\ c = color'
  OBVIOUS
<1>4. /\ t \in Seq([node : Nodes, next : Nat]) /\ Len(t) = L + 1
      /\ t[L + 1].node = o /\ t[L + 1].next = 1
      /\ t[L] = here[L]
      /\ \A i \in 1..(L - 1) : t[i] = here[i]
  <2> DEFINE F == [node : Nodes, next : Nat]
  <2>1. PICK x : x = [node |-> o, next |-> 1]
    OBVIOUS
  <2>2. x \in F /\ x.node = o /\ x.next = 1 /\ here \in Seq(F) /\ t = Append(here, x)
    BY <1>2, <1>3, <2>1
  <2> HIDE DEF F
  <2>3. t \in Seq(F) /\ Len(t) = L + 1 /\ t[L + 1] = x /\ \A i \in 1..L : t[i] = here[i]
    BY <1>2, <2>2
  <2> QED
    BY <1>2, <2>2, <2>3 DEF F
<1>5. /\ Len(t) = L + 1 /\ t[L + 1].node = o /\ t[L + 1].next = 1
      /\ \A i \in 1..L : t[i].node = stack[i].node /\ (i # L => t[i] = stack[i])
      /\ t[L].node = n /\ t[L].next = k + 1
  <2>1. ASSUME NEW i \in 1..L, i # L PROVE t[i] = stack[i]
    <3>1. i \in 1..(L - 1)
      BY <1>2, <2>1
    <3> QED
      BY <1>2, <1>4, <3>1
  <2> QED
    BY <1>2, <1>4, <2>1
<1>6. c \in [Nodes -> Colors] /\ c[o] = "grey" /\ \A m \in Nodes : m # o => c[m] = color[m]
  <2>1. c = [color EXCEPT ![o] = "grey"] /\ color \in [Nodes -> Colors]
    BY <1>3 DEF SearchTypeOK
  <2> QED
    BY <1>2, <2>1 DEF Colors
<1>7. \A m \in Nodes : c[m] = "black" <=> color[m] = "black"
  BY <1>6
<1>8. FramesOK
  BY Frames
<1>9. SearchTypeOK'
  <2>1. ASSUME NEW i \in 1..Len(t) PROVE t[i].next \in 1..(Len(graph[t[i].node]) + 1)
    <3>1. CASE i = L + 1
      <4>1. Len(graph[o]) \in Nat
        BY <1>2, <1>8 DEF FramesOK
      <4> QED
        BY <1>5, <3>1, <4>1
    <3>2. CASE i = L
      BY <1>2, <1>5, <3>2
    <3>3. CASE i # L /\ i # L + 1
      <4>1. i \in 1..L
        BY <1>2, <1>5, <3>3
      <4>2. stack[i].next \in 1..(Len(graph[stack[i].node]) + 1)
        BY <1>2, <4>1 DEF SearchTypeOK
      <4> QED
        BY <1>5, <3>3, <4>1, <4>2
    <3> QED
      BY <3>1, <3>2, <3>3
  <2> QED
    BY <1>3, <1>4, <1>6, <2>1, SearchTypes
<1>10. GreyIsOnStack'
  <2>1. /\ \A m \in Nodes : color[m] = "grey" <=> \E i \in 1..L : stack[i].node = m
        /\ \A i, j \in 1..L : stack[i].node = stack[j].node => i = j
    BY <1>2 DEF GreyIsOnStack
  <2>2. \A i \in 1..(L + 1) : i \in 1..L \/ i = L + 1
    BY <1>2
  <2>3. \A i \in 1..L : i \in 1..(L + 1) /\ L + 1 \in 1..(L + 1)
    BY <1>2
  <2>4. \A i \in 1..L : stack[i].node # o
    BY <1>2, <2>1
  <2>5. \A m \in Nodes : c[m] = "grey" <=> \E i \in 1..(L + 1) : t[i].node = m
    <3>1. ASSUME NEW m \in Nodes PROVE c[m] = "grey" <=> \E i \in 1..(L + 1) : t[i].node = m
      <4>1. L \in 1..L
        BY <1>2
      <4>2. CASE m = o
        BY <1>5, <1>6, <2>3, <4>1, <4>2
      <4>3. CASE m # o
        <5>1. (\E i \in 1..(L + 1) : t[i].node = m) <=> \E i \in 1..L : stack[i].node = m
          BY <1>5, <2>2, <2>3, <4>3
        <5>2. c[m] = color[m]
          BY <1>6, <4>3
        <5> QED
          BY <2>1, <5>1, <5>2
      <4> QED
        BY <4>2, <4>3
    <3> QED
      BY <3>1
  <2>6. \A i, j \in 1..(L + 1) : t[i].node = t[j].node => i = j
    <3>1. ASSUME NEW i \in 1..(L + 1), NEW j \in 1..(L + 1), t[i].node = t[j].node PROVE i = j
      <4>1. CASE i \in 1..L /\ j \in 1..L
        BY <1>5, <2>1, <3>1, <4>1
      <4>2. CASE i = L + 1 \/ j = L + 1
        BY <1>5, <2>2, <2>4, <3>1, <4>2
      <4> QED
        BY <2>2, <4>1, <4>2
    <3> QED
      BY <3>1
  <2> QED
    BY <1>1, <1>3, <1>5, <2>5, <2>6 DEF GreyIsOnStack
<1>11. StackIsPath'
  <2>1. ASSUME NEW i \in 1..L
        PROVE  t[i].next >= 2 /\ graph[t[i].node][t[i].next - 1] = t[i + 1].node
    <3>1. CASE i = L
      BY <1>2, <1>5, <3>1
    <3>2. CASE i # L
      <4>1. i \in 1..(L - 1) /\ i + 1 \in 1..L
        BY <1>2, <3>2
      <4>2. stack[i].next >= 2 /\ graph[stack[i].node][stack[i].next - 1] = stack[i + 1].node
        BY <1>2, <4>1 DEF StackIsPath
      <4> QED
        BY <1>5, <3>2, <4>1, <4>2
    <3> QED
      BY <3>1, <3>2
  <2>2. Len(t) - 1 = L
    BY <1>2, <1>5
  <2> QED
    BY <1>3, <2>1, <2>2 DEF StackIsPath
<1>12. PassedAreBlack'
  <2>1. ASSUME NEW i \in 1..(L + 1), NEW j \in 1..(t[i].next - 1)
        PROVE  c[graph[t[i].node][j]] = "black" \/ (i < L + 1 /\ j = t[i].next - 1)
    <3>1. CASE i = L + 1
      BY <1>5, <3>1
    <3>2. CASE i = L /\ j = k
      BY <1>2, <1>5, <3>2
    <3>3. CASE i = L /\ j # k
      <4>1. k \in Nat /\ j \in 1..(k - 1) /\ j \in 1..Len(graph[n])
        BY <1>2, <1>5, <3>3
      <4>2. color[graph[n][j]] = "black"
        BY <1>2, <4>1, InnermostPassed
      <4>3. n \in Nodes
        BY DEF Passing
      <4>4. graph[n][j] \in Nodes
        BY <1>8, <4>1, <4>3 DEF FramesOK
      <4> QED
        BY <1>5, <1>7, <3>3, <4>2, <4>4
    <3>4. CASE i # L /\ i # L + 1
      <4>1. i \in 1..L /\ i \in 1..Len(stack) /\ t[i] = stack[i]
        BY <1>2, <1>5, <3>4
      <4>2. color[graph[stack[i].node][j]] = "black" \/ (i < L /\ j = stack[i].next - 1)
        BY <1>2, <4>1 DEF PassedAreBlack
      <4>3. graph[stack[i].node][j] \in Nodes
        <5>1. PICK a, b, l : a = stack[i].node /\ b = stack[i].next /\ l = Len(graph[a])
          OBVIOUS
        <5>2. a \in Nodes /\ b \in Nat /\ b <= l + 1 /\ l \in Nat /\ \A q \in 1..l : graph[a][q] \in Nodes
          BY <1>8, <4>1, <5>1 DEF FramesOK
        <5>3. j \in 1..(b - 1)
          BY <4>1, <5>1
        <5>4. j \in 1..l
          BY <5>2, <5>3
        <5>5. graph[a][j] \in Nodes
          BY <5>2, <5>4
        <5> QED
          BY <5>1, <5>5
      <4> QED
        BY <1>2, <1>7, <4>1, <4>2, <4>3
    <3> QED
      BY <3>1, <3>2, <3>3, <3>4
  <2> QED
    BY <1>3, <1>5, <2>1 DEF PassedAreBlack
<1>13. BlackIsRanked'
  <2>1. PICK f, bound : Ranks(f, bound)
    BY DEF BlackIsRanked
  <2>2. \A m \in Nodes : \A j \in 1..Len(graph[m]) : graph[m][j] \in Nodes
    BY <1>8 DEF FramesOK
  <2>3. Ranks(f, bound)'
    BY <1>1, <1>3, <1>7, <2>1, <2>2 DEF Ranks
  <2> QED
    BY <2>3 DEF BlackIsRanked
<1>14. FoundIsCycle'
  BY DEF FoundIsCycle, Searching
<1> QED
  BY <1>9, <1>10, <1>11, <1>12, <1>13, <1>14

LEMMA DescendInv == BlastInv /\ Descend => BlastInv'
<1> SUFFICES ASSUME BlastInv, Descend PROVE BlastInv'
  OBVIOUS
<1>1. SearchTypeOK
  BY DEF BlastInv
<1>2. PICK L, n, k, o, here :
         /\ Passing(L, n, k, o, here)
         /\ here \in Seq([node : Nodes, next : Nat])
         /\ IF color[o] = "white"
            THEN color' = [color EXCEPT ![o] = "grey"] /\ stack' = Append(here, [node |-> o, next |-> 1])
            ELSE stack' = here /\ UNCHANGED color
  BY <1>1, DescendPasses
<1>3. Searching /\ UNCHANGED <<graph, cyclePath>>
  BY DEF Descend
<1>4. color[o] \in {"white", "black"}
  BY <1>1, <1>2 DEF Passing, SearchTypeOK, Colors
<1>5. CASE color[o] = "white"
  BY <1>2, <1>3, <1>5, VisitInv
<1>6. CASE color[o] = "black"
  <2>1. stack' = here /\ UNCHANGED color
    BY <1>2, <1>6
  <2> QED
    BY <1>2, <1>3, <1>6, <2>1, PassInv
<1> QED
  BY <1>4, <1>5, <1>6


-----------------------------------------------------------------------------
\* The stack is no higher than there are nodes.
LEMMA StackIsBounded ==
    ASSUME SearchTypeOK, GreyIsOnStack
    PROVE  Cardinality(Nodes) \in Nat /\ Len(stack) <= Cardinality(Nodes)
<1>1. FramesOK /\ IsFiniteSet(Nodes)
  BY Frames DEF SearchTypeOK, IsGraph, Nodes
<1>2. PICK L \in Nat : L = Len(stack)
  BY <1>1 DEF FramesOK
<1>3. IsFiniteSet(1..L) /\ Cardinality(1..L) = L
  <2>1. 1 \in Int /\ L \in Int /\ (1 > L => L = 0)
    OBVIOUS
  <2>2. IsFiniteSet(1..L) /\ Cardinality(1..L) = IF 1 > L THEN 0 ELSE L - 1 + 1
    BY <2>1, FS_Interval
  <2> QED
    BY <2>2
<1>4. PICK f : f = [i \in 1..L |-> stack[i].node]
  OBVIOUS
<1>5. f \in Injection(1..L, Nodes)
  <2>1. f \in [1..L -> Nodes]
    BY <1>1, <1>2, <1>4 DEF FramesOK
  <2>2. \A i, j \in 1..L : f[i] = f[j] => i = j
    BY <1>2, <1>4 DEF GreyIsOnStack
  <2> QED
    BY <2>1, <2>2 DEF Injection, IsInjective
<1>6. Cardinality(1..L) <= Cardinality(Nodes)
  BY <1>1, <1>3, <1>5, FS_Injection DEF ExistsInjection
<1> QED
  BY <1>1, <1>2, <1>3, <1>6, FS_CardinalityType

LEMMA BackEdgeInv == BlastInv /\ BackEdge => BlastInv'
<1> SUFFICES ASSUME BlastInv, BackEdge PROVE BlastInv'
  OBVIOUS
<1> USE DEF BlastInv
<1>0. SearchTypeOK /\ stack # <<>> /\ ~AtEnd /\ color[Neighbour] = "grey"
  BY DEF BackEdge
<1>1. PICK L, n, k, o : L = Len(stack) /\ n = Frame.node /\ k = Frame.next /\ o = Neighbour
  OBVIOUS
<1>2. FramesOK
  BY Frames
<1>3. L \in Nat \ {0} /\ stack[L].node = n /\ k \in 1..Len(graph[n]) /\ o \in Nodes
  BY <1>0, <1>1, TopFrame
<1>4. n \in Nodes /\ Len(graph[n]) \in Nat
  BY <1>1, <1>2, <1>3 DEF FramesOK
<1>5. o = graph[n][k]
  BY <1>1 DEF Neighbour
<1>6. UNCHANGED <<graph, color, stack>> /\ Nodes' = Nodes /\ cyclePath' = <<n, o>>
  BY <1>1 DEF BackEdge, Nodes
<1>7. \A m \in Nodes : \A j \in 1..Len(graph[m]) : graph[m][j] \in ToSet(graph[m])
  <2>1. \A m \in Nodes : graph[m] \in Seq(Nodes)
    BY DEF SearchTypeOK, IsGraph, Nodes
  <2> QED
    BY <2>1, ElementAt
<1>8. PICK b \in 1..L : stack[b].node = o
  BY <1>0, <1>1, <1>3 DEF GreyIsOnStack
<1>9. PICK l \in Nat \ {0} : l = L - b + 1
  BY <1>3, <1>8
<1>10. l \in 1..Cardinality(Nodes)
  BY <1>1, <1>3, <1>8, <1>9, StackIsBounded
<1>11. PICK p : p = [i \in 0..l |-> IF i = l THEN o ELSE stack[b + i].node]
  OBVIOUS
<1>12. ASSUME NEW i \in 0..(l - 1)
       PROVE  b + i \in 1..L /\ p[i] = stack[b + i].node /\ p[i] \in Nodes
  <2>1. b + i \in 1..L /\ i \in 0..l /\ i # l
    BY <1>3, <1>8, <1>9
  <2> QED
    BY <1>1, <1>2, <1>11, <2>1 DEF FramesOK
<1>13. p \in [0..l -> Nodes] /\ p[0] = o /\ p[l] = o
  <2>1. 0 \in 0..(l - 1) /\ l \in 0..l /\ b + 0 = b
    BY <1>8, <1>9
  <2>2. p[l] = o
    BY <1>11, <2>1
  <2>3. p[0] = o
    BY <1>8, <1>12, <2>1
  <2>4. \A i \in 0..l : i = l \/ i \in 0..(l - 1)
    BY <1>9
  <2>5. \A i \in 0..l : p[i] \in Nodes
    BY <1>3, <1>12, <2>2, <2>4
  <2> QED
    BY <1>11, <2>2, <2>3, <2>5
<1>14. ASSUME NEW i \in 1..l PROVE p[i] \in ToSet(graph[p[i - 1]])
  <2>1. i - 1 \in 0..(l - 1)
    BY <1>9
  <2>2. b + (i - 1) \in 1..L /\ p[i - 1] = stack[b + (i - 1)].node
    BY <1>12, <2>1
  <2>3. CASE i = l
    <3>1. b + (i - 1) = L
      BY <1>3, <1>8, <1>9, <2>3
    <3>2. p[i - 1] = n /\ p[i] = graph[n][k]
      BY <1>3, <1>5, <1>13, <2>2, <2>3, <3>1
    <3> QED
      BY <1>3, <1>4, <1>7, <3>2
  <2>4. CASE i # l
    <3>1. PICK a : a = b + (i - 1)
      OBVIOUS
    <3>2. a \in 1..(L - 1) /\ a + 1 = b + i /\ i \in 0..(l - 1)
      BY <1>3, <1>8, <1>9, <2>4, <3>1
    <3>3. stack[a].next >= 2 /\ graph[stack[a].node][stack[a].next - 1] = stack[a + 1].node
      BY <1>1, <3>2 DEF StackIsPath
    <3>4. PICK m, q, len : m = stack[a].node /\ q = stack[a].next /\ len = Len(graph[m])
      OBVIOUS
    <3>5. m \in Nodes /\ q \in Nat /\ q <= len + 1 /\ len \in Nat
      BY <1>1, <1>2, <1>3, <3>2, <3>4 DEF FramesOK
    <3>6. q - 1 \in 1..Len(graph[m])
      BY <3>3, <3>4, <3>5
    <3>7. p[i - 1] = m /\ p[i] = stack[a + 1].node
      BY <1>12, <2>2, <3>1, <3>2, <3>4
    <3> QED
      BY <1>7, <3>3, <3>4, <3>5, <3>6, <3>7
  <2> QED
    BY <2>3, <2>4
<1>15. Cyclic(graph)
  <2>1. Path(graph, p, l) /\ p[l] = p[0]
    BY <1>13, <1>14 DEF Path
  <2> QED
    BY <1>10, <1>13, <2>1 DEF Cyclic, Nodes
<1>16. FoundIsCycle'
  <2>1. o \in ToSet(graph[n])
    BY <1>3, <1>4, <1>5, <1>7
  <2> QED
    BY <1>6, <1>15, <2>1 DEF FoundIsCycle
<1>17. SearchTypeOK'
  BY <1>3, <1>4, <1>6 DEF SearchTypeOK
<1>18. GreyIsOnStack' /\ StackIsPath' /\ PassedAreBlack'
  BY <1>6 DEF GreyIsOnStack, StackIsPath, PassedAreBlack
<1>19. BlackIsRanked'
  <2>1. PICK f, bound : Ranks(f, bound)
    BY DEF BlackIsRanked
  <2>2. Ranks(f, bound)'
    BY <1>6, <2>1 DEF Ranks
  <2> QED
    BY <2>2 DEF BlackIsRanked
<1> QED
  BY <1>16, <1>17, <1>18, <1>19

LEMMA BlastInductive == BlastInv /\ [BlastStep]_blastVars => BlastInv'
<1> SUFFICES ASSUME BlastInv, [BlastStep]_blastVars PROVE BlastInv'
  OBVIOUS
<1>1. CASE UNCHANGED blastVars
  <2>1. UNCHANGED <<graph, color, stack, cyclePath>> /\ Nodes' = Nodes
    BY <1>1 DEF blastVars, Nodes
  <2>2. SearchTypeOK'
    BY <2>1 DEF BlastInv, SearchTypeOK
  <2>3. GreyIsOnStack' /\ StackIsPath' /\ PassedAreBlack'
    BY <2>1 DEF BlastInv, GreyIsOnStack, StackIsPath, PassedAreBlack
  <2>4. BlackIsRanked'
    <3>1. PICK f, bound : Ranks(f, bound)
      BY DEF BlastInv, BlackIsRanked
    <3>2. Ranks(f, bound)'
      BY <2>1, <3>1 DEF Ranks
    <3> QED
      BY <3>2 DEF BlackIsRanked
  <2>5. FoundIsCycle'
    BY <2>1 DEF BlastInv, FoundIsCycle, Searching
  <2> QED
    BY <2>2, <2>3, <2>4, <2>5 DEF BlastInv
<1> QED
  BY <1>1, PickRootInv, ReturnInv, BackEdgeInv, DescendInv DEF BlastStep

-----------------------------------------------------------------------------
\* Whatever the graph and the order in which the map is ranged over, a cycle is reported
\* exactly when the graph has one, and what is reported is an edge.
THEOREM SearchFindsCycles ==
    ASSUME NEW CONSTANT g, IsGraph(g)
    PROVE  BlastSpec(g) => []CyclesAreFound
<1>1. BlastInit(g) => BlastInv
  BY BlastInitInv
<1>2. BlastInv /\ [BlastStep]_blastVars => BlastInv'
  BY BlastInductive
<1> QED
  BY <1>1, <1>2, SearchIsExact, PTL DEF BlastSpec

\* The graph of a policy is one: its only edges leave the service.
LEMMA PolicyGraph ==
    ASSUME NEW S, NEW service \in S, NEW d \in Seq(S), NEW c \in Seq(S)
    PROVE  IsGraph(BlastGraph(service, d, c))
<1>1. PICK all : all = d \o c
  OBVIOUS
<1>2. all \in Seq(S)
  BY <1>1
<1>3. PICK V : V = {service} \cup ToSet(all)
  OBVIOUS
<1>4. BlastGraph(service, d, c) = [n \in V |-> IF n = service THEN all ELSE <<>>]
  BY <1>1, <1>3 DEF BlastGraph
<1>5. IsFiniteSet(V)
  <2>1. IsFiniteSet(1..Len(all))
    BY <1>2, FS_Interval
  <2>2. IsFiniteSet(ToSet(all))
    <3>1. PICK f : f = [i \in 1..Len(all) |-> all[i]]
      OBVIOUS
    <3>2. /\ f \in [1..Len(all) -> ToSet(all)]
          /\ \A x \in ToSet(all) : \E i \in 1..Len(all) : f[i] = x
      BY <1>2, <3>1, ElementAt
    <3>3. f \in Surjection(1..Len(all), ToSet(all))
      BY <3>2, Zenon DEF Surjection
    <3> QED
      BY <2>1, <3>3, FS_Surjection DEF ExistsSurjection
  <2> QED
    BY <1>3, <2>2, FS_Singleton, FS_Union
<1>6. all \in Seq(V)
  <2>1. \A i \in 1..Len(all) : all[i] \in V
    BY <1>2, <1>3, ElementAt
  <2> QED
    BY <1>2, <2>1
<1>7. [n \in V |-> IF n = service THEN all ELSE <<>>] \in [V -> Seq(V)]
  BY <1>6
<1> QED
  BY <1>4, <1>5, <1>7 DEF IsGraph

-----------------------------------------------------------------------------
USE InfinityAssumption DEF InfinityAssumption

-----------------------------------------------------------------------------
\* A bound that is there is a value.
LEMMA BoundIsValue == ASSUME NEW b \in Optional, b # {} PROVE The(b) \in Values /\ b = {The(b)}
<1>1. PICK v \in Values : b = {v}
  BY DEF Optional, Thresholds
<1>2. The(b) \in b
  BY <1>1 DEF The
<1> QED
  BY <1>1, <1>2

\* The cases of IntervalOf.
LEMMA LowerEnd ==
    ASSUME NEW c
    PROVE  LET iv == IntervalOf(c) IN
           /\ c.eq # {} => iv.lo = The(c.eq) /\ iv.loIncl
           /\ c.eq = {} /\ c.gte # {} => iv.lo = The(c.gte) /\ iv.loIncl
           /\ c.eq = {} /\ c.gte = {} /\ c.gt # {} => iv.lo = The(c.gt) /\ ~iv.loIncl
           /\ c.eq = {} /\ c.gte = {} /\ c.gt = {} => iv.lo = 0 - Infinity /\ ~iv.loIncl
<1>1. CASE c.eq # {}
  BY <1>1 DEF IntervalOf
<1>2. CASE c.eq = {} /\ c.gte # {}
  BY <1>2 DEF IntervalOf
<1>3. CASE c.eq = {} /\ c.gte = {} /\ c.gt # {}
  BY <1>3 DEF IntervalOf
<1>4. CASE c.eq = {} /\ c.gte = {} /\ c.gt = {}
  BY <1>4 DEF IntervalOf
<1> QED
  BY <1>1, <1>2, <1>3, <1>4

LEMMA UpperEnd ==
    ASSUME NEW c
    PROVE  LET iv == IntervalOf(c) IN
           /\ c.eq # {} => iv.hi = The(c.eq) /\ iv.hiIncl
           /\ c.eq = {} /\ c.lte # {} => iv.hi = The(c.lte) /\ iv.hiIncl
           /\ c.eq = {} /\ c.lte = {} /\ c.lt # {} => iv.hi = The(c.lt) /\ ~iv.hiIncl
           /\ c.eq = {} /\ c.lte = {} /\ c.lt = {} => iv.hi = Infinity /\ ~iv.hiIncl
<1>1. CASE c.eq # {}
  BY <1>1 DEF IntervalOf
<1>2. CASE c.eq = {} /\ c.lte # {}
  BY <1>2 DEF IntervalOf
<1>3. CASE c.eq = {} /\ c.lte = {} /\ c.lt # {}
  BY <1>3 DEF IntervalOf
<1>4. CASE c.eq = {} /\ c.lte = {} /\ c.lt = {}
  BY <1>4 DEF IntervalOf
<1> QED
  BY <1>1, <1>2, <1>3, <1>4

LEMMA Fields ==
    ASSUME NEW c \in Comparator
    PROVE  /\ c.lt \in Optional /\ c.lte \in Optional /\ c.gt \in Optional
           /\ c.gte \in Optional /\ c.eq \in Optional
BY DEF Comparator

\* Every comparator becomes an interval.
LEMMA IntervalType == ASSUME NEW c \in Comparator PROVE IntervalOf(c) \in Interval
<1> DEFINE iv == IntervalOf(c)
<1>1. \A v \in Values : v \in Bounds
  BY DEF Values, Bounds
<1>2. Infinity \in Bounds /\ 0 - Infinity \in Bounds
  BY DEF Bounds
<1>3. iv.lo \in Bounds
  BY <1>1, <1>2, Fields, BoundIsValue, LowerEnd
<1>4. iv.hi \in Bounds
  BY <1>1, <1>2, Fields, BoundIsValue, UpperEnd
<1>5. iv = [lo |-> iv.lo, hi |-> iv.hi, loIncl |-> iv.loIncl, hiIncl |-> iv.hiIncl]
  BY DEF IntervalOf
<1>6. iv.loIncl \in BOOLEAN /\ iv.hiIncl \in BOOLEAN
  BY DEF IntervalOf
<1> QED
  BY <1>3, <1>4, <1>5, <1>6 DEF Interval

\* The compiler's reading of a comparator covers what the engine accepts.
LEMMA SatisfiedIsWithin ==
    ASSUME NEW c \in Comparator, NEW v \in Values, Satisfies(v, c)
    PROVE  Within(IntervalOf(c), v)
<1> DEFINE iv == IntervalOf(c)
<1>1. 0 - Infinity < v /\ v < Infinity /\ v \in Int
  BY DEF Values
<1>2. /\ c.eq  # {} => v = The(c.eq)
      /\ c.lt  # {} => v < The(c.lt)
      /\ c.lte # {} => v <= The(c.lte)
      /\ c.gt  # {} => v > The(c.gt)
      /\ c.gte # {} => v >= The(c.gte)
  BY Fields, BoundIsValue DEF Satisfies
<1>3. \A b \in Optional : b # {} => The(b) \in Int
  BY BoundIsValue DEF Values
<1>4. iv.lo < v \/ (iv.loIncl /\ iv.lo = v)
  BY <1>1, <1>2, <1>3, Fields, LowerEnd
<1>5. v < iv.hi \/ (iv.hiIncl /\ v = iv.hi)
  BY <1>1, <1>2, <1>3, Fields, UpperEnd
<1> QED
  BY <1>4, <1>5 DEF Within

\* With one bound a side the two readings agree.
LEMMA WithinIsSatisfied ==
    ASSUME NEW c \in Comparator, NEW v \in Values, Plain(c), Within(IntervalOf(c), v)
    PROVE  Satisfies(v, c)
<1> DEFINE iv == IntervalOf(c)
<1>1. v \in Int
  BY DEF Values
<1>2. \A b \in Optional : b # {} => The(b) \in Int /\ b = {The(b)}
  BY BoundIsValue DEF Values
<1>3. /\ c.eq # {} => c.lt = {} /\ c.lte = {} /\ c.gt = {} /\ c.gte = {}
      /\ c.lt = {} \/ c.lte = {}
      /\ c.gt = {} \/ c.gte = {}
  BY DEF Plain
<1>4. /\ iv.lo < v \/ (iv.loIncl /\ iv.lo = v)
      /\ v < iv.hi \/ (iv.hiIncl /\ v = iv.hi)
  BY DEF Within
<1>5. /\ c.eq # {} => v = The(c.eq)
      /\ c.lt # {} => v < The(c.lt)
      /\ c.lte # {} => v <= The(c.lte)
  BY <1>1, <1>2, <1>3, <1>4, Fields, LowerEnd, UpperEnd
<1>6. /\ c.gt # {} => v > The(c.gt)
      /\ c.gte # {} => v >= The(c.gte)
  BY <1>1, <1>2, <1>3, <1>4, Fields, LowerEnd
<1> QED
  BY <1>2, <1>5, <1>6, Fields DEF Satisfies

-----------------------------------------------------------------------------
\* The inductive invariant.  At(k) is the interval at a position of the sorted
\* ladder.
At(k) == IntervalAt(order[k])

BelowCursor(v) == v < cursor.at \/ (cursor.incl /\ v = cursor.at)

\* While nothing is reported, the intervals handled cover all from the lowest
\* bound up to the cursor.
CoverInv ==
    gaps = {} => \A v \in Values : At(1).lo < v /\ BelowCursor(v) =>
        \E k \in DOMAIN ladder : k < next /\ Within(At(k), v)

\* The cursor is at or above every interval handled.
UpperInv == \A k \in DOMAIN ladder : k < next => At(k).hi <= cursor.at

\* No interval, handled or not, reaches into a gap.
GapInv ==
    \A g \in gaps : \A v \in Values : g.lo < v /\ v < g.hi =>
        \A k \in DOMAIN ladder : ~Within(At(k), v)

\* A scan that ends without a gap ends at the top.
TopInv == Scanned /\ gaps = {} => cursor.at = Infinity

ScanInv == ScanTypeOK /\ CoverInv /\ UpperInv /\ GapInv /\ TopInv

-----------------------------------------------------------------------------
LEMMA LadderType ==
    ASSUME ScanTypeOK
    PROVE  /\ Len(ladder) \in Nat /\ Len(ladder) >= 2 /\ DOMAIN ladder = 1..Len(ladder)
           /\ \A i \in DOMAIN ladder : ladder[i] \in Comparator
BY DEF ScanTypeOK, Scannable

LEMMA AtType ==
    ASSUME ScanTypeOK, NEW k \in DOMAIN ladder
    PROVE  order[k] \in DOMAIN ladder /\ At(k) \in Interval
<1>1. order[k] \in DOMAIN ladder
  BY DEF ScanTypeOK, StablySorts
<1> QED
  BY <1>1, LadderType, IntervalType DEF At, IntervalAt

LEMMA AtSorted ==
    ASSUME ScanTypeOK, NEW j \in DOMAIN ladder, NEW k \in DOMAIN ladder, j <= k
    PROVE  At(j).lo <= At(k).lo
<1>1. At(j).lo \in Int /\ At(k).lo \in Int
  BY AtType DEF Interval, Bounds
<1>2. CASE j = k
  BY <1>1, <1>2
<1>3. CASE j < k
  <2>1. At(j).lo < At(k).lo \/ At(j).lo = At(k).lo
    BY <1>3 DEF ScanTypeOK, StablySorts, At, IntervalAt
  <2> QED
    BY <1>1, <2>1
<1> QED
  BY <1>2, <1>3, LadderType

LEMMA CursorType ==
    ASSUME ScanTypeOK
    PROVE  cursor.at \in Bounds /\ cursor.incl \in BOOLEAN /\ cursor.at \in Int
BY DEF ScanTypeOK, Bounds

\* What one iteration does to the cursor and the gaps.
LEMMA AdvanceFacts ==
    ASSUME ScanTypeOK, NEW iv \in Interval
    PROVE  /\ Advance(iv) \in [at : Bounds, incl : BOOLEAN]
           /\ cursor.at <= Advance(iv).at
           /\ iv.hi <= Advance(iv).at
           /\ Advance(iv) = cursor \/ Advance(iv) = UpTo(iv)
<1>1. iv.hi \in Bounds /\ iv.hi \in Int /\ iv.hiIncl \in BOOLEAN
  BY DEF Interval, Bounds
<1>2. CASE iv.hi > cursor.at \/ (iv.hi = cursor.at /\ iv.hiIncl)
  <2>1. Advance(iv) = UpTo(iv)
    BY <1>2 DEF Advance
  <2> QED
    BY <1>1, <1>2, <2>1, CursorType DEF UpTo
<1>3. CASE ~(iv.hi > cursor.at \/ (iv.hi = cursor.at /\ iv.hiIncl))
  <2>1. Advance(iv) = cursor
    BY <1>3 DEF Advance
  <2> QED
    BY <1>1, <1>3, <2>1, CursorType DEF ScanTypeOK
<1> QED
  BY <1>2, <1>3

LEMMA GapsBeforeFacts ==
    ASSUME ScanTypeOK, NEW iv \in Interval
    PROVE  /\ GapsBefore(iv) \subseteq Interval
           /\ \A g \in GapsBefore(iv) : g.lo = cursor.at /\ (g.hi = iv.lo \/ g.hi = cursor.at)
           /\ GapsBefore(iv) = {} =>
                /\ iv.lo <= cursor.at
                /\ iv.lo = cursor.at => cursor.incl \/ iv.loIncl
<1>1. iv.lo \in Bounds /\ iv.lo \in Int /\ iv.loIncl \in BOOLEAN
  BY DEF Interval, Bounds
<1>2. CASE iv.lo > cursor.at
  <2> DEFINE g == [lo |-> cursor.at, loIncl |-> ~cursor.incl, hi |-> iv.lo, hiIncl |-> ~iv.loIncl]
  <2>1. GapsBefore(iv) = {g}
    BY <1>2 DEF GapsBefore
  <2>2. g.lo = cursor.at /\ g.hi = iv.lo
    OBVIOUS
  <2>3. (~cursor.incl) \in BOOLEAN /\ (~iv.loIncl) \in BOOLEAN
    OBVIOUS
  <2>4. g \in Interval
    BY <1>1, <2>3, CursorType, Zenon DEF Interval
  <2> HIDE DEF g
  <2> QED
    BY <2>1, <2>2, <2>4
<1>3. CASE ~(iv.lo > cursor.at) /\ iv.lo = cursor.at /\ ~cursor.incl /\ ~iv.loIncl
  <2> DEFINE g == [lo |-> cursor.at, loIncl |-> TRUE, hi |-> cursor.at, hiIncl |-> TRUE]
  <2>1. GapsBefore(iv) = {g}
    BY <1>3 DEF GapsBefore
  <2>2. g.lo = cursor.at /\ g.hi = cursor.at
    OBVIOUS
  <2>3. g \in Interval
    BY <1>1, CursorType, Zenon DEF Interval
  <2> HIDE DEF g
  <2> QED
    BY <2>1, <2>2, <2>3
<1>4. CASE ~(iv.lo > cursor.at) /\ ~(iv.lo = cursor.at /\ ~cursor.incl /\ ~iv.loIncl)
  <2>1. GapsBefore(iv) = {}
    BY <1>4 DEF GapsBefore
  <2> QED
    BY <1>1, <1>4, <2>1, CursorType
<1> QED
  BY <1>2, <1>3, <1>4

-----------------------------------------------------------------------------
\* The scan starts with the interval of lowest lower bound handled.
LEMMA InitInv == ASSUME ladder \in Seq(Comparator), Scannable(ladder), ScanInit PROVE ScanInv
<1>1. ladder \in Seq(Comparator) /\ Scannable(ladder)
  OBVIOUS
<1>2. Len(ladder) \in Nat /\ Len(ladder) >= 2 /\ DOMAIN ladder = 1..Len(ladder)
  BY <1>1 DEF Scannable
<1>3. order[1] \in DOMAIN ladder
  BY <1>2 DEF ScanInit, StablySorts
<1>4. At(1) \in Interval
  BY <1>1, <1>3, IntervalType DEF At, IntervalAt
<1>5. cursor = UpTo(At(1))
  BY DEF ScanInit, At
<1>6. ScanTypeOK
  <2>1. cursor \in [at : Bounds, incl : BOOLEAN]
    BY <1>4, <1>5 DEF UpTo, Interval
  <2>2. next \in 2..(Len(ladder) + 2) /\ gaps \subseteq Interval
    BY <1>2 DEF ScanInit
  <2> QED
    BY <1>1, <2>1, <2>2 DEF ScanTypeOK, ScanInit
<1>7. cursor.at = At(1).hi /\ cursor.incl = At(1).hiIncl
  BY <1>5 DEF UpTo
<1>8. next = 2 /\ gaps = {}
  BY DEF ScanInit
<1>9. CoverInv
  <2> SUFFICES ASSUME NEW v \in Values, At(1).lo < v, BelowCursor(v)
               PROVE  1 \in DOMAIN ladder /\ 1 < next /\ Within(At(1), v)
    BY DEF CoverInv
  <2> QED
    BY <1>2, <1>7, <1>8 DEF BelowCursor, Within
<1>10. UpperInv
  <2> SUFFICES ASSUME NEW k \in DOMAIN ladder, k < 2 PROVE At(k).hi <= cursor.at
    BY <1>8 DEF UpperInv
  <2>1. k = 1
    BY <1>2
  <2> QED
    BY <1>4, <1>7, <2>1 DEF Interval, Bounds
<1>11. GapInv
  BY <1>8 DEF GapInv
<1>12. TopInv
  BY <1>2, <1>8 DEF TopInv, Scanned
<1> QED
  BY <1>6, <1>9, <1>10, <1>11, <1>12 DEF ScanInv

-----------------------------------------------------------------------------
\* One iteration of the loop.
LEMMA StepInv == ASSUME ScanInv, ScanStep PROVE ScanInv'
<1> DEFINE iv == At(next)
<1>0. ScanTypeOK /\ CoverInv /\ UpperInv /\ GapInv
  BY DEF ScanInv
<1>1. /\ next <= Len(ladder) /\ next' = next + 1
      /\ gaps' = gaps \cup GapsBefore(iv) /\ cursor' = Advance(iv)
      /\ ladder' = ladder /\ order' = order
  BY DEF ScanStep, At
<1>2. next \in Int /\ 2 <= next /\ next \in DOMAIN ladder
  BY <1>0, <1>1, LadderType DEF ScanTypeOK
<1>3. iv \in Interval
  BY <1>0, <1>2, AtType
<1>4. \A k : At(k)' = At(k)
  BY <1>1 DEF At, IntervalAt
<1>5. /\ iv.lo \in Int /\ iv.hi \in Int /\ iv.loIncl \in BOOLEAN /\ iv.hiIncl \in BOOLEAN
      /\ cursor.at \in Int /\ cursor.incl \in BOOLEAN
  BY <1>0, <1>3, CursorType DEF Interval, Bounds
<1>6. cursor'.at \in Int /\ cursor.at <= cursor'.at /\ iv.hi <= cursor'.at
  BY <1>0, <1>1, <1>3, AdvanceFacts DEF Bounds
<1>7. ScanTypeOK'
  <2>1. cursor' \in [at : Bounds, incl : BOOLEAN]
    BY <1>0, <1>1, <1>3, AdvanceFacts
  <2>2. gaps' \subseteq Interval
    BY <1>0, <1>1, <1>3, GapsBeforeFacts DEF ScanTypeOK
  <2>3. next' \in 2..(Len(ladder) + 2)
    BY <1>0, <1>1, <1>2, LadderType
  <2>4. StablySorts(order, ladder)' /\ (ladder \in Seq(Comparator) /\ Scannable(ladder))'
    BY <1>0, <1>1 DEF ScanTypeOK
  <2> QED
    BY <1>1, <2>1, <2>2, <2>3, <2>4 DEF ScanTypeOK
<1>8. CoverInv'
  <2> SUFFICES ASSUME gaps' = {}, NEW v \in Values, At(1).lo < v, BelowCursor(v)'
               PROVE  \E k \in DOMAIN ladder : k < next + 1 /\ Within(At(k), v)
    BY <1>1, <1>4 DEF CoverInv, Within
  <2>1. gaps = {} /\ GapsBefore(iv) = {}
    BY <1>1
  <2>2. CASE BelowCursor(v)
    BY <1>0, <1>2, <2>1, <2>2, LadderType DEF CoverInv
  <2>3. CASE ~BelowCursor(v)
    <3>1. v \in Int
      BY DEF Values
    <3>2. cursor.at <= v /\ (cursor.at = v => ~cursor.incl)
      BY <1>5, <2>3, <3>1 DEF BelowCursor
    <3>3. iv.lo <= cursor.at /\ (iv.lo = cursor.at => cursor.incl \/ iv.loIncl)
      BY <1>0, <1>3, <2>1, GapsBeforeFacts
    <3>4. iv.lo < v \/ (iv.loIncl /\ iv.lo = v)
      BY <1>5, <3>1, <3>2, <3>3
    <3>5. cursor' = UpTo(iv)
      <4>1. cursor' # cursor
        BY <2>3 DEF BelowCursor
      <4> QED
        BY <1>0, <1>1, <1>3, <4>1, AdvanceFacts
    <3>6. v < iv.hi \/ (iv.hiIncl /\ v = iv.hi)
      BY <3>5 DEF BelowCursor, UpTo
    <3>7. Within(iv, v)
      BY <3>4, <3>6 DEF Within
    <3> QED
      BY <1>2, <3>7
  <2> QED
    BY <2>2, <2>3
<1>9. UpperInv'
  <2> SUFFICES ASSUME NEW k \in DOMAIN ladder, k < next + 1 PROVE At(k).hi <= cursor'.at
    BY <1>1, <1>4 DEF UpperInv
  <2>1. CASE k = next
    BY <1>6, <2>1
  <2>2. CASE k < next
    <3>1. At(k).hi <= cursor.at
      BY <1>0, <2>2 DEF UpperInv
    <3>2. At(k).hi \in Int
      BY <1>0, AtType DEF Interval, Bounds
    <3> QED
      BY <1>5, <1>6, <3>1, <3>2
  <2> QED
    BY <1>0, <1>2, <2>1, <2>2, LadderType
<1>10. GapInv'
  <2> SUFFICES ASSUME NEW g \in gaps', NEW v \in Values, g.lo < v, v < g.hi,
                      NEW k \in DOMAIN ladder
               PROVE  ~Within(At(k), v)
    BY <1>1, <1>4 DEF GapInv, Within
  <2>1. CASE g \in gaps
    BY <1>0, <2>1 DEF GapInv
  <2>2. CASE g \in GapsBefore(iv)
    <3>1. v \in Int /\ At(k).lo \in Int /\ At(k).hi \in Int
      BY <1>0, AtType DEF Values, Interval, Bounds
    <3>2. cursor.at < v /\ v < iv.lo
      BY <1>0, <1>3, <1>5, <2>2, <3>1, GapsBeforeFacts
    <3>3. CASE k < next
      <4>1. At(k).hi <= cursor.at
        BY <1>0, <3>3 DEF UpperInv
      <4> QED
        BY <1>5, <3>1, <3>2, <4>1 DEF Within
    <3>4. CASE next <= k
      <4>1. iv.lo <= At(k).lo
        BY <1>0, <1>2, <3>4, AtSorted
      <4> QED
        BY <1>5, <3>1, <3>2, <4>1 DEF Within
    <3> QED
      BY <1>0, <1>2, <3>3, <3>4, LadderType
  <2> QED
    BY <1>1, <2>1, <2>2
<1>11. TopInv'
  BY <1>0, <1>1, <1>2, LadderType DEF TopInv, Scanned
<1> QED
  BY <1>7, <1>8, <1>9, <1>10, <1>11 DEF ScanInv

\* What lies above the cursor after the loop.
LEMMA TopStepInv == ASSUME ScanInv, ScanTop PROVE ScanInv'
<1> DEFINE top == [lo |-> cursor.at, loIncl |-> ~cursor.incl, hi |-> Infinity, hiIncl |-> FALSE]
<1>0. ScanTypeOK /\ CoverInv /\ UpperInv /\ GapInv
  BY DEF ScanInv
<1>1. /\ next = Len(ladder) + 1 /\ next' = next + 1
      /\ cursor.at = Infinity => gaps' = gaps
      /\ cursor.at # Infinity => gaps' = gaps \cup {top}
      /\ ladder' = ladder /\ order' = order /\ cursor' = cursor
  BY DEF ScanTop
<1>2. \A k : At(k)' = At(k)
  BY <1>1 DEF At, IntervalAt
<1>3. top \in Interval /\ top.lo = cursor.at
  <2>1. Infinity \in Bounds /\ (~cursor.incl) \in BOOLEAN /\ FALSE \in BOOLEAN
    BY DEF Bounds
  <2>2. top \in Interval
    BY <1>0, <2>1, CursorType, Zenon DEF Interval
  <2> QED
    BY <2>2
<1> HIDE DEF top
<1>4. gaps' \subseteq gaps \cup {top} /\ gaps \subseteq gaps'
  BY <1>1
<1>5. ScanTypeOK'
  <2>1. gaps' \subseteq Interval
    BY <1>0, <1>3, <1>4 DEF ScanTypeOK
  <2>2. next' \in 2..(Len(ladder) + 2)
    BY <1>0, <1>1, LadderType
  <2>3. /\ StablySorts(order, ladder)' /\ (ladder \in Seq(Comparator) /\ Scannable(ladder))'
        /\ (cursor \in [at : Bounds, incl : BOOLEAN])'
    BY <1>0, <1>1 DEF ScanTypeOK
  <2> QED
    BY <1>1, <2>1, <2>2, <2>3 DEF ScanTypeOK
<1>6. CoverInv'
  <2> SUFFICES ASSUME gaps' = {}, NEW v \in Values, At(1).lo < v, BelowCursor(v)
               PROVE  \E k \in DOMAIN ladder : k < next' /\ Within(At(k), v)
    BY <1>1, <1>2 DEF CoverInv, Within, BelowCursor
  <2>1. PICK k \in DOMAIN ladder : k < next /\ Within(At(k), v)
    BY <1>0, <1>4 DEF CoverInv
  <2>2. k < next'
    BY <1>0, <1>1, <2>1, LadderType
  <2> QED
    BY <2>1, <2>2
<1>7. \A k \in DOMAIN ladder : At(k).hi <= cursor.at
  BY <1>0, <1>1, LadderType DEF UpperInv
<1>8. UpperInv'
  BY <1>1, <1>2, <1>7 DEF UpperInv
<1>9. GapInv'
  <2> SUFFICES ASSUME NEW g \in gaps', NEW v \in Values, g.lo < v, v < g.hi,
                      NEW k \in DOMAIN ladder
               PROVE  ~Within(At(k), v)
    BY <1>1, <1>2 DEF GapInv, Within
  <2>1. CASE g \in gaps
    BY <1>0, <2>1 DEF GapInv
  <2>2. CASE g = top
    <3>1. v \in Int /\ At(k).lo \in Int /\ At(k).hi \in Int /\ cursor.at \in Int
      BY <1>0, AtType, CursorType DEF Values, Interval, Bounds
    <3>2. cursor.at < v
      BY <1>3, <2>2
    <3> QED
      BY <1>7, <3>1, <3>2 DEF Within
  <2> QED
    BY <1>4, <2>1, <2>2
<1>10. TopInv'
  BY <1>1 DEF TopInv
<1> QED
  BY <1>5, <1>6, <1>8, <1>9, <1>10 DEF ScanInv

LEMMA StutterInv == ASSUME ScanInv, UNCHANGED scanVars PROVE ScanInv'
BY DEF ScanInv, ScanTypeOK, CoverInv, UpperInv, GapInv, TopInv, Scanned, BelowCursor, At,
       IntervalAt, scanVars

LEMMA ScanInductive == ScanInv /\ [ScanNext]_scanVars => ScanInv'
BY StepInv, TopStepInv, StutterInv DEF ScanNext

-----------------------------------------------------------------------------
\* What the compiler accepts and reports follows from the last state of the loop.
LEMMA AcceptedByInv == ScanInv => AcceptedIsCovered
<1> SUFFICES ASSUME ScanInv, Scanned, gaps = {}, \A i \in DOMAIN ladder : Plain(ladder[i]),
                    NEW v \in Values, NEW i \in DOMAIN ladder, IntervalAt(i).lo < v
             PROVE  Covered(v)
  BY DEF AcceptedIsCovered
<1>0. ScanTypeOK /\ CoverInv /\ TopInv
  BY DEF ScanInv
<1>1. PICK j \in DOMAIN ladder : order[j] = i
  BY <1>0 DEF ScanTypeOK, StablySorts
<1>2. At(1).lo < v
  <2>1. 1 \in DOMAIN ladder /\ 1 <= j
    BY <1>0, LadderType
  <2>2. At(1).lo <= At(j).lo
    BY <1>0, <2>1, AtSorted
  <2>3. At(1).lo \in Int /\ At(j).lo \in Int /\ v \in Int
    BY <1>0, <2>1, AtType DEF Interval, Bounds, Values
  <2>4. At(j).lo < v
    BY <1>1 DEF At
  <2> QED
    BY <2>2, <2>3, <2>4
<1>3. BelowCursor(v)
  BY <1>0 DEF TopInv, BelowCursor, Values
<1>4. PICK k \in DOMAIN ladder : Within(At(k), v)
  BY <1>0, <1>2, <1>3 DEF CoverInv
<1>5. order[k] \in DOMAIN ladder /\ ladder[order[k]] \in Comparator
  BY <1>0, AtType, LadderType
<1>6. Satisfies(v, ladder[order[k]])
  BY <1>4, <1>5, WithinIsSatisfied DEF At, IntervalAt
<1> QED
  BY <1>5, <1>6 DEF Covered

LEMMA GapsByInv == ScanInv => InsideGapsIsUncovered
<1> SUFFICES ASSUME ScanInv, NEW g \in gaps, NEW v \in Values, g.lo < v, v < g.hi,
                    NEW i \in DOMAIN ladder, Satisfies(v, ladder[i])
             PROVE  FALSE
  BY DEF InsideGapsIsUncovered, Covered
<1>0. ScanTypeOK /\ GapInv
  BY DEF ScanInv
<1>1. PICK k \in DOMAIN ladder : order[k] = i
  BY <1>0 DEF ScanTypeOK, StablySorts
<1>2. Within(At(k), v)
  BY <1>0, <1>1, LadderType, SatisfiedIsWithin DEF At, IntervalAt
<1> QED
  BY <1>0, <1>2 DEF GapInv

-----------------------------------------------------------------------------
LEMMA NestedFacts ==
    ASSUME NEW c \in PolicyConditions
    PROVE  /\ Depth[c] \in Nat
           /\ \A d \in Nested(c) : d \in PolicyConditions /\ Depth[d] \in Nat /\ Depth[d] < Depth[c]
           /\ \A i \in DOMAIN c.allOf : c.allOf[i] \in Nested(c)
           /\ \A i \in DOMAIN c.anyOf : c.anyOf[i] \in Nested(c)
<1>1. \A e \in PolicyConditions :
        /\ Nested(e) \subseteq PolicyConditions /\ Depth[e] \in Nat
        /\ \A d \in Nested(e) : Depth[d] < Depth[e]
  BY ConditionsAssumption, Zenon DEF ConditionsAssumption
<1>2. /\ \A i \in DOMAIN c.allOf : c.allOf[i] \in Nested(c)
      /\ \A i \in DOMAIN c.anyOf : c.anyOf[i] \in Nested(c)
  BY Zenon DEF Nested
<1> QED
  BY <1>1, <1>2, Zenon

\* Induction over conditions: of those without the property one has the least depth.
LEMMA NestedInduct ==
    ASSUME NEW P, \A c \in PolicyConditions : Nested(c) \subseteq P => c \in P
    PROVE  PolicyConditions \subseteq P
<1> SUFFICES ASSUME NEW e \in PolicyConditions, e \notin P PROVE FALSE
  OBVIOUS
<1> DEFINE T == {n \in Nat : \E c \in PolicyConditions : c \notin P /\ Depth[c] = n}
<1>1. T \subseteq Nat /\ T # {}
  BY NestedFacts
<1>2. PICK n \in T : \A k \in T : n <= k
  <2> HIDE DEF T
  <2> QED
    BY <1>1, LeastNumber
<1>3. PICK c \in PolicyConditions : c \notin P /\ Depth[c] = n
  OBVIOUS
<1>4. ASSUME NEW d \in Nested(c) PROVE d \in P
  <2>1. d \in PolicyConditions /\ Depth[d] \in Nat /\ Depth[d] < n
    BY <1>3, NestedFacts
  <2>2. d \notin P => Depth[d] \in T
    BY <2>1
  <2> QED
    BY <1>2, <2>1, <2>2
<1> QED
  BY <1>3, <1>4

\* Recursion over conditions: if what B makes of a function at a condition depends on the
\* conditions nested in it only, there is a function that B leaves as it is.
LEMMA NestedRecursion ==
    ASSUME NEW X, X # {}, NEW B \in [[PolicyConditions -> X] -> [PolicyConditions -> X]],
           \A g, h \in [PolicyConditions -> X] : \A c \in PolicyConditions :
                (\A d \in Nested(c) : g[d] = h[d]) => B[g][c] = B[h][c]
    PROVE  \E f \in [PolicyConditions -> X] : f = B[f]
<1> DEFINE C == PolicyConditions
           OK(n, g) == g \in [C -> X] /\ \A c \in C : Depth[c] < n => g[c] = B[g][c]
<1>1. ASSUME NEW m \in Nat PROVE \E g : OK(m, g)
  <2> DEFINE P == {n \in 0..m : \E g : OK(n, g)}
  <2>1. 0 \in P
    <3>1. PICK x \in X : TRUE
      OBVIOUS
    <3>2. OK(0, [c \in C |-> x])
      BY NestedFacts
    <3> HIDE DEF OK
    <3> QED
      BY <3>2
  <2>2. ASSUME NEW n \in 1..m, n - 1 \in P PROVE n \in P
    <3>1. PICK g : OK(n - 1, g)
      BY <2>2
    <3>2. PICK h : h = B[g]
      OBVIOUS
    <3>3. g \in [C -> X] /\ h \in [C -> X]
      BY <3>1, <3>2
    <3>4. ASSUME NEW c \in C, Depth[c] < n PROVE h[c] = B[h][c]
      <4>1. \A d \in Nested(c) : g[d] = h[d]
        BY <3>1, <3>2, <3>4, NestedFacts
      <4>2. B[g][c] = B[h][c]
        BY <3>3, <4>1
      <4> QED
        BY <3>2, <4>2
    <3>5. OK(n, h)
      BY <3>3, <3>4
    <3> HIDE DEF OK
    <3> QED
      BY <3>5
  <2> HIDE DEF P
  <2>3. m \in P
    BY <2>1, <2>2, Induct
  <2> QED
    BY <2>3 DEF P
<1>2. ASSUME NEW n \in Nat, NEW m \in Nat, NEW g, NEW h, OK(n, g), OK(m, h),
             NEW e \in C, Depth[e] < n, Depth[e] < m
      PROVE  g[e] = h[e]
  <2> DEFINE P == {c \in C : Depth[c] < n /\ Depth[c] < m => g[c] = h[c]}
  <2>1. ASSUME NEW c \in C, Nested(c) \subseteq P PROVE c \in P
    <3> SUFFICES ASSUME Depth[c] < n, Depth[c] < m PROVE g[c] = h[c]
      OBVIOUS
    <3>1. \A d \in Nested(c) : g[d] = h[d]
      BY <2>1, NestedFacts
    <3>2. B[g][c] = B[h][c]
      BY <1>2, <3>1
    <3> QED
      BY <1>2, <3>2
  <2>2. C \subseteq P
    <3> HIDE DEF P
    <3> QED
      BY <2>1, NestedInduct
  <2> QED
    BY <1>2, <2>2
<1> DEFINE G == [n \in Nat |-> CHOOSE g : OK(n, g)]
<1>3. \A n \in Nat : OK(n, G[n])
  <2> HIDE DEF OK
  <2> QED
    BY <1>1
<1> HIDE DEF G
<1> DEFINE f == [c \in C |-> G[Depth[c] + 1][c]]
<1>4. f \in [C -> X]
  BY <1>3, NestedFacts
<1>5. ASSUME NEW c \in C PROVE f[c] = B[f][c]
  <2>1. PICK n, g : n = Depth[c] + 1 /\ g = G[n]
    OBVIOUS
  <2>2. Depth[c] \in Nat /\ n \in Nat /\ Depth[c] < n
    BY <2>1, NestedFacts
  <2>3. OK(n, g)
    BY <1>3, <2>1, <2>2
  <2>4. ASSUME NEW d \in Nested(c) PROVE f[d] = g[d]
    <3>1. d \in C /\ Depth[d] \in Nat /\ Depth[d] < n /\ Depth[d] < Depth[d] + 1 /\ Depth[d] + 1 \in Nat
      BY <2>1, NestedFacts
    <3>2. OK(Depth[d] + 1, G[Depth[d] + 1])
      BY <1>3, <3>1
    <3> HIDE DEF OK
    <3>3. G[Depth[d] + 1][d] = g[d]
      BY <1>2, <2>2, <2>3, <3>1, <3>2
    <3> QED
      BY <3>1, <3>3
  <2>5. f[c] = g[c]
    BY <2>1
  <2>6. g[c] = B[g][c]
    BY <2>2, <2>3
  <2>7. g \in [C -> X]
    BY <2>3
  <2> HIDE DEF f
  <2>8. B[f][c] = B[g][c]
    BY <1>4, <2>4, <2>7
  <2> QED
    BY <2>5, <2>6, <2>8
<1>6. B[f] \in [C -> X]
  BY <1>4
<1> HIDE DEF f
<1>7. f = B[f]
  BY <1>4, <1>5, <1>6
<1> QED
  BY <1>4, <1>7

-----------------------------------------------------------------------------
\* One call of evalCondition, g the results of the calls it makes.
Holding(vals, g, c) ==
    IF c.allOf # <<>> THEN \A i \in DOMAIN c.allOf : g[c.allOf[i]]
    ELSE IF c.anyOf # <<>> THEN \E i \in DOMAIN c.anyOf : g[c.anyOf[i]]
    ELSE \A s \in DOMAIN c.comparisons :
            s \in DOMAIN vals /\ Satisfies(vals[s], c.comparisons[s])

LEMMA HoldsExists ==
    ASSUME NEW vals
    PROVE  \E f : f = [c \in PolicyConditions |-> Holding(vals, f, c)]
<1> DEFINE C == PolicyConditions
           B == [g \in [C -> BOOLEAN] |-> [c \in C |-> Holding(vals, g, c)]]
<1>1. ASSUME NEW g \in [C -> BOOLEAN], NEW c \in C PROVE Holding(vals, g, c) \in BOOLEAN
  BY Zenon DEF Holding
<1>2. B \in [[C -> BOOLEAN] -> [C -> BOOLEAN]]
  BY <1>1
<1>3. ASSUME NEW g \in [C -> BOOLEAN], NEW h \in [C -> BOOLEAN], NEW c \in C,
             \A d \in Nested(c) : g[d] = h[d]
      PROVE  B[g][c] = B[h][c]
  <2>1. /\ \A i \in DOMAIN c.allOf : g[c.allOf[i]] = h[c.allOf[i]]
        /\ \A i \in DOMAIN c.anyOf : g[c.anyOf[i]] = h[c.anyOf[i]]
    BY <1>3, NestedFacts
  <2>2. Holding(vals, g, c) = Holding(vals, h, c)
    <3>1. CASE c.allOf # <<>>
      <4>1. (\A i \in DOMAIN c.allOf : g[c.allOf[i]]) = (\A i \in DOMAIN c.allOf : h[c.allOf[i]])
        BY <2>1, Zenon
      <4> QED
        BY <3>1, <4>1, Zenon DEF Holding
    <3>2. CASE c.allOf = <<>> /\ c.anyOf # <<>>
      <4>1. (\E i \in DOMAIN c.anyOf : g[c.anyOf[i]]) = (\E i \in DOMAIN c.anyOf : h[c.anyOf[i]])
        BY <2>1, Zenon
      <4> QED
        BY <3>2, <4>1, Zenon DEF Holding
    <3>3. CASE c.allOf = <<>> /\ c.anyOf = <<>>
      BY <3>3, Zenon DEF Holding
    <3> QED
      BY <3>1, <3>2, <3>3, Zenon
  <2> QED
    BY <2>2
<1> HIDE DEF B
<1>4. PICK f \in [C -> BOOLEAN] : f = B[f]
  BY <1>2, <1>3, NestedRecursion
<1>5. f = [c \in C |-> Holding(vals, f, c)]
  BY <1>4 DEF B
<1> QED
  BY <1>5

\* EvalCondition, call by call.
LEMMA EvalStep ==
    ASSUME NEW vals, NEW c \in PolicyConditions
    PROVE  EvalCondition(c, vals) <=>
             IF c.allOf # <<>> THEN \A i \in DOMAIN c.allOf : EvalCondition(c.allOf[i], vals)
             ELSE IF c.anyOf # <<>> THEN \E i \in DOMAIN c.anyOf : EvalCondition(c.anyOf[i], vals)
             ELSE \A s \in DOMAIN c.comparisons :
                     s \in DOMAIN vals /\ Satisfies(vals[s], c.comparisons[s])
<1>1. PICK f : f = CHOOSE g : g = [d \in PolicyConditions |-> Holding(vals, g, d)]
  OBVIOUS
<1>2. f = [d \in PolicyConditions |-> Holding(vals, f, d)]
  BY <1>1, HoldsExists, Zenon
<1>3. \A d : EvalCondition(d, vals) <=> f[d]
  BY <1>1, Zenon DEF EvalCondition, Holding
<1>4. f[c] <=> Holding(vals, f, c)
  BY <1>2, Zenon
<1> QED
  BY <1>3, <1>4, Zenon DEF Holding

-----------------------------------------------------------------------------
LeavesOf(g, c) == LeavesHere(c) \cup UNION {g[d] : d \in Nested(c)}

LEMMA LeavesExist == \E f : f = [c \in PolicyConditions |-> LeavesOf(f, c)]
<1> DEFINE C == PolicyConditions
           X == SUBSET (Signals \X Comparator)
           B == [g \in [C -> X] |-> [c \in C |-> LeavesOf(g, c)]]
<1>1. ASSUME NEW g \in [C -> X], NEW c \in C PROVE LeavesOf(g, c) \in X
  <2>1. DOMAIN c.comparisons \subseteq Signals /\ \A s \in DOMAIN c.comparisons : c.comparisons[s] \in Comparator
    BY ConditionsAssumption, Zenon DEF ConditionsAssumption
  <2>2. LeavesHere(c) \in X
    BY <2>1 DEF LeavesHere
  <2>3. ASSUME NEW d \in Nested(c) PROVE g[d] \in X
    BY NestedFacts
  <2> HIDE DEF X
  <2>4. UNION {g[d] : d \in Nested(c)} \in X
    BY <2>3 DEF X
  <2> QED
    BY <2>2, <2>4 DEF LeavesOf, X
<1>2. B \in [[C -> X] -> [C -> X]]
  BY <1>1
<1>3. ASSUME NEW g \in [C -> X], NEW h \in [C -> X], NEW c \in C,
             \A d \in Nested(c) : g[d] = h[d]
      PROVE  B[g][c] = B[h][c]
  <2>1. {g[d] : d \in Nested(c)} = {h[d] : d \in Nested(c)}
    BY <1>3
  <2>2. LeavesOf(g, c) = LeavesOf(h, c)
    BY <2>1 DEF LeavesOf
  <2> QED
    BY <2>2
<1>4. X # {}
  OBVIOUS
<1> HIDE DEF B, X
<1>5. PICK f \in [C -> X] : f = B[f]
  BY <1>2, <1>3, <1>4, NestedRecursion
<1>6. f = [c \in C |-> LeavesOf(f, c)]
  BY <1>5 DEF B
<1> QED
  BY <1>6

\* The walk, call by call.
LEMMA LeavesStep ==
    ASSUME NEW c \in PolicyConditions
    PROVE  Leaves(c) = LeavesHere(c) \cup UNION {Leaves(d) : d \in Nested(c)}
<1>1. PICK f : f = CHOOSE g : g = [d \in PolicyConditions |-> LeavesOf(g, d)]
  OBVIOUS
<1>2. f = [d \in PolicyConditions |-> LeavesOf(f, d)]
  BY <1>1, LeavesExist, Zenon
<1>3. \A d : Leaves(d) = f[d]
  BY <1>1, Zenon DEF Leaves, LeavesOf
<1>4. f[c] = LeavesOf(f, c)
  BY <1>2, Zenon
<1> QED
  BY <1>3, <1>4 DEF LeavesOf

-----------------------------------------------------------------------------
LEMMA GreatestOf ==
    ASSUME NEW n \in Nat, NEW T, T \subseteq 1..n, T # {}
    PROVE  Max(T) \in T /\ \A k \in T : k <= Max(T)
<1> DEFINE D == {n - k : k \in T}
<1>0. \A k \in T : k \in Nat /\ n - k \in Nat
  OBVIOUS
<1>1. D \subseteq Nat /\ D # {}
  BY <1>0, Zenon
<1>2. PICK d \in D : \A e \in D : d <= e
  <2> HIDE DEF D
  <2> QED
    BY <1>1, LeastNumber
<1>3. PICK m \in T : n - m = d
  BY <1>2
<1>4. ASSUME NEW k \in T PROVE m >= k
  <2>1. n - k \in D
    OBVIOUS
  <2>2. d <= n - k
    BY <1>2, <2>1
  <2> QED
    BY <1>3, <2>2
<1>5. Max(T) \in T /\ \A k \in T : Max(T) >= k
  BY <1>4, Zenon DEF Max
<1> QED
  BY <1>5

LEMMA LeastOf ==
    ASSUME NEW n \in Nat, NEW T, T \subseteq 1..n, T # {}
    PROVE  Min(T) \in T /\ \A k \in T : Min(T) <= k
<1>0. T \subseteq Nat
  OBVIOUS
<1>1. PICK m \in T : \A k \in T : m <= k
  BY <1>0, LeastNumber
<1> QED
  BY <1>1, Zenon DEF Min

\* MatchTier names the last tier that matches, or the first.
MatchIndex(tiers, vals) ==
    LET matching == {i \in DOMAIN tiers : EvalCondition(tiers[i].when, vals)} IN
    IF matching = {} THEN 1 ELSE Max(matching)

LEMMA MatchIs ==
    ASSUME NEW tiers \in Seq(Tier), tiers # <<>>, NEW vals
    PROVE  LET k == MatchIndex(tiers, vals) IN
           /\ k \in DOMAIN tiers /\ MatchTier(tiers, vals) = tiers[k].name
           /\ k = 1 \/ EvalCondition(tiers[k].when, vals)
           /\ \A j \in DOMAIN tiers : EvalCondition(tiers[j].when, vals) => j <= k
<1>0. PICK M, k : M = {i \in DOMAIN tiers : EvalCondition(tiers[i].when, vals)} /\ k = MatchIndex(tiers, vals)
  OBVIOUS
<1>1. Len(tiers) \in Nat /\ Len(tiers) >= 1 /\ DOMAIN tiers = 1..Len(tiers)
  BY EmptySeq
<1>2. k = IF M = {} THEN 1 ELSE Max(M)
  BY <1>0, Zenon DEF MatchIndex
<1>3. MatchTier(tiers, vals) = tiers[k].name
  BY <1>0, Zenon DEF MatchTier, MatchIndex
<1>4. \A i : i \in M <=> i \in DOMAIN tiers /\ EvalCondition(tiers[i].when, vals)
  BY <1>0
<1>5. CASE M = {}
  <2>1. k = 1 /\ \A j \in DOMAIN tiers : ~EvalCondition(tiers[j].when, vals)
    BY <1>2, <1>4, <1>5
  <2>2. 1 \in DOMAIN tiers
    BY <1>1
  <2> QED
    BY <1>0, <1>3, <2>1, <2>2
<1>6. CASE M # {}
  <2>1. M \subseteq 1..Len(tiers)
    BY <1>1, <1>4
  <2>2. k \in M /\ \A j \in M : j <= k
    BY <1>1, <1>2, <1>6, <2>1, GreatestOf
  <2> QED
    BY <1>0, <1>3, <1>4, <2>2
<1> QED
  BY <1>5, <1>6

\* With names that differ, tierIndex arrives where MatchTier left.
LEMMA NamedIndex ==
    ASSUME NEW tiers \in Seq(Tier), NEW k \in DOMAIN tiers,
           \A i, j \in DOMAIN tiers : tiers[i].name = tiers[j].name => i = j
    PROVE  TierIndex(tiers, tiers[k].name) = k
<1> DEFINE T == {i \in DOMAIN tiers : tiers[i].name = tiers[k].name}
<1>1. Len(tiers) \in Nat /\ T \subseteq 1..Len(tiers) /\ k \in T
  OBVIOUS
<1>2. T = {k}
  OBVIOUS
<1>3. Min(T) \in T
  <2> HIDE DEF T
  <2> QED
    BY <1>1, LeastOf
<1> QED
  BY <1>2, <1>3 DEF TierIndex

-----------------------------------------------------------------------------
LEMMA LeavesType ==
    ASSUME NEW c \in PolicyConditions
    PROVE  Leaves(c) \subseteq Signals \X Comparator
<1> DEFINE P == {d \in PolicyConditions : Leaves(d) \subseteq Signals \X Comparator}
<1>1. ASSUME NEW d \in PolicyConditions, Nested(d) \subseteq P PROVE d \in P
  <2>1. LeavesHere(d) \subseteq Signals \X Comparator
    BY ConditionsAssumption DEF ConditionsAssumption, LeavesHere
  <2>2. Leaves(d) = LeavesHere(d) \cup UNION {Leaves(e) : e \in Nested(d)}
    BY LeavesStep
  <2>3. \A e \in Nested(d) : Leaves(e) \subseteq Signals \X Comparator
    BY <1>1
  <2> QED
    BY <2>1, <2>2, <2>3, Zenon
<1> HIDE DEF P
<1>2. PolicyConditions \subseteq P
  BY <1>1, NestedInduct
<1> QED
  BY <1>2 DEF P

\* What a condition refers to, and the ones nested in it do.
LEMMA RefsStep ==
    ASSUME NEW c \in PolicyConditions
    PROVE  /\ DOMAIN c.comparisons \subseteq SignalRefs(c)
           /\ \A d \in Nested(c) : SignalRefs(d) \subseteq SignalRefs(c)
<1>1. Leaves(c) = LeavesHere(c) \cup UNION {Leaves(d) : d \in Nested(c)}
  BY LeavesStep
<1>2. ASSUME NEW s \in DOMAIN c.comparisons PROVE s \in SignalRefs(c)
  <2>1. <<s, c.comparisons[s]>> \in Leaves(c)
    BY <1>1 DEF LeavesHere
  <2> QED
    BY <2>1 DEF SignalRefs
<1>3. ASSUME NEW d \in Nested(c) PROVE SignalRefs(d) \subseteq SignalRefs(c)
  <2>1. Leaves(d) \subseteq Leaves(c)
    BY <1>1, Zenon
  <2> QED
    BY <2>1 DEF SignalRefs
<1> QED
  BY <1>2, <1>3

\* A condition depends on the signals it refers to only.
LEMMA EvalOfKnown ==
    ASSUME NEW vals, NEW S, NEW c \in PolicyConditions, SignalRefs(c) \subseteq S
    PROVE  EvalCondition(c, Known(vals, S)) <=> EvalCondition(c, vals)
<1> DEFINE P == {d \in PolicyConditions : SignalRefs(d) \subseteq S =>
                    (EvalCondition(d, Known(vals, S)) <=> EvalCondition(d, vals))}
<1>1. ASSUME NEW d \in PolicyConditions, Nested(d) \subseteq P PROVE d \in P
  <2> SUFFICES ASSUME SignalRefs(d) \subseteq S
               PROVE  EvalCondition(d, Known(vals, S)) <=> EvalCondition(d, vals)
    OBVIOUS
  <2>1. \A e \in Nested(d) : EvalCondition(e, Known(vals, S)) <=> EvalCondition(e, vals)
    BY <1>1, RefsStep
  <2>2. /\ \A i \in DOMAIN d.allOf : EvalCondition(d.allOf[i], Known(vals, S)) <=> EvalCondition(d.allOf[i], vals)
        /\ \A i \in DOMAIN d.anyOf : EvalCondition(d.anyOf[i], Known(vals, S)) <=> EvalCondition(d.anyOf[i], vals)
    BY <2>1, NestedFacts, Zenon
  <2>3. \A s \in DOMAIN d.comparisons :
            /\ s \in DOMAIN Known(vals, S) <=> s \in DOMAIN vals
            /\ s \in DOMAIN vals => Known(vals, S)[s] = vals[s]
    BY RefsStep DEF Known
  <2>4. (\A s \in DOMAIN d.comparisons : s \in DOMAIN Known(vals, S) /\ Satisfies(Known(vals, S)[s], d.comparisons[s]))
        <=> (\A s \in DOMAIN d.comparisons : s \in DOMAIN vals /\ Satisfies(vals[s], d.comparisons[s]))
    BY <2>3, Zenon
  <2>5. CASE d.allOf # <<>>
    BY <2>2, <2>5, EvalStep, Zenon
  <2>6. CASE d.allOf = <<>> /\ d.anyOf # <<>>
    BY <2>2, <2>6, EvalStep, Zenon
  <2>7. CASE d.allOf = <<>> /\ d.anyOf = <<>>
    BY <2>4, <2>7, EvalStep, Zenon
  <2> QED
    BY <2>5, <2>6, <2>7
<1> HIDE DEF P
<1>2. PolicyConditions \subseteq P
  BY <1>1, NestedInduct
<1> QED
  BY <1>2 DEF P

\* A condition that holds still holds when more signals are known.
LEMMA EvalIsMonotonic ==
    ASSUME NEW vals, NEW S, NEW c \in PolicyConditions, EvalCondition(c, Known(vals, S))
    PROVE  EvalCondition(c, vals)
<1> DEFINE P == {d \in PolicyConditions : EvalCondition(d, Known(vals, S)) => EvalCondition(d, vals)}
<1>1. ASSUME NEW d \in PolicyConditions, Nested(d) \subseteq P PROVE d \in P
  <2> SUFFICES ASSUME EvalCondition(d, Known(vals, S)) PROVE EvalCondition(d, vals)
    OBVIOUS
  <2>1. \A e \in Nested(d) : EvalCondition(e, Known(vals, S)) => EvalCondition(e, vals)
    BY <1>1
  <2>2. /\ \A i \in DOMAIN d.allOf : EvalCondition(d.allOf[i], Known(vals, S)) => EvalCondition(d.allOf[i], vals)
        /\ \A i \in DOMAIN d.anyOf : EvalCondition(d.anyOf[i], Known(vals, S)) => EvalCondition(d.anyOf[i], vals)
    BY <2>1, NestedFacts, Zenon
  <2>3. \A s \in DOMAIN Known(vals, S) : s \in DOMAIN vals /\ Known(vals, S)[s] = vals[s]
    BY DEF Known
  <2>4. CASE d.allOf # <<>>
    BY <2>2, <2>4, EvalStep, Zenon
  <2>5. CASE d.allOf = <<>> /\ d.anyOf # <<>>
    BY <2>2, <2>5, EvalStep, Zenon
  <2>6. CASE d.allOf = <<>> /\ d.anyOf = <<>>
    <3>1. \A s \in DOMAIN d.comparisons : s \in DOMAIN Known(vals, S) /\ Satisfies(Known(vals, S)[s], d.comparisons[s])
      BY <2>6, EvalStep, Zenon
    <3>2. \A s \in DOMAIN d.comparisons : s \in DOMAIN vals /\ Satisfies(vals[s], d.comparisons[s])
      BY <2>3, <3>1, Zenon
    <3> QED
      BY <2>6, <3>2, EvalStep, Zenon
  <2> QED
    BY <2>4, <2>5, <2>6
<1> HIDE DEF P
<1>2. PolicyConditions \subseteq P
  BY <1>1, NestedInduct
<1> QED
  BY <1>2 DEF P

\* Between even ends there is a value.
LEMMA SatisfiableComparator ==
    ASSUME NEW c \in Comparator, Plain(c), ~EmptyRange(c)
    PROVE  \E v \in Values : Satisfies(v, c)
<1>0. PICK lo, hi, loIncl, hiIncl :
        LET iv == IntervalOf(c) IN lo = iv.lo /\ hi = iv.hi /\ loIncl = iv.loIncl /\ hiIncl = iv.hiIncl
  OBVIOUS
<1>1. \A b \in Optional : b # {} => The(b) \in Values /\ The(b) % 2 = 0
  BY BoundIsValue DEF Optional, Thresholds
<1>2. /\ lo \in Int /\ hi \in Int /\ 0 - Infinity <= lo /\ hi <= Infinity
      /\ loIncl \in BOOLEAN /\ hiIncl \in BOOLEAN
  BY <1>0, IntervalType DEF Interval, Bounds
<1>3. /\ (lo \in Values /\ lo % 2 = 0) \/ (lo = 0 - Infinity /\ ~loIncl)
      /\ (hi \in Values /\ hi % 2 = 0) \/ (hi = Infinity /\ ~hiIncl)
  <2>1. c.lt \in Optional /\ c.lte \in Optional /\ c.gt \in Optional /\ c.gte \in Optional /\ c.eq \in Optional
    BY Fields
  <2>2. (lo \in Values /\ lo % 2 = 0) \/ (lo = 0 - Infinity /\ ~loIncl)
    BY <1>0, <1>1, <2>1, LowerEnd
  <2>3. (hi \in Values /\ hi % 2 = 0) \/ (hi = Infinity /\ ~hiIncl)
    BY <1>0, <1>1, <2>1, UpperEnd
  <2> QED
    BY <2>2, <2>3
<1>4. lo < hi \/ (lo = hi /\ loIncl /\ hiIncl)
  <2>1. CASE HasBounds(c)
    BY <1>0, <1>2, <2>1 DEF EmptyRange
  <2>2. CASE ~HasBounds(c)
    <3>1. DOMAIN c = {"lt", "lte", "gt", "gte", "eq"}
      BY DEF Comparator
    <3>2. c["lt"] = {} /\ c["lte"] = {} /\ c["gt"] = {} /\ c["gte"] = {} /\ c["eq"] = {}
      BY <2>2, <3>1 DEF HasBounds
    <3>3. IntervalOf(c).lo = 0 - Infinity /\ IntervalOf(c).hi = Infinity
      BY <3>2 DEF IntervalOf
    <3> QED
      BY <1>0, <3>3
  <2> QED
    BY <2>1, <2>2
<1>5. ASSUME lo < hi PROVE lo + 1 < hi
  <2>1. PICK k \in Int : Infinity = 2 * k
    <3>1. Infinity \in Int /\ Infinity % 2 = 0
      OBVIOUS
    <3>2. Infinity = 2 * (Infinity \div 2) /\ Infinity \div 2 \in Int
      BY <3>1
    <3> QED
      BY <3>2
  <2>2. PICK a \in Int : lo = 2 * a
    <3>1. lo = 2 * (lo \div 2) \/ lo = 2 * (0 - k)
      BY <1>2, <1>3, <2>1
    <3>2. lo \div 2 \in Int /\ 0 - k \in Int
      BY <1>2
    <3> QED
      BY <3>1, <3>2
  <2>3. PICK b \in Int : hi = 2 * b
    <3>1. hi = 2 * (hi \div 2) \/ hi = 2 * k
      BY <1>2, <1>3, <2>1
    <3>2. hi \div 2 \in Int
      BY <1>2
    <3> QED
      BY <3>1, <3>2
  <2> QED
    BY <1>5, <2>2, <2>3
<1>7. PICK v \in Values : (lo < v \/ (loIncl /\ lo = v)) /\ (v < hi \/ (hiIncl /\ v = hi))
  <2>1. CASE loIncl
    <3>1. lo \in Values
      BY <1>3, <2>1
    <3> QED
      BY <1>2, <1>4, <2>1, <3>1
  <2>2. CASE ~loIncl
    <3>1. lo + 1 \in Values /\ lo < lo + 1 /\ lo + 1 < hi
      BY <1>2, <1>4, <1>5, <2>2 DEF Values
    <3>2. PICK v \in Values : lo < v /\ v < hi
      BY <3>1
    <3> QED
      BY <3>2
  <2> QED
    BY <1>2, <2>1, <2>2
<1>8. Within(IntervalOf(c), v)
  BY <1>0, <1>7 DEF Within
<1> QED
  BY <1>8, WithinIsSatisfied

-----------------------------------------------------------------------------
\* The compiler as a whole.
Categories == {"structure", "behavior", "contradiction", "undeclared", "tier gap", "cycle"}

\* What the checks have found is in errors, and a bundle is emitted only without any.
EmitInv ==
    /\ policy \in Policy
    /\ stage \in Stages
    /\ errors \subseteq Categories
    /\ stage # "validate" => ShapeErrors(policy) \subseteq errors
    /\ bundle # <<>> => bundle = policy.tiers /\ ShapeErrors(policy) = {}

LadderInv == IF ladder = <<>> THEN NoScan ELSE ScanInv

CompilerInv == EmitInv /\ LadderInv /\ BlastInv

\* No shape error means:
LEMMA ShapeIsSound ==
    ASSUME NEW p \in Policy, ShapeErrors(p) = {}
    PROVE  /\ \A i, j \in DOMAIN p.tiers : p.tiers[i].name = p.tiers[j].name => i = j
           /\ \A i \in DOMAIN p.tiers : SignalRefs(p.tiers[i].when) \subseteq p.signals
           /\ \A i \in DOMAIN p.tiers : EmptyRanges(p.tiers[i].when) = {}
<1>1. \A i \in DOMAIN p.tiers : ~RepeatedName(p.tiers, i)
  BY DEF ShapeErrors
<1>2. \A i \in DOMAIN p.tiers : SignalRefs(p.tiers[i].when) \subseteq p.signals
  BY DEF ShapeErrors
<1>3. \A i \in DOMAIN p.tiers : EmptyRanges(p.tiers[i].when) = {}
  BY DEF ShapeErrors
<1>4. ASSUME NEW i \in DOMAIN p.tiers, NEW j \in DOMAIN p.tiers, p.tiers[i].name = p.tiers[j].name
      PROVE  i = j
  <2>1. p.tiers \in Seq(Tier)
    BY DEF Policy
  <2>2. i \in Nat /\ j \in Nat /\ i >= 1 /\ j >= 1
    BY <2>1
  <2>3. ~(\E k \in 1..(i - 1) : p.tiers[k].name = p.tiers[i].name)
    BY <1>1 DEF RepeatedName
  <2>4. ~(\E k \in 1..(j - 1) : p.tiers[k].name = p.tiers[j].name)
    BY <1>1 DEF RepeatedName
  <2> QED
    BY <1>4, <2>2, <2>3, <2>4
<1> QED
  BY <1>1, <1>2, <1>3, <1>4

LEMMA ShapeType == ASSUME NEW p PROVE ShapeErrors(p) \subseteq Categories
BY DEF ShapeErrors, Categories

LEMMA TierWhen ==
    ASSUME NEW tiers \in Seq(Tier), NEW i \in DOMAIN tiers
    PROVE  tiers[i].when \in PolicyConditions
<1>1. tiers[i] \in Tier
  OBVIOUS
<1> QED
  BY <1>1 DEF Tier

\* The ladder of a policy is one the scan can take.
LEMMA LadderOfType ==
    ASSUME NEW p \in Policy, LadderOf(p) # <<>>
    PROVE  LadderOf(p) \in Seq(Comparator) /\ Scannable(LadderOf(p))
<1> DEFINE SignalAt(i) == CHOOSE s \in DOMAIN p.tiers[i].when.comparisons : TRUE
           l == [i \in DOMAIN p.tiers |-> p.tiers[i].when.comparisons[SignalAt(i)]]
<1>1. /\ LadderOf(p) = l /\ Scannable(l)
      /\ \A i \in DOMAIN p.tiers : Cardinality(DOMAIN p.tiers[i].when.comparisons) = 1
  BY DEF LadderOf
<1>2. p.tiers \in Seq(Tier)
  BY DEF Policy
<1>3. ASSUME NEW i \in DOMAIN p.tiers
      PROVE  p.tiers[i].when.comparisons[SignalAt(i)] \in Comparator
  <2>1. p.tiers[i].when \in PolicyConditions
    BY <1>2, TierWhen
  <2>2. DOMAIN p.tiers[i].when.comparisons # {}
    <3>1. PICK d : d = DOMAIN p.tiers[i].when.comparisons
      OBVIOUS
    <3>2. Cardinality(d) = 1
      BY <1>1, <3>1, Zenon
    <3>3. d = {} => Cardinality(d) = 0
      BY FS_EmptySet, Zenon
    <3> QED
      BY <3>1, <3>2, <3>3
  <2>3. SignalAt(i) \in DOMAIN p.tiers[i].when.comparisons
    BY <2>2
  <2> QED
    BY <2>1, <2>3, ConditionsAssumption DEF ConditionsAssumption
<1>4. Len(p.tiers) \in Nat /\ DOMAIN p.tiers = 1..Len(p.tiers)
  BY <1>2
<1>5. l \in [1..Len(p.tiers) -> Comparator]
  BY <1>3, <1>4
<1>6. l \in Seq(Comparator)
  <2> HIDE DEF l
  <2> QED
    BY <1>4, <1>5
<1> QED
  BY <1>1, <1>6

LEMMA CompilerInit == Init => CompilerInv
<1> SUFFICES ASSUME Init PROVE CompilerInv
  OBVIOUS
<1>1. policy \in Policy
  BY PoliciesAssumption DEF Init, PoliciesAssumption
<1>2. EmitInv
  BY <1>1 DEF Init, EmitInv, Stages
<1>3. LadderInv
  <2>1. CASE ladder = <<>>
    BY <2>1 DEF Init, LadderInv
  <2>2. CASE ladder # <<>>
    <3>1. ladder \in Seq(Comparator) /\ Scannable(ladder) /\ ScanInit
      BY <1>1, <2>2, LadderOfType DEF Init
    <3> QED
      BY <2>2, <3>1, InitInv DEF LadderInv
  <2> QED
    BY <2>1, <2>2
<1>4. BlastInv
  <2>1. /\ policy.service \in Services
        /\ policy.dependsOn \in Seq(Services) /\ policy.cascadeTo \in Seq(Services)
    BY <1>1 DEF Policy
  <2>2. PICK g : g = BlastGraph(policy.service, policy.dependsOn, policy.cascadeTo)
    OBVIOUS
  <2>3. IsGraph(g)
    BY <2>1, <2>2, PolicyGraph
  <2>4. BlastInit(g)
    BY <2>2 DEF Init
  <2> QED
    BY <2>3, <2>4, BlastInitInv
<1> QED
  BY <1>2, <1>3, <1>4 DEF CompilerInv

LEMMA LadderStep == LadderInv /\ [ScanNext]_scanVars => LadderInv'
<1> SUFFICES ASSUME LadderInv, [ScanNext]_scanVars PROVE LadderInv'
  OBVIOUS
<1>1. CASE ladder = <<>>
  <2>1. NoScan /\ next = 2 /\ Len(ladder) = 0
    BY <1>1 DEF LadderInv, NoScan
  <2>2. ~ScanNext
    BY <2>1 DEF ScanNext, ScanStep, ScanTop
  <2>3. UNCHANGED <<ladder, order, next, cursor, gaps>>
    BY <2>2 DEF scanVars
  <2> QED
    BY <1>1, <2>1, <2>3 DEF LadderInv, NoScan
<1>2. CASE ladder # <<>>
  <2>1. ScanInv
    BY <1>2 DEF LadderInv
  <2>2. ladder' = ladder
    BY DEF ScanNext, ScanStep, ScanTop, scanVars
  <2> QED
    BY <1>2, <2>1, <2>2, ScanInductive DEF LadderInv
<1> QED
  BY <1>1, <1>2

LEMMA EmitStep == EmitInv /\ [Next]_vars => EmitInv'
<1> SUFFICES ASSUME EmitInv, [Next]_vars PROVE EmitInv'
  OBVIOUS
<1>0. /\ policy' = policy /\ policy \in Policy
      /\ ShapeErrors(policy) \subseteq Categories
  BY ShapeType DEF EmitInv, Next, Validate, Scan, EndScan, Search, EndSearch, Emit, vars
<1>1. CASE Validate
  BY <1>0, <1>1 DEF EmitInv, Validate, Stages
<1>2. CASE Scan \/ Search \/ UNCHANGED vars
  BY <1>0, <1>2 DEF EmitInv, Scan, Search, vars
<1>3. CASE EndScan
  <2>1. /\ stage' = "blast" /\ stage # "validate" /\ bundle' = bundle
        /\ errors \subseteq errors' /\ errors' \subseteq errors \cup {"tier gap", "contradiction"}
    BY <1>3 DEF EndScan
  <2> QED
    BY <1>0, <2>1 DEF EmitInv, Stages, Categories
<1>4. CASE EndSearch
  <2>1. /\ stage' = "emit" /\ stage # "validate" /\ bundle' = bundle
        /\ errors \subseteq errors' /\ errors' \subseteq errors \cup {"cycle"}
    BY <1>4 DEF EndSearch
  <2> QED
    BY <1>0, <2>1 DEF EmitInv, Stages, Categories
<1>5. CASE Emit
  BY <1>0, <1>5 DEF EmitInv, Emit, Stages
<1> QED
  BY <1>1, <1>2, <1>3, <1>4, <1>5 DEF Next

LEMMA CompilerInductive == Spec => []CompilerInv
<1>1. CompilerInv /\ [Next]_vars => CompilerInv'
  <2> SUFFICES ASSUME CompilerInv, [Next]_vars PROVE CompilerInv'
    OBVIOUS
  <2>1. [ScanNext]_scanVars
    BY DEF Next, Validate, Scan, EndScan, Search, EndSearch, Emit, vars
  <2>2. [BlastStep]_blastVars
    BY DEF Next, Validate, Scan, EndScan, Search, EndSearch, Emit, vars
  <2> QED
    BY <2>1, <2>2, EmitStep, LadderStep, BlastInductive DEF CompilerInv
<1> QED
  BY <1>1, CompilerInit, PTL DEF Spec

-----------------------------------------------------------------------------
\* Types, for every policy.
THEOREM CompilerTypeCorrect == Spec => []TypeOK
<1>1. CompilerInv => TypeOK
  <2> SUFFICES ASSUME CompilerInv PROVE TypeOK
    OBVIOUS
  <2>1. ladder # <<>> => ScanTypeOK
    BY DEF CompilerInv, LadderInv, ScanInv
  <2>2. BlastTypeOK
    <3>1. SearchTypeOK
      BY DEF CompilerInv, BlastInv
    <3>2. ASSUME NEW f \in ToSet(stack)
          PROVE  f.node \in Nodes /\ f.next \in 1..(Len(graph[f.node]) + 1)
      <4>1. PICK i \in 1..Len(stack) : stack[i] = f
        BY <3>1, ElementAt DEF SearchTypeOK
      <4>2. stack[i].node \in Nodes
        BY <3>1, <4>1, Frames DEF FramesOK
      <4>3. stack[i].next \in 1..(Len(graph[stack[i].node]) + 1)
        BY <3>1, <4>1, Zenon DEF SearchTypeOK
      <4> QED
        BY <4>1, <4>2, <4>3
    <3> QED
      BY <3>1, <3>2 DEF BlastTypeOK, SearchTypeOK
  <2>3. bundle \in {<<>>, policy.tiers} /\ stage \in Stages /\ errors \subseteq Categories
    BY DEF CompilerInv, EmitInv
  <2> QED
    BY <2>1, <2>2, <2>3 DEF TypeOK, Categories
<1> QED
  BY <1>1, CompilerInductive, PTL

\* A ladder of comparators with one bound a side is accepted only if the engine finds a
\* tier for every value above the lowest bound.
THEOREM AcceptedLaddersAreCovered == Spec => []AcceptedIsCovered
<1>1. CompilerInv => AcceptedIsCovered
  <2>1. ladder = <<>> => AcceptedIsCovered
    BY DEF AcceptedIsCovered
  <2>2. CompilerInv /\ ladder # <<>> => ScanInv
    BY DEF CompilerInv, LadderInv
  <2> QED
    BY <2>1, <2>2, AcceptedByInv
<1> QED
  BY <1>1, CompilerInductive, PTL

\* No tier takes a value strictly inside a gap the compiler reports.
THEOREM GapsAreUncoveredInside == Spec => []InsideGapsIsUncovered
<1>1. CompilerInv => InsideGapsIsUncovered
  <2>1. CompilerInv /\ ladder = <<>> => gaps = {}
    BY DEF CompilerInv, LadderInv, NoScan
  <2>2. gaps = {} => InsideGapsIsUncovered
    BY DEF InsideGapsIsUncovered
  <2>3. CompilerInv /\ ladder # <<>> => ScanInv
    BY DEF CompilerInv, LadderInv
  <2> QED
    BY <2>1, <2>2, <2>3, GapsByInv
<1> QED
  BY <1>1, CompilerInductive, PTL

\* Whatever the blast radius of a policy declares, its own service, the same service twice or
\* nothing at all included, a cycle is reported exactly when there is one.
THEOREM PolicyCyclesAreFound == Spec => []CyclesAreFound
<1>1. CompilerInv => CyclesAreFound
  BY SearchIsExact DEF CompilerInv
<1> QED
  BY <1>1, CompilerInductive, PTL

\* What is known of the tiers of an emitted bundle.
LEMMA EmittedBundle ==
    ASSUME CompilerInv, bundle # <<>>
    PROVE  /\ bundle \in Seq(Tier)
           /\ \A i \in DOMAIN bundle : bundle[i].when \in PolicyConditions
           /\ \A i, j \in DOMAIN bundle : bundle[i].name = bundle[j].name => i = j
           /\ \A i \in DOMAIN bundle : SignalRefs(bundle[i].when) \subseteq policy.signals
           /\ \A i \in DOMAIN bundle : EmptyRanges(bundle[i].when) = {}
<1>1. policy \in Policy /\ bundle = policy.tiers /\ ShapeErrors(policy) = {}
  BY DEF CompilerInv, EmitInv
<1>2. bundle \in Seq(Tier)
  BY <1>1 DEF Policy
<1>3. \A i \in DOMAIN bundle : bundle[i].when \in PolicyConditions
  BY <1>2, TierWhen
<1> QED
  BY <1>1, <1>2, <1>3, ShapeIsSound

\* An emitted bundle can be run on the declared signals alone: no other changes the tier
\* it matches.
THEOREM BundlesNeedDeclaredSignals == Spec => []UndeclaredNeverMatters
<1>1. CompilerInv => UndeclaredNeverMatters
  <2> SUFFICES ASSUME CompilerInv, bundle # <<>>, NEW vals \in Snapshots
               PROVE  MatchTier(bundle, vals) = MatchTier(bundle, Known(vals, policy.signals))
    BY DEF UndeclaredNeverMatters
  <2>1. \A i \in DOMAIN bundle :
            EvalCondition(bundle[i].when, Known(vals, policy.signals)) <=> EvalCondition(bundle[i].when, vals)
    BY EmittedBundle, EvalOfKnown
  <2>2. {i \in DOMAIN bundle : EvalCondition(bundle[i].when, vals)}
            = {i \in DOMAIN bundle : EvalCondition(bundle[i].when, Known(vals, policy.signals))}
    BY <2>1, Zenon
  <2> QED
    BY <2>2, Zenon DEF MatchTier
<1> QED
  BY <1>1, CompilerInductive, PTL

\* With fewer signals known, a bundle never matches a more degraded tier.
THEOREM MissingSignalsOnlyHide == Spec => []MissingSignalsNeverDegrade
<1>1. CompilerInv => MissingSignalsNeverDegrade
  <2> SUFFICES ASSUME CompilerInv, bundle # <<>>, NEW vals \in Snapshots, NEW known \in SUBSET DOMAIN vals
               PROVE  TierIndex(bundle, MatchTier(bundle, Known(vals, known)))
                          <= TierIndex(bundle, MatchTier(bundle, vals))
    BY DEF MissingSignalsNeverDegrade
  <2>1. PICK k, m : k = MatchIndex(bundle, Known(vals, known)) /\ m = MatchIndex(bundle, vals)
    OBVIOUS
  <2>2. /\ k \in DOMAIN bundle /\ MatchTier(bundle, Known(vals, known)) = bundle[k].name
        /\ k = 1 \/ EvalCondition(bundle[k].when, Known(vals, known))
    BY <2>1, EmittedBundle, MatchIs
  <2>3. /\ m \in DOMAIN bundle /\ MatchTier(bundle, vals) = bundle[m].name
        /\ \A j \in DOMAIN bundle : EvalCondition(bundle[j].when, vals) => j <= m
    BY <2>1, EmittedBundle, MatchIs
  <2>4. k <= m
    <3>1. CASE k = 1
      <4>1. bundle \in Seq(Tier)
        BY EmittedBundle
      <4>2. m >= 1 /\ m \in Nat
        BY <2>3, <4>1
      <4> QED
        BY <3>1, <4>2
    <3>2. CASE EvalCondition(bundle[k].when, Known(vals, known))
      <4>1. EvalCondition(bundle[k].when, vals)
        BY <2>2, <3>2, EmittedBundle, EvalIsMonotonic
      <4> QED
        BY <2>2, <2>3, <4>1
    <3> QED
      BY <2>2, <3>1, <3>2
  <2>5. TierIndex(bundle, bundle[k].name) = k /\ TierIndex(bundle, bundle[m].name) = m
    BY <2>2, <2>3, EmittedBundle, NamedIndex
  <2> QED
    BY <2>2, <2>3, <2>4, <2>5
<1> QED
  BY <1>1, CompilerInductive, PTL

\* The name MatchTier returns leads back to the most degraded tier that matches.
THEOREM MatchedNamesAreFound == Spec => []NamesLeadToMatches
<1>1. CompilerInv => NamesLeadToMatches
  <2> SUFFICES ASSUME CompilerInv, bundle # <<>>, NEW vals \in Snapshots
               PROVE  LET i == TierIndex(bundle, MatchTier(bundle, vals)) IN
                      /\ i = 1 \/ EvalCondition(bundle[i].when, vals)
                      /\ \A j \in DOMAIN bundle : EvalCondition(bundle[j].when, vals) => j <= i
    BY DEF NamesLeadToMatches
  <2>1. PICK k : k = MatchIndex(bundle, vals)
    OBVIOUS
  <2>2. /\ k \in DOMAIN bundle /\ MatchTier(bundle, vals) = bundle[k].name
        /\ k = 1 \/ EvalCondition(bundle[k].when, vals)
        /\ \A j \in DOMAIN bundle : EvalCondition(bundle[j].when, vals) => j <= k
    BY <2>1, EmittedBundle, MatchIs
  <2>3. TierIndex(bundle, bundle[k].name) = k
    BY <2>2, EmittedBundle, NamedIndex
  <2> QED
    BY <2>2, <2>3
<1> QED
  BY <1>1, CompilerInductive, PTL

\* No tier of an emitted bundle has a comparator, of one bound a side, that no value satisfies.
THEOREM EmittedComparatorsAreSatisfiable == Spec => []EmittedIsSatisfiable
<1>1. CompilerInv => EmittedIsSatisfiable
  <2> SUFFICES ASSUME CompilerInv, NEW i \in DOMAIN bundle, NEW leaf \in Leaves(bundle[i].when), Plain(leaf[2])
               PROVE  \E v \in Values : Satisfies(v, leaf[2])
    BY DEF EmittedIsSatisfiable
  <2>1. bundle # <<>>
    OBVIOUS
  <2>2. bundle[i].when \in PolicyConditions /\ EmptyRanges(bundle[i].when) = {}
    BY <2>1, EmittedBundle
  <2>3. leaf[2] \in Comparator
    BY <2>2, LeavesType
  <2>4. ~EmptyRange(leaf[2])
    BY <2>2 DEF EmptyRanges
  <2> QED
    BY <2>3, <2>4, SatisfiableComparator
<1> QED
  BY <1>1, CompilerInductive, PTL

=============================================================================
