-------------------------- MODULE StorefrontProofs --------------------------
(***************************************************************************)
(* What becomes of writes and orders, for any ladder, any number of        *)
(* writes, any depth and TTL of the queue.                                 *)
(*                                                                         *)
(* 1. QueueInv: what is queued is there once, every history agrees with    *)
(*    where its writes stand, and the accepted writes that are still alive *)
(*    are the drained ones followed by the queued ones.  What an eviction  *)
(*    does to that order comes from FilteringLemmas.                       *)
(* 2. ShopInv: the sidecar serves the applied tier unless it was           *)
(*    overridden since, so an order confirmed outright had an excuse.      *)
(* 3. BufferInv and AnswersInv: which writes can stay behind in a tier     *)
(*    that does not queue them, and what the customer has been told.       *)
(***************************************************************************)
EXTENDS Storefront, FilteringLemmas, FiniteSetTheorems

\* What the elements of a sequence are, and what Append and \o make of them.
LEMMA Elements ==
    ASSUME NEW S, NEW s \in Seq(S)
    PROVE  /\ ToSet(s) \subseteq S
           /\ \A x : x \in ToSet(s) <=> \E i \in 1..Len(s) : s[i] = x
<1>1. DOMAIN s = 1..Len(s)
  OBVIOUS
<1> QED
  BY <1>1 DEF ToSet

LEMMA OneElementMore ==
    ASSUME NEW S, NEW s \in Seq(S), NEW x \in S
    PROVE  Append(s, x) \in Seq(S) /\ ToSet(Append(s, x)) = ToSet(s) \cup {x}
<1>1. PICK u \in Seq(S) : /\ u = Append(s, x) /\ Len(u) = Len(s) + 1 /\ u[Len(s) + 1] = x
                          /\ \A i \in 1..Len(s) : u[i] = s[i]
  <2>1. /\ Append(s, x) \in Seq(S) /\ Len(Append(s, x)) = Len(s) + 1 /\ Append(s, x)[Len(s) + 1] = x
        /\ \A i \in 1..Len(s) : Append(s, x)[i] = s[i]
    OBVIOUS
  <2> QED
    BY <2>1
<1>2. ASSUME NEW y PROVE y \in ToSet(u) <=> (y \in ToSet(s) \/ y = x)
  <2>1. (\E i \in 1..Len(u) : u[i] = y) <=> ((\E i \in 1..Len(s) : s[i] = y) \/ x = y)
    BY <1>1
  <2> QED
    BY <2>1, Elements
<1> QED
  BY <1>1, <1>2

LEMMA MoreElements ==
    ASSUME NEW S, NEW s \in Seq(S), NEW t \in Seq(S)
    PROVE  s \o t \in Seq(S) /\ ToSet(s \o t) = ToSet(s) \cup ToSet(t)
<1>1. PICK u \in Seq(S) : /\ u = s \o t /\ Len(u) = Len(s) + Len(t)
                          /\ \A i \in 1..Len(s) : u[i] = s[i]
                          /\ \A i \in 1..Len(t) : u[Len(s) + i] = t[i]
  <2>1. /\ s \o t \in Seq(S) /\ Len(s \o t) = Len(s) + Len(t)
        /\ \A i \in 1..Len(s) : (s \o t)[i] = s[i]
        /\ \A i \in 1..Len(t) : (s \o t)[Len(s) + i] = t[i]
    OBVIOUS
  <2> QED
    BY <2>1
<1>2. ASSUME NEW y PROVE y \in ToSet(u) <=> (y \in ToSet(s) \/ y \in ToSet(t))
  <2>1. ASSUME NEW i \in 1..Len(u) PROVE (\E k \in 1..Len(s) : s[k] = u[i]) \/ \E k \in 1..Len(t) : t[k] = u[i]
    <3>1. CASE i \in 1..Len(s)
      BY <1>1, <3>1
    <3>2. CASE i \notin 1..Len(s)
      <4>1. i - Len(s) \in 1..Len(t) /\ Len(s) + (i - Len(s)) = i
        BY <1>1, <3>2
      <4> QED
        BY <1>1, <4>1
    <3> QED
      BY <3>1, <3>2
  <2>2. ASSUME NEW i \in 1..Len(s) PROVE i \in 1..Len(u)
    BY <1>1
  <2>3. ASSUME NEW i \in 1..Len(t) PROVE Len(s) + i \in 1..Len(u)
    BY <1>1
  <2>4. y \in ToSet(u) <=> \E i \in 1..Len(u) : u[i] = y
    BY Elements
  <2>5. y \in ToSet(s) <=> \E i \in 1..Len(s) : s[i] = y
    BY Elements
  <2>6. y \in ToSet(t) <=> \E i \in 1..Len(t) : t[i] = y
    BY Elements
  <2>7. ASSUME y \in ToSet(u) PROVE y \in ToSet(s) \/ y \in ToSet(t)
    BY <2>1, <2>4, <2>5, <2>6, <2>7
  <2>8. ASSUME y \in ToSet(s) PROVE y \in ToSet(u)
    BY <1>1, <2>2, <2>4, <2>5, <2>8
  <2>9. ASSUME y \in ToSet(t) PROVE y \in ToSet(u)
    BY <1>1, <2>3, <2>4, <2>6, <2>9
  <2> QED
    BY <2>7, <2>8, <2>9
<1> QED
  BY <1>1, <1>2

LEMMA WritesOfItems ==
    ASSUME NEW s \in Seq(Item)
    PROVE  /\ WritesOf(s) \in Seq(Writes) /\ Len(WritesOf(s)) = Len(s)
           /\ \A i \in 1..Len(s) : WritesOf(s)[i] = s[i].write
           /\ ToSet(WritesOf(s)) = {x.write : x \in ToSet(s)}
<1>1. PICK n \in Nat : n = Len(s) /\ DOMAIN s = 1..n /\ \A i \in 1..n : s[i] \in Item
  OBVIOUS
<1>2. PICK u : u = [i \in 1..n |-> s[i].write]
  OBVIOUS
<1>3. \A i \in 1..n : u[i] \in Writes /\ u[i] = s[i].write
  BY <1>1, <1>2 DEF Item
<1>4. u \in Seq(Writes) /\ Len(u) = n
  BY <1>2, <1>3
<1>5. u = WritesOf(s)
  BY <1>1, <1>2 DEF WritesOf
<1>6. ASSUME NEW w PROVE w \in ToSet(u) <=> w \in {x.write : x \in ToSet(s)}
  BY <1>1, <1>3, <1>4, Elements
<1> QED
  BY <1>1, <1>3, <1>4, <1>5, <1>6

-----------------------------------------------------------------------------
Settled == {"queued", "drained", "expired", "lost"}

\* What is queued is there once, and every history agrees with where the writes stand.
QueueInv ==
    /\ QueueTypeOK
    /\ \A x, y \in ToSet(items) : x.write = y.write => x = y
    /\ \A x \in ToSet(items) : fate[x.write] = "queued"
    /\ \A w \in ToSet(drained) : fate[w] = "drained"
    /\ \A w \in ToSet(accepted) : fate[w] \in Settled
    /\ AcceptedInOrder

LEMMA KeptItems ==
    ASSUME QueueInv
    PROVE  /\ Kept \in Seq(Item) /\ Len(Kept) <= Len(items)
           /\ ToSet(Kept) = {x \in ToSet(items) : Fresh(x)}
<1>1. PICK K : K = {x \in ToSet(items) : Fresh(x)}
  OBVIOUS
<1>2. items \in Seq(Item)
  BY DEF QueueInv, QueueTypeOK
<1>3. Consists(Item, items, K, Retain(items, K), Len(items))
  BY <1>2, RetainTypes
<1>4. Kept = Retain(items, K)
  BY <1>1 DEF Kept
<1>5. Kept \in Seq(Item) /\ Len(Kept) <= Len(items)
  BY <1>3, <1>4 DEF Consists
<1>6. ASSUME NEW x PROVE x \in ToSet(Kept) <=> x \in K
  <2>1. (\E i \in 1..Len(Kept) : Kept[i] = x) <=> (x \in K /\ \E i \in 1..Len(items) : items[i] = x)
    BY <1>3, <1>4, Zenon DEF Consists
  <2> QED
    BY <1>1, <1>2, <1>5, <2>1, Elements
<1> QED
  BY <1>1, <1>5, <1>6

LEMMA EvictedWrites ==
    ASSUME QueueInv
    PROVE  /\ Evicted \subseteq Writes /\ Cardinality(Evicted) \in Nat
           /\ \A w \in Evicted : fate[w] = "queued"
           /\ \A x \in ToSet(Kept) : x.write \notin Evicted
           /\ \A x \in ToSet(items) : ~Fresh(x) => x.write \in Evicted
<1>1. items \in Seq(Item) /\ Len(items) \in Nat
  BY DEF QueueInv, QueueTypeOK
<1>2. ToSet(items) \subseteq Item
  BY <1>1, Elements
<1>3. Evicted \subseteq Writes
  BY <1>2 DEF Evicted, Item
<1>4. \A w \in Evicted : fate[w] = "queued"
  BY DEF Evicted, QueueInv
<1>5. ASSUME NEW x \in ToSet(Kept) PROVE x.write \notin Evicted
  BY KeptItems DEF Evicted, QueueInv
<1>6. Cardinality(Evicted) \in Nat
  <2>1. PICK T : T = {x.write : x \in ToSet(items)}
    OBVIOUS
  <2>2. PICK f : f = [i \in 1..Len(items) |-> items[i].write]
    OBVIOUS
  <2>3. f \in Surjection(1..Len(items), T)
    BY <1>1, <2>1, <2>2, Elements DEF Surjection
  <2>4. IsFiniteSet(1..Len(items))
    BY <1>1, FS_Interval
  <2>5. IsFiniteSet(T)
    BY <2>3, <2>4, FS_Surjection
  <2>6. Evicted \in SUBSET T
    BY <2>1 DEF Evicted
  <2> QED
    BY <2>5, <2>6, FS_Subset, FS_CardinalityType
<1> QED
  BY <1>3, <1>4, <1>5, <1>6 DEF Evicted

\* Evicting leaves the accepted writes that are alive in order: what is alive after
\* it is what was drained and what is kept.
LEMMA EvictingKeepsOrder ==
    ASSUME QueueInv
    PROVE  Retain(accepted, Alive \ Evicted) = drained \o WritesOf(Kept)
<1>1. items \in Seq(Item) /\ accepted \in Seq(Writes) /\ drained \in Seq(Writes)
  BY DEF QueueInv, QueueTypeOK
<1>2. PICK L : L = Alive \ Evicted
  OBVIOUS
<1>3. PICK u \in Seq(Writes) : /\ u = WritesOf(items) /\ Len(u) = Len(items)
                               /\ \A i \in 1..Len(items) : u[i] = items[i].write
  BY <1>1, WritesOfItems
<1>4. Retain(accepted, L) = Retain(Retain(accepted, Alive), L)
  BY <1>1, <1>2, RetainTwice
<1>5. Retain(accepted, Alive) = drained \o u
  BY <1>3 DEF QueueInv, AcceptedInOrder
<1>6. Retain(drained \o u, L) = Retain(drained, L) \o Retain(u, L)
  BY <1>1, RetainConcat
<1>7. Retain(drained, L) = drained
  <2>1. ASSUME NEW i \in 1..Len(drained) PROVE drained[i] \in L
    <3>1. PICK w \in Writes : w = drained[i]
      BY <1>1
    <3>2. w \in ToSet(drained)
      BY <1>1, <3>1, Elements
    <3>3. fate[w] = "drained"
      BY <3>2 DEF QueueInv
    <3> QED
      BY <1>2, <3>1, <3>3, EvictedWrites DEF Alive
  <2> QED
    BY <1>1, <2>1, RetainAll
<1>8. Retain(u, L) = WritesOf(Kept)
  <2>1. PICK K : K = {x \in ToSet(items) : Fresh(x)}
    OBVIOUS
  <2>2. PICK f \in [Item -> Writes] : \A x \in Item : f[x] = x.write
    <3>1. PICK g : g = [x \in Item |-> x.write]
      OBVIOUS
    <3>2. g \in [Item -> Writes] /\ \A x \in Item : g[x] = x.write
      BY <3>1 DEF Item
    <3> QED
      BY <3>2
  <2>3. ASSUME NEW i \in 1..Len(items) PROVE u[i] = f[items[i]] /\ (items[i] \in K <=> u[i] \in L)
    <3>1. PICK x \in Item : x = items[i]
      BY <1>1
    <3>2. x \in ToSet(items) /\ x.write \in Writes
      BY <1>1, <3>1, Elements DEF Item
    <3>3. fate[x.write] = "queued"
      BY <3>2 DEF QueueInv
    <3>4. x.write \in Alive
      BY <3>2, <3>3 DEF Alive
    <3>5. x \in K <=> x.write \notin Evicted
      BY <2>1, <3>2, KeptItems, EvictedWrites
    <3> QED
      BY <1>2, <1>3, <2>2, <3>1, <3>4, <3>5
  <2>4. PICK m \in Nat : m = Len(items)
    BY <1>1
  <2>5. Match(Item, Writes, Retained(items, K)[m], Retained(u, L)[m], f)
    <3>1. m <= Len(items) /\ m <= Len(u)
      BY <1>3, <2>4
    <3>2. \A i \in 1..m : u[i] = f[items[i]] /\ (items[i] \in K <=> u[i] \in L)
      BY <2>3, <2>4
    <3> QED
      BY <1>1, <3>1, <3>2, RetainPairs
  <2>6. Match(Item, Writes, Kept, Retain(u, L), f)
    BY <1>3, <2>1, <2>4, <2>5 DEF Kept, Retain
  <2>7. PICK k, v : k = Kept /\ v = Retain(u, L)
    OBVIOUS
  <2>8. k \in Seq(Item) /\ v \in Seq(Writes) /\ Len(v) = Len(k) /\ \A i \in 1..Len(k) : v[i] = f[k[i]]
    BY <2>6, <2>7 DEF Match
  <2>9. \A i \in 1..Len(k) : v[i] = k[i].write
    BY <2>2, <2>8
  <2>10. /\ WritesOf(k) \in Seq(Writes) /\ Len(WritesOf(k)) = Len(k)
         /\ \A i \in 1..Len(k) : WritesOf(k)[i] = k[i].write
    BY <2>8, WritesOfItems
  <2>11. v = WritesOf(k)
    BY <2>8, <2>9, <2>10, SeqEqual
  <2> QED
    BY <2>7, <2>11
<1> QED
  BY <1>2, <1>4, <1>5, <1>6, <1>7, <1>8

LEMMA MoreWrites ==
    ASSUME NEW k \in Seq(Item), NEW x \in Item
    PROVE  WritesOf(<<>>) = <<>> /\ WritesOf(Append(k, x)) = Append(WritesOf(k), x.write)
<1>1. WritesOf(<<>>) = <<>>
  BY DEF WritesOf
<1>2. PICK u \in Seq(Item) : /\ u = Append(k, x) /\ Len(u) = Len(k) + 1 /\ u[Len(k) + 1] = x
                             /\ \A i \in 1..Len(k) : u[i] = k[i]
  <2>1. /\ Append(k, x) \in Seq(Item) /\ Len(Append(k, x)) = Len(k) + 1 /\ Append(k, x)[Len(k) + 1] = x
        /\ \A i \in 1..Len(k) : Append(k, x)[i] = k[i]
    OBVIOUS
  <2> QED
    BY <2>1
<1>3. PICK p : p = WritesOf(k)
  OBVIOUS
<1>4. p \in Seq(Writes) /\ Len(p) = Len(k) /\ \A i \in 1..Len(k) : p[i] = k[i].write
  BY <1>3, WritesOfItems
<1>5. PICK q : q = WritesOf(u)
  OBVIOUS
<1>6. q \in Seq(Writes) /\ Len(q) = Len(u) /\ \A i \in 1..Len(u) : q[i] = u[i].write
  BY <1>5, WritesOfItems
<1>7. x.write \in Writes
  BY DEF Item
<1>8. PICK v \in Seq(Writes) : /\ v = Append(p, x.write) /\ Len(v) = Len(p) + 1 /\ v[Len(p) + 1] = x.write
                               /\ \A i \in 1..Len(p) : v[i] = p[i]
  <2>1. /\ Append(p, x.write) \in Seq(Writes) /\ Len(Append(p, x.write)) = Len(p) + 1
        /\ Append(p, x.write)[Len(p) + 1] = x.write
        /\ \A i \in 1..Len(p) : Append(p, x.write)[i] = p[i]
    BY <1>4, <1>7
  <2> QED
    BY <2>1
<1>9. ASSUME NEW i \in 1..Len(q) PROVE q[i] = v[i]
  <2>1. CASE i \in 1..Len(k)
    BY <2>1, <1>2, <1>4, <1>6, <1>8
  <2>2. CASE i = Len(k) + 1
    BY <2>2, <1>2, <1>4, <1>6, <1>8
  <2> QED
    BY <2>1, <2>2, <1>2, <1>6
<1>10. Len(q) = Len(v)
  BY <1>2, <1>4, <1>6, <1>8
<1>11. q = v
  BY <1>6, <1>9, <1>10, SeqEqual
<1> QED
  BY <1>1, <1>2, <1>3, <1>5, <1>8, <1>11

-----------------------------------------------------------------------------
LEMMA QueueInitInv == QueueInit => QueueInv
<1> SUFFICES ASSUME QueueInit PROVE QueueInv
  OBVIOUS
<1>1. QueueTypeOK
  BY QueueAssumption DEF QueueInit, QueueTypeOK, QueueAssumption, Fates, Item
<1>2. ToSet(<<>>) = {}
  BY DEF ToSet
<1>3. Retain(<<>>, Alive) = <<>>
  <2>1. <<>> \in Seq(Writes) /\ \A i \in 1..Len(<<>>) : <<>>[i] \notin Alive
    OBVIOUS
  <2> QED
    BY <2>1, RetainNone, Zenon
<1>4. <<>> \o WritesOf(<<>>) = <<>>
  BY DEF WritesOf
<1> QED
  BY <1>1, <1>2, <1>3, <1>4 DEF QueueInit, QueueInv, AcceptedInOrder

LEMMA DepthStep ==
    ASSUME QueueInv, Depth
    PROVE  QueueInv'
<1>1. /\ items' = Kept /\ accepted' = accepted /\ drained' = drained
      /\ dropped' = dropped + Cardinality(Evicted)
      /\ \A w \in Writes : fate'[w] = IF w \in Evicted THEN "expired" ELSE fate[w]
      /\ fate' \in [Writes -> Fates]
  BY DEF Depth, Become, QueueInv, QueueTypeOK, Fates
<1>2. QueueTypeOK'
  <2>1. items' \in Seq(Item) /\ Len(items') <= MaxDepth
    BY <1>1, KeptItems, QueueAssumption DEF QueueInv, QueueTypeOK, QueueAssumption
  <2>2. dropped' \in Nat
    BY <1>1, EvictedWrites DEF QueueInv, QueueTypeOK
  <2> QED
    BY <1>1, <2>1, <2>2 DEF QueueInv, QueueTypeOK
<1>3. items \in Seq(Item) /\ accepted \in Seq(Writes) /\ drained \in Seq(Writes)
  BY DEF QueueInv, QueueTypeOK
<1>4. ToSet(items) \subseteq Item /\ ToSet(drained) \subseteq Writes /\ ToSet(accepted) \subseteq Writes
  BY <1>3, Elements
<1>5. Alive' = Alive \ Evicted
  BY <1>1, EvictedWrites DEF Alive
<1>6. AcceptedInOrder'
  BY <1>1, <1>5, EvictingKeepsOrder DEF AcceptedInOrder
<1>7. \A x \in ToSet(items') : fate'[x.write] = "queued"
  BY <1>1, <1>4, KeptItems, EvictedWrites DEF QueueInv, Item
<1>8. \A x, y \in ToSet(items') : x.write = y.write => x = y
  BY <1>1, KeptItems DEF QueueInv
<1>9. \A w \in ToSet(drained') : fate'[w] = "drained"
  BY <1>1, <1>4, EvictedWrites DEF QueueInv
<1>10. \A w \in ToSet(accepted') : fate'[w] \in Settled
  BY <1>1, <1>4, EvictedWrites DEF QueueInv, Settled
<1> QED
  BY <1>2, <1>6, <1>7, <1>8, <1>9, <1>10 DEF QueueInv

LEMMA DrainStep ==
    ASSUME QueueInv, Drain
    PROVE  QueueInv'
<1>1. PICK p : p = WritesOf(Kept)
  OBVIOUS
<1>2. p \in Seq(Writes) /\ ToSet(p) = {x.write : x \in ToSet(Kept)}
  BY <1>1, KeptItems, WritesOfItems
<1>3. /\ items' = <<>> /\ accepted' = accepted /\ drained' = drained \o p
      /\ dropped' = dropped + Cardinality(Evicted)
      /\ \A w \in Writes : fate'[w] = IF w \in Evicted THEN "expired"
                                      ELSE IF w \in ToSet(p) THEN "drained" ELSE fate[w]
      /\ fate' \in [Writes -> Fates]
  BY <1>1 DEF Drain, Become, QueueInv, QueueTypeOK, Fates
<1>4. items \in Seq(Item) /\ accepted \in Seq(Writes) /\ drained \in Seq(Writes)
  BY DEF QueueInv, QueueTypeOK
<1>5. ToSet(items) \subseteq Item /\ ToSet(drained) \subseteq Writes /\ ToSet(accepted) \subseteq Writes
  BY <1>4, Elements
<1>6. \A w \in ToSet(p) : w \in Writes /\ fate[w] = "queued" /\ w \notin Evicted
  BY <1>2, <1>5, KeptItems, EvictedWrites DEF QueueInv, Item
<1>7. PICK d \in Seq(Writes) : d = drained \o p /\ ToSet(d) = ToSet(drained) \cup ToSet(p)
  <2>1. drained \o p \in Seq(Writes) /\ ToSet(drained \o p) = ToSet(drained) \cup ToSet(p)
    BY <1>2, <1>4, MoreElements
  <2> QED
    BY <2>1
<1>8. QueueTypeOK'
  BY <1>3, <1>4, <1>7, EvictedWrites, QueueAssumption DEF QueueInv, QueueTypeOK, QueueAssumption
<1>9. ToSet(items') = {}
  BY <1>3 DEF ToSet
<1>10. Alive' = Alive \ Evicted
  BY <1>3, <1>6, EvictedWrites DEF Alive
<1>11. AcceptedInOrder'
  <2>1. Retain(accepted', Alive') = d
    BY <1>1, <1>3, <1>7, <1>10, EvictingKeepsOrder
  <2>2. d \o <<>> = d
    BY ConcatEmptySeq
  <2>3. WritesOf(items') = <<>>
    BY <1>3 DEF WritesOf
  <2> QED
    BY <1>3, <1>7, <2>1, <2>2, <2>3 DEF AcceptedInOrder
<1>12. \A w \in ToSet(drained') : fate'[w] = "drained"
  BY <1>3, <1>5, <1>6, <1>7, EvictedWrites DEF QueueInv
<1>13. \A w \in ToSet(accepted') : fate'[w] \in Settled
  BY <1>3, <1>5, <1>6, EvictedWrites DEF QueueInv, Settled
<1> QED
  BY <1>8, <1>9, <1>11, <1>12, <1>13 DEF QueueInv

LEMMA EnqueueStep ==
    ASSUME QueueInv, NEW w \in Writes, fate[w] = "admitted", Enqueue(w)
    PROVE  QueueInv'
<1>1. items \in Seq(Item) /\ accepted \in Seq(Writes) /\ drained \in Seq(Writes)
  BY DEF QueueInv, QueueTypeOK
<1>2. ToSet(items) \subseteq Item /\ ToSet(drained) \subseteq Writes /\ ToSet(accepted) \subseteq Writes
  BY <1>1, Elements
<1>3. w \notin Evicted /\ w \notin ToSet(accepted) /\ w \notin ToSet(drained) /\ w \in Alive
      /\ \A x \in ToSet(items) : x.write # w
  BY EvictedWrites DEF QueueInv, Settled, Alive
<1>4. CASE Len(Kept) >= MaxDepth
  <2>1. /\ items' = Kept /\ accepted' = accepted /\ drained' = drained
        /\ dropped' = dropped + Cardinality(Evicted) + 1
        /\ \A v \in Writes : fate'[v] = IF v = w THEN "refused" ELSE IF v \in Evicted THEN "expired" ELSE fate[v]
        /\ fate' \in [Writes -> Fates]
    BY <1>4 DEF Enqueue, Become, QueueInv, QueueTypeOK, Fates
  <2>2. QueueTypeOK'
    <3>1. items' \in Seq(Item) /\ Len(items') <= MaxDepth
      BY <2>1, KeptItems, QueueAssumption DEF QueueInv, QueueTypeOK, QueueAssumption
    <3>2. dropped' \in Nat
      BY <2>1, EvictedWrites DEF QueueInv, QueueTypeOK
    <3> QED
      BY <2>1, <3>1, <3>2 DEF QueueInv, QueueTypeOK
  <2>3. Alive' = Alive \ Evicted
    BY <1>3, <2>1, EvictedWrites DEF Alive
  <2>4. AcceptedInOrder'
    BY <2>1, <2>3, EvictingKeepsOrder DEF AcceptedInOrder
  <2>5. \A x \in ToSet(items') : fate'[x.write] = "queued"
    BY <1>2, <1>3, <2>1, KeptItems, EvictedWrites DEF QueueInv, Item
  <2>6. \A x, y \in ToSet(items') : x.write = y.write => x = y
    BY <2>1, KeptItems DEF QueueInv
  <2>7. \A v \in ToSet(drained') : fate'[v] = "drained"
    BY <1>2, <1>3, <2>1, EvictedWrites DEF QueueInv
  <2>8. \A v \in ToSet(accepted') : fate'[v] \in Settled
    BY <1>2, <1>3, <2>1, EvictedWrites DEF QueueInv, Settled
  <2> QED
    BY <2>2, <2>4, <2>5, <2>6, <2>7, <2>8 DEF QueueInv
<1>5. CASE ~(Len(Kept) >= MaxDepth)
  <2>1. PICK x \in Item : x = [write |-> w, age |-> 0] /\ x.write = w
    <3>1. [write |-> w, age |-> 0] \in Item /\ [write |-> w, age |-> 0].write = w
      BY QueueAssumption DEF QueueAssumption, Item
    <3> QED
      BY <3>1
  <2>2. PICK k \in Seq(Item) : k = Kept
    BY KeptItems
  <2>3. /\ items' = Append(k, x) /\ accepted' = Append(accepted, w) /\ drained' = drained
        /\ dropped' = dropped + Cardinality(Evicted)
        /\ \A v \in Writes : fate'[v] = IF v = w THEN "queued" ELSE IF v \in Evicted THEN "expired" ELSE fate[v]
        /\ fate' \in [Writes -> Fates]
    BY <1>5, <2>1, <2>2 DEF Enqueue, Become, QueueInv, QueueTypeOK, Fates
  <2>4. items' \in Seq(Item) /\ Len(items') = Len(k) + 1 /\ ToSet(items') = ToSet(k) \cup {x}
    BY <2>3, OneElementMore, AppendProperties
  <2>5. accepted' \in Seq(Writes) /\ ToSet(accepted') = ToSet(accepted) \cup {w}
    BY <1>1, <2>3, OneElementMore
  <2>6. QueueTypeOK'
    <3>1. Len(items') <= MaxDepth
      BY <1>5, <2>2, <2>4, QueueAssumption DEF QueueAssumption
    <3> QED
      BY <2>3, <2>4, <2>5, <3>1, EvictedWrites DEF QueueInv, QueueTypeOK
  <2>7. Alive' = Alive \ Evicted
    BY <1>3, <2>3, EvictedWrites DEF Alive
  <2>8. AcceptedInOrder'
    <3>1. PICK L : L = Alive \ Evicted
      OBVIOUS
    <3>2. PICK p \in Seq(Writes) : p = WritesOf(k)
      BY WritesOfItems
    <3>3. Retain(accepted, L) = drained \o p
      BY <2>2, <3>1, <3>2, EvictingKeepsOrder
    <3>4. w \in L
      BY <1>3, <3>1
    <3>5. Retain(Append(accepted, w), L) = Append(Retain(accepted, L), w)
      BY <1>1, <3>4, RetainAppend
    <3>6. Append(drained \o p, w) = drained \o Append(p, w)
      <4>1. Shifts(drained, p, w)
        BY <1>1, ConcatShifts
      <4> QED
        BY <4>1 DEF Shifts
    <3>7. WritesOf(Append(k, x)) = Append(p, w)
      BY <2>1, <3>2, MoreWrites
    <3> QED
      BY <2>3, <2>7, <3>1, <3>3, <3>5, <3>6, <3>7 DEF AcceptedInOrder
  <2>9. \A y \in ToSet(items') : fate'[y.write] = "queued"
    BY <1>2, <1>3, <2>1, <2>2, <2>3, <2>4, KeptItems, EvictedWrites DEF QueueInv, Item
  <2>10. \A y, z \in ToSet(items') : y.write = z.write => y = z
    BY <1>3, <2>1, <2>2, <2>4, KeptItems DEF QueueInv
  <2>11. \A v \in ToSet(drained') : fate'[v] = "drained"
    BY <1>2, <1>3, <2>3, EvictedWrites DEF QueueInv
  <2>12. \A v \in ToSet(accepted') : fate'[v] \in Settled
    BY <1>2, <1>3, <2>3, <2>5, EvictedWrites DEF QueueInv, Settled
  <2> QED
    BY <2>6, <2>8, <2>9, <2>10, <2>11, <2>12 DEF QueueInv
<1> QED
  BY <1>4, <1>5

\* Time changes ages only.
LEMMA AgeStep ==
    ASSUME QueueInv, Age
    PROVE  QueueInv' /\ ToSet(WritesOf(items))' = ToSet(WritesOf(items))
<1> DEFINE Older(x) == [x EXCEPT !.age = IF @ < TTL THEN @ + 1 ELSE @]
<1>1. PICK n \in Nat : /\ n = Len(items) /\ DOMAIN items = 1..n /\ \A i \in 1..n : items[i] \in Item
                       /\ items \in Seq(Item)
  BY DEF QueueInv, QueueTypeOK
<1>2. ASSUME NEW x \in Item PROVE Older(x) \in Item /\ Older(x).write = x.write
  BY QueueAssumption DEF QueueAssumption, Item
<1>3. PICK u : u = [i \in 1..n |-> Older(items[i])] /\ u = items'
  BY <1>1 DEF Age
<1> HIDE DEF Older
<1>4. u \in Seq(Item) /\ Len(u) = n /\ \A i \in 1..n : u[i] = Older(items[i])
  BY <1>1, <1>2, <1>3
<1>5. \A x : x \in ToSet(u) <=> \E y \in ToSet(items) : x = Older(y)
  BY <1>1, <1>4, Elements
<1>6. ToSet(items) \subseteq Item
  BY <1>1, Elements
<1>7. QueueTypeOK'
  BY <1>1, <1>3, <1>4 DEF Age, QueueInv, QueueTypeOK
<1>8. WritesOf(u) = WritesOf(items)
  <2>1. PICK p, q : p = WritesOf(u) /\ q = WritesOf(items)
    OBVIOUS
  <2>2. p \in Seq(Writes) /\ Len(p) = n /\ \A i \in 1..n : p[i] = u[i].write
    BY <1>4, <2>1, WritesOfItems
  <2>3. q \in Seq(Writes) /\ Len(q) = n /\ \A i \in 1..n : q[i] = items[i].write
    BY <1>1, <2>1, WritesOfItems
  <2>4. \A i \in 1..Len(p) : p[i] = q[i]
    BY <1>1, <1>2, <1>4, <2>2, <2>3
  <2> QED
    BY <2>1, <2>2, <2>3, <2>4, SeqEqual
<1>9. AcceptedInOrder'
  BY <1>3, <1>8 DEF Age, AcceptedInOrder, QueueInv, Alive
<1>10. UNCHANGED <<fate, accepted, drained>>
  BY DEF Age
<1>11. \A x, y \in ToSet(u) : x.write = y.write => x = y
  BY <1>2, <1>5, <1>6 DEF QueueInv
<1>12. \A x \in ToSet(u) : fate[x.write] = "queued"
  BY <1>2, <1>5, <1>6 DEF QueueInv
<1> QED
  BY <1>3, <1>7, <1>8, <1>9, <1>10, <1>11, <1>12 DEF QueueInv

LEMMA PostStep ==
    ASSUME QueueInv, NEW w \in Writes, Post(w)
    PROVE  QueueInv'
<1>1. /\ UNCHANGED <<items, dropped, accepted, drained>> /\ fate[w] = "new"
      /\ \A v \in Writes \ {w} : fate'[v] = fate[v]
      /\ fate'[w] \in {"admitted", "conflict"} /\ fate' \in [Writes -> Fates]
  BY DEF Post, QueueInv, QueueTypeOK, Fates
<1>2. items \in Seq(Item) /\ accepted \in Seq(Writes) /\ drained \in Seq(Writes)
  BY DEF QueueInv, QueueTypeOK
<1>3. ToSet(items) \subseteq Item /\ ToSet(drained) \subseteq Writes /\ ToSet(accepted) \subseteq Writes
  BY <1>2, Elements
<1>4. Alive' = Alive
  BY <1>1 DEF Alive
<1>5. AcceptedInOrder'
  BY <1>1, <1>4 DEF AcceptedInOrder, QueueInv
<1> QED
  BY <1>1, <1>3, <1>5 DEF QueueInv, QueueTypeOK, Settled, Item

LEMMA RestartStep ==
    ASSUME QueueInv, Restart
    PROVE  QueueInv'
<1>1. /\ items' = <<>> /\ dropped' = 0 /\ accepted' = accepted /\ drained' = drained
      /\ \A w \in Writes : fate'[w] = IF fate[w] \in {"admitted", "queued"} THEN "lost" ELSE fate[w]
      /\ fate' \in [Writes -> Fates]
  BY DEF Restart, Become, InState, QueueInv, QueueTypeOK, Fates
<1>2. items \in Seq(Item) /\ accepted \in Seq(Writes) /\ drained \in Seq(Writes)
  BY DEF QueueInv, QueueTypeOK
<1>3. ToSet(items) \subseteq Item /\ ToSet(drained) \subseteq Writes /\ ToSet(accepted) \subseteq Writes
  BY <1>2, Elements
<1>4. QueueTypeOK'
  BY <1>1, <1>2, QueueAssumption DEF QueueTypeOK, QueueAssumption
<1>5. AcceptedInOrder'
  <2>1. PICK L : L = Alive'
    OBVIOUS
  <2>2. L \subseteq Alive
    BY <1>1, <2>1 DEF Alive
  <2>3. PICK u \in Seq(Writes) : u = WritesOf(items) /\ ToSet(u) = {x.write : x \in ToSet(items)}
    BY <1>2, WritesOfItems
  <2>4. Retain(accepted, L) = Retain(Retain(accepted, Alive), L)
    BY <1>2, <2>2, RetainTwice
  <2>5. Retain(accepted, Alive) = drained \o u
    BY <2>3 DEF QueueInv, AcceptedInOrder
  <2>6. Retain(drained \o u, L) = Retain(drained, L) \o Retain(u, L)
    BY <1>2, RetainConcat
  <2>7. Retain(drained, L) = drained
    <3>1. ASSUME NEW i \in 1..Len(drained) PROVE drained[i] \in L
      <4>1. PICK w \in Writes : w = drained[i]
        BY <1>2
      <4>2. fate[w] = "drained"
        BY <1>2, <4>1, Elements DEF QueueInv
      <4> QED
        BY <1>1, <2>1, <4>1, <4>2 DEF Alive
    <3> QED
      BY <1>2, <3>1, RetainAll
  <2>8. Retain(u, L) = <<>>
    <3>1. ASSUME NEW i \in 1..Len(u) PROVE u[i] \notin L
      <4>1. PICK w \in Writes : w = u[i]
        OBVIOUS
      <4>2. w \in ToSet(u)
        BY <4>1, Elements
      <4>3. fate[w] = "queued"
        BY <2>3, <4>2 DEF QueueInv
      <4> QED
        BY <1>1, <2>1, <4>1, <4>3 DEF Alive
    <3> QED
      BY <3>1, RetainNone
  <2>9. WritesOf(items') = <<>>
    BY <1>1 DEF WritesOf
  <2> QED
    BY <1>1, <2>1, <2>4, <2>5, <2>6, <2>7, <2>8, <2>9 DEF AcceptedInOrder
<1>6. ToSet(items') = {}
  BY <1>1 DEF ToSet
<1> QED
  BY <1>1, <1>3, <1>4, <1>5, <1>6 DEF QueueInv, Settled

-----------------------------------------------------------------------------
\* Between transitions the flags are those of the applied tier, unless the sidecar
\* itself was overridden.
SidecarFollows == direct \/ sidecar = applied

\* An order under way in full service, or under flags not the enforcer's.
Excused == (direct \/ applied \in FullTiers) => Open \subseteq mayBuy

ShopInv ==
    /\ direct \in BOOLEAN
    /\ sidecar \in Tiers
    /\ order \in [Orders -> Stages]
    /\ SidecarFollows
    /\ Excused
    /\ ConfirmedByMode

LEMMA FirstTier == 1 \in Tiers
  BY TiersAssumption DEF TiersAssumption, Tiers

LEMMA ShopInitInv == ShopInit => ShopInv
  BY FirstTier DEF ShopInit, Init, ShopInv, SidecarFollows, Excused, ConfirmedByMode, Open, Stages

\* Telling one order something opens at most that order.
LEMMA TellStages ==
    ASSUME order \in [Orders -> Stages], NEW w \in Orders, NEW what \in Stages, Tell(w, what)
    PROVE  /\ order' \in [Orders -> Stages]
           /\ \A x \in Orders : order'[x] = IF x = w THEN what ELSE order[x]
  BY DEF Tell

\* The enforcer, the sidecar's own override and a restart.
LEMMA EngineSteps ==
    ASSUME ShopInv, (\E t \in Tiers : Transition(t) \/ OverrideSidecar(t)) \/ ShopRestart
    PROVE  ShopInv'
<1>1. ASSUME NEW t \in Tiers, Transition(t) PROVE ShopInv'
  <2>1. applied' = t /\ sidecar' = t /\ direct' = FALSE /\ UNCHANGED order
    BY <1>1 DEF Transition, ApplyTier, SetTier
  <2>2. mayBuy' = IF t \in FullTiers THEN mayBuy \cup Open ELSE mayBuy
    BY <1>1 DEF Transition
  <2> QED
    BY <2>1, <2>2 DEF ShopInv, SidecarFollows, Excused, ConfirmedByMode, Open, FullTiers, FlagMode
<1>2. ASSUME NEW t \in Tiers, OverrideSidecar(t) PROVE ShopInv'
  BY <1>2 DEF OverrideSidecar, SetTier, vars, ShopInv, SidecarFollows, Excused,
              ConfirmedByMode, Open, FullTiers, FlagMode
<1>3. CASE ShopRestart
  <2>1. applied' = 1 /\ sidecar' = 1 /\ direct' = FALSE /\ UNCHANGED order
    BY <1>3 DEF ShopRestart, Restart, SetTier
  <2>2. mayBuy' = IF 1 \in FullTiers THEN mayBuy \cup Open ELSE mayBuy
    BY <1>3 DEF ShopRestart
  <2> QED
    BY FirstTier, <2>1, <2>2 DEF ShopInv, SidecarFollows, Excused, ConfirmedByMode, Open, FullTiers, FlagMode
<1> QED
  BY <1>1, <1>2, <1>3

\* What changes neither tier nor orders.
LEMMA QueueSteps ==
    ASSUME ShopInv, UNCHANGED <<applied, shopVars>>
    PROVE  ShopInv'
  BY DEF ShopInv, SidecarFollows, Excused, ConfirmedByMode, Open, shopVars, FullTiers, FlagMode

\* Only reading the flags confirms an order without excusing it.
LEMMA CheckoutSteps ==
    ASSUME ShopInv, NEW w \in Orders, Checkout(w)
    PROVE  ShopInv'
<1> USE DEF ShopInv
<1>0. UNCHANGED <<applied, sidecar, direct>>
  BY DEF Checkout, Place, ReadFlags, FailOpen, Panic, HearAnswer, GiveUp, vars
<1>1. CASE Place(w)
  <2>1. order' \in [Orders -> Stages] /\ \A x \in Orders : order'[x] = IF x = w THEN "placed" ELSE order[x]
    BY <1>1, TellStages DEF Place, Stages
  <2>2. mayBuy' = IF applied \in FullTiers \/ direct THEN mayBuy \cup {w} ELSE mayBuy
    BY <1>1 DEF Place
  <2> QED
    BY <1>0, <2>1, <2>2 DEF SidecarFollows, Excused, ConfirmedByMode, Open, FullTiers, FlagMode
<1>2. CASE ReadFlags(w)
  <2>1. /\ Tell(w, CASE FlagMode(sidecar) = "static_fallback" -> "fallback"
                    [] FlagMode(sidecar) = "read_only"       -> "sent"
                    [] OTHER                                 -> "confirmed")
        /\ order[w] = "placed" /\ mayBuy' = mayBuy
    BY <1>2 DEF ReadFlags
  <2>2. FlagMode(sidecar) \in {"full_service", "read_only", "static_fallback"}
    BY StorefrontAssumption DEF StorefrontAssumption, FlagMode
  <2>3. CASE sidecar \in FullTiers
    <3>1. Tell(w, "confirmed")
      BY <2>1, <2>3 DEF FullTiers
    <3>2. w \in mayBuy
      BY <2>1, <2>3 DEF SidecarFollows, Excused, Open
    <3>3. order' \in [Orders -> Stages] /\ \A x \in Orders : order'[x] = IF x = w THEN "confirmed" ELSE order[x]
      BY <3>1, TellStages DEF Stages
    <3>4. Open' \subseteq Open
      BY <3>3 DEF Open
    <3> QED
      BY <1>0, <2>1, <3>2, <3>3, <3>4 DEF SidecarFollows, Excused, ConfirmedByMode, FullTiers, FlagMode
  <2>4. CASE sidecar \notin FullTiers
    <3>1. PICK what \in {"fallback", "sent"} : Tell(w, what)
      BY <2>1, <2>2, <2>4 DEF FullTiers
    <3>2. \A x \in Orders : order'[x] = IF x = w THEN what ELSE order[x]
      BY <3>1, TellStages DEF Stages
    <3>3. order' \in [Orders -> Stages]
      BY <3>1, TellStages DEF Stages
    <3>4. Open' \subseteq Open
      BY <2>1, <3>2 DEF Open
    <3> QED
      BY <1>0, <2>1, <3>2, <3>3, <3>4
      DEF SidecarFollows, Excused, ConfirmedByMode, FullTiers, FlagMode
  <2> QED
    BY <2>3, <2>4
<1>3. CASE FailOpen(w)
  <2>1. Tell(w, "confirmed") /\ mayBuy' = mayBuy \cup {w}
    BY <1>3 DEF FailOpen
  <2>2. order' \in [Orders -> Stages] /\ \A x \in Orders : order'[x] = IF x = w THEN "confirmed" ELSE order[x]
    BY <2>1, TellStages DEF Stages
  <2>3. Open' \subseteq Open
    BY <2>2 DEF Open
  <2> QED
    BY <1>0, <2>1, <2>2, <2>3 DEF SidecarFollows, Excused, ConfirmedByMode, FullTiers, FlagMode
<1>4. CASE Panic(w) \/ HearAnswer(w) \/ GiveUp(w)
  <2>1. /\ order[w] \in {"placed", "sent"} /\ mayBuy' = mayBuy
        /\ \E what \in {"broken", "rejected", "queued", "unanswered"} : Tell(w, what)
    BY <1>4 DEF Panic, HearAnswer, GiveUp
  <2>2. PICK what \in {"broken", "rejected", "queued", "unanswered"} : Tell(w, what)
    BY <2>1
  <2>3. order' \in [Orders -> Stages] /\ \A x \in Orders : order'[x] = IF x = w THEN what ELSE order[x]
    BY <2>2, TellStages DEF Stages
  <2>4. Open' \subseteq Open
    BY <2>3 DEF Open
  <2> QED
    BY <1>0, <2>1, <2>3, <2>4 DEF SidecarFollows, Excused, ConfirmedByMode, FullTiers, FlagMode
<1> QED
  BY <1>1, <1>2, <1>3, <1>4 DEF Checkout

-----------------------------------------------------------------------------
\* Flags, orders and excuses together, the invariant of the argument above.
THEOREM ShopInvariant == ShopSpec => []ShopInv
<1>1. ShopInv /\ [ShopNext]_allVars => ShopInv'
  <2> SUFFICES ASSUME ShopInv, [ShopNext]_allVars PROVE ShopInv'
    OBVIOUS
  <2>1. CASE \/ \E t \in Tiers : Transition(t) \/ OverrideSidecar(t)
             \/ ShopRestart
    BY <2>1, EngineSteps
  <2>2. ASSUME NEW w \in Writes, ServeWrite(w) PROVE ShopInv'
    BY <2>2, QueueSteps DEF ServeWrite, Post, Store
  <2>3. CASE (ReadDepth \/ Pass) /\ UNCHANGED shopVars
    BY <2>3, QueueSteps DEF ReadDepth, Pass
  <2>4. ASSUME NEW w \in Orders, Checkout(w) PROVE ShopInv'
    BY <2>4, CheckoutSteps
  <2>5. CASE UNCHANGED allVars
    BY <2>5, QueueSteps DEF allVars, vars
  <2> QED
    BY <2>1, <2>2, <2>3, <2>4, <2>5 DEF ShopNext
<1> QED
  BY <1>1, ShopInitInv, PTL DEF ShopSpec

\* No order is confirmed outright unless full service was in force at some moment
\* since it was placed, for any ladder, modes, orders and queue, but for overridden
\* and unreachable sidecars.
THEOREM OrdersAreConfirmedByMode == ShopSpec => []ConfirmedByMode
BY ShopInvariant, PTL DEF ShopInv

-----------------------------------------------------------------------------
\* What a step of the shop's world can be, for the queue and the applied tier.
Quiet ==
    \/ \E t \in Tiers : ApplyTier(t)
    \/ Restart \/ ReadDepth \/ Pass
    \/ \E w \in Writes : Store(w)
    \/ UNCHANGED vars

BufferStep == Quiet \/ \E w \in Writes : Post(w)

\* In tiers that do not queue writes, whatever is queued or admitted is a leftover.
BufferInv ==
    /\ QueueInv
    /\ applied \in Tiers
    /\ overtaken \subseteq Writes
    /\ applied \notin QueueTiers => ToSet(WritesOf(items)) \cup InState("admitted") \subseteq overtaken

LEMMA StepsOfTheBuffer == [ShopNext]_allVars => BufferStep
  BY DEF ShopNext, allVars, BufferStep, Quiet, Transition, OverrideSidecar, ShopRestart, ServeWrite, Checkout,
         Place, ReadFlags, FailOpen, Panic, HearAnswer, GiveUp

LEMMA QueuedWrites ==
    ASSUME QueueInv
    PROVE  ToSet(WritesOf(items)) = {x.write : x \in ToSet(items)} /\ ToSet(WritesOf(items)) \subseteq Writes
<1>1. items \in Seq(Item)
  BY DEF QueueInv, QueueTypeOK
<1> QED
  BY <1>1, WritesOfItems, Elements DEF Item

LEMMA BufferInitInv == Init => BufferInv
<1> SUFFICES ASSUME Init PROVE BufferInv
  OBVIOUS
<1>1. QueueInv
  BY QueueInitInv DEF Init
<1>2. ToSet(WritesOf(items)) = {} /\ InState("admitted") = {}
  BY DEF Init, QueueInit, WritesOf, ToSet, InState
<1> QED
  BY <1>1, <1>2, FirstTier DEF Init, BufferInv

LEMMA BufferStepInv == BufferInv /\ BufferStep => BufferInv'
<1> SUFFICES ASSUME BufferInv, BufferStep PROVE BufferInv'
  OBVIOUS
<1>0. QueueInv /\ overtaken \subseteq Writes /\ fate \in [Writes -> Fates]
  BY DEF BufferInv, QueueInv, QueueTypeOK
<1>1. ASSUME NEW t \in Tiers, ApplyTier(t) PROVE BufferInv'
  <2>1. CASE t \in QueueTiers
    BY <1>0, <1>1, <2>1, DepthStep DEF ApplyTier, BufferInv
  <2>2. CASE t \notin QueueTiers /\ applied \in QueueTiers
    <3>1. Drain /\ overtaken' = overtaken \cup InState("admitted") /\ applied' = t
      BY <1>1, <2>2 DEF ApplyTier
    <3>2. QueueInv'
      BY <1>0, <3>1, DrainStep
    <3>3. ToSet(WritesOf(items))' = {}
      BY <3>1 DEF Drain, WritesOf, ToSet
    <3>4. InState("admitted")' \subseteq InState("admitted")
      BY <1>0, <3>1 DEF Drain, InState, Become
    <3>5. InState("admitted") \subseteq Writes
      BY DEF InState
    <3> QED
      BY <1>0, <3>1, <3>2, <3>3, <3>4, <3>5 DEF BufferInv
  <2>3. CASE t \notin QueueTiers /\ applied \notin QueueTiers
    <3>1. UNCHANGED <<items, dropped, fate, accepted, drained, overtaken>> /\ applied' = t
      BY <1>1, <2>3 DEF ApplyTier, queueVars
    <3> QED
      BY <2>3, <3>1 DEF BufferInv, QueueInv, QueueTypeOK, AcceptedInOrder, Alive, InState
  <2> QED
    BY <2>1, <2>2, <2>3
<1>2. CASE Restart
  <2>1. QueueInv'
    BY <1>0, <1>2, RestartStep
  <2>2. ToSet(WritesOf(items))' = {} /\ InState("admitted")' = {}
    BY <1>0, <1>2 DEF Restart, WritesOf, ToSet, InState, Become
  <2> QED
    BY <1>0, <1>2, <2>1, <2>2, FirstTier DEF Restart, BufferInv
<1>3. CASE ReadDepth
  <2>1. QueueInv' /\ Depth /\ UNCHANGED <<applied, overtaken>>
    BY <1>0, <1>3, DepthStep DEF ReadDepth
  <2>2. ToSet(WritesOf(items))' \subseteq ToSet(WritesOf(items))
    <3>1. items \in Seq(Item) /\ items' = Kept
      BY <1>0, <2>1 DEF QueueInv, QueueTypeOK, Depth
    <3> QED
      BY <1>0, <3>1, KeptItems, WritesOfItems
  <2>3. InState("admitted")' \subseteq InState("admitted")
    BY <1>0, <2>1 DEF Depth, InState, Become
  <2> QED
    BY <2>1, <2>2, <2>3 DEF BufferInv
<1>4. CASE Pass
  <2>1. /\ QueueInv' /\ UNCHANGED <<fate, applied, overtaken>>
        /\ ToSet(WritesOf(items))' = ToSet(WritesOf(items))
    BY <1>0, <1>4, AgeStep DEF Pass, Age
  <2> QED
    BY <2>1 DEF BufferInv, InState
<1>5. ASSUME NEW w \in Writes, Post(w) PROVE BufferInv'
  <2>1. /\ QueueInv' /\ UNCHANGED <<items, applied, overtaken>>
    BY <1>0, <1>5, PostStep DEF Post
  <2>2. applied \notin QueueTiers => InState("admitted")' \subseteq InState("admitted")
    BY <1>0, <1>5 DEF Post, InState
  <2> QED
    BY <2>1, <2>2 DEF BufferInv
<1>6. ASSUME NEW w \in Writes, Store(w) PROVE BufferInv'
  <2>1. QueueInv' /\ UNCHANGED <<applied, overtaken>> /\ Enqueue(w) /\ fate[w] = "admitted"
    BY <1>0, <1>6, EnqueueStep DEF Store
  <2>2. ToSet(items') \subseteq ToSet(items) \cup {[write |-> w, age |-> 0]}
    <3>1. PICK x \in Item : x = [write |-> w, age |-> 0]
      <4>1. [write |-> w, age |-> 0] \in Item
        BY QueueAssumption DEF QueueAssumption, Item
      <4> QED
        BY <4>1
    <3>2. PICK k \in Seq(Item) : k = Kept /\ ToSet(k) \subseteq ToSet(items)
      BY <1>0, KeptItems
    <3>3. items' = k \/ items' = Append(k, x)
      BY <2>1, <3>1, <3>2 DEF Enqueue
    <3>4. ToSet(Append(k, x)) = ToSet(k) \cup {x}
      BY OneElementMore
    <3> QED
      BY <3>1, <3>2, <3>3, <3>4
  <2>3. ToSet(WritesOf(items))' \subseteq ToSet(WritesOf(items)) \cup {w}
    <3>1. items' \in Seq(Item) /\ items \in Seq(Item)
      BY <1>0, <2>1 DEF QueueInv, QueueTypeOK
    <3> QED
      BY <2>2, <3>1, WritesOfItems
  <2>4. InState("admitted")' \subseteq InState("admitted") /\ w \in InState("admitted")
    BY <1>0, <2>1 DEF Enqueue, InState, Become
  <2> QED
    BY <2>1, <2>3, <2>4 DEF BufferInv
<1>7. CASE UNCHANGED vars
  BY <1>7 DEF vars, queueVars, BufferInv, QueueInv, QueueTypeOK, AcceptedInOrder, Alive, InState
<1> QED
  BY <1>1, <1>2, <1>3, <1>4, <1>5, <1>6, <1>7 DEF BufferStep, Quiet

\* What a step may do to a write: one nobody posts stays new, one refused stays refused,
\* what was accepted stays so, and what expired in the queue is not handed out.
WritesMove(posted) ==
    /\ \A w \in Writes \ posted : fate[w] = "new" => fate'[w] = "new"
    /\ \A w \in Writes : Refused(w) => Refused(w)'
    /\ ToSet(accepted) \subseteq ToSet(accepted')
    /\ \A x \in ToSet(items) : ~Fresh(x) => fate'[x.write] # "drained"

LEMMA QueuedItems ==
    ASSUME QueueInv
    PROVE  \A x \in ToSet(items) : x.write \in Writes /\ fate[x.write] = "queued"
<1>1. items \in Seq(Item)
  BY DEF QueueInv, QueueTypeOK
<1>2. ToSet(items) \subseteq Item
  BY <1>1, Elements
<1> QED
  BY <1>2 DEF QueueInv, Item

LEMMA PostMovesOne ==
    ASSUME QueueInv, NEW w \in Writes, Post(w)
    PROVE  WritesMove({w})
<1>0. /\ fate \in [Writes -> Fates] /\ items \in Seq(Item)
      /\ \A x \in ToSet(items) : x.write \in Writes /\ fate[x.write] = "queued"
  BY QueuedItems DEF QueueInv, QueueTypeOK
<1>1. /\ UNCHANGED <<items, accepted>> /\ fate[w] = "new"
      /\ \A v \in Writes \ {w} : fate'[v] = fate[v]
  BY <1>0 DEF Post
<1> QED
  BY <1>0, <1>1 DEF WritesMove, Refused

LEMMA QuietMovesNone ==
    ASSUME QueueInv, Quiet
    PROVE  WritesMove({})
<1>0. /\ fate \in [Writes -> Fates] /\ items \in Seq(Item) /\ accepted \in Seq(Writes)
      /\ \A x \in ToSet(items) : x.write \in Writes /\ fate[x.write] = "queued"
      /\ \A x \in ToSet(items) : ~Fresh(x) => x.write \in Evicted
      /\ \A w \in Evicted : fate[w] = "queued"
  BY QueuedItems, EvictedWrites DEF QueueInv, QueueTypeOK
<1>1. CASE UNCHANGED <<fate, accepted>>
  BY <1>0, <1>1 DEF WritesMove, Refused
<1>2. CASE Depth
  BY <1>0, <1>2 DEF Depth, WritesMove, Refused, Become
<1>3. CASE Drain
  <2>1. \A w \in ToSet(WritesOf(Kept)) : fate[w] = "queued"
    BY <1>0, KeptItems, WritesOfItems
  <2> QED
    BY <1>0, <1>3, <2>1 DEF Drain, WritesMove, Refused, Become
<1>4. CASE Restart
  BY <1>0, <1>4 DEF Restart, WritesMove, Refused, Become, InState
<1>5. ASSUME NEW w \in Writes, Store(w) PROVE WritesMove({})
  <2>1. fate[w] = "admitted" /\ Enqueue(w)
    BY <1>5 DEF Store
  <2>2. \A v \in Writes \ {w} : fate'[v] = IF v \in Evicted THEN "expired" ELSE fate[v]
    BY <1>0, <2>1 DEF Enqueue, Become
  <2>3. ToSet(accepted) \subseteq ToSet(accepted')
    <3>1. accepted' = accepted \/ accepted' = Append(accepted, w)
      BY <2>1 DEF Enqueue
    <3>2. ToSet(Append(accepted, w)) = ToSet(accepted) \cup {w}
      BY <1>0, OneElementMore
    <3> QED
      BY <3>1, <3>2
  <2> QED
    BY <1>0, <2>1, <2>2, <2>3 DEF WritesMove, Refused
<1> QED
  BY <1>1, <1>2, <1>3, <1>4, <1>5
  DEF Quiet, ApplyTier, ReadDepth, Pass, Age, vars, queueVars

-----------------------------------------------------------------------------
\* AnswersMatchFates, an order at a time.
Answered(w) ==
    /\ order[w] = "queued" => w \in ToSet(accepted)
    /\ order[w] = "rejected" => Refused(w)
    /\ order[w] \notin {"queued", "rejected", "sent", "unanswered"} => fate[w] = "new"

LEMMA AnswersCaseByCase == AnswersMatchFates <=> \A w \in Orders : Answered(w)
<1> DEFINE Matches(w) == CASE order[w] = "queued"     -> w \in ToSet(accepted)
                           [] order[w] = "rejected"   -> Refused(w)
                           [] order[w] \in {"sent", "unanswered"} -> TRUE
                           [] OTHER -> fate[w] = "new"
<1>1. ASSUME NEW w \in Orders PROVE Matches(w) <=> Answered(w)
  <2>1. CASE order[w] = "queued"
    BY <2>1 DEF Answered
  <2>2. CASE order[w] = "rejected"
    BY <2>2 DEF Answered
  <2>3. CASE order[w] \in {"sent", "unanswered"}
    BY <2>3 DEF Answered
  <2>4. CASE order[w] \notin {"queued", "rejected", "sent", "unanswered"}
    BY <2>4 DEF Answered
  <2> QED
    BY <2>1, <2>2, <2>3, <2>4
<1> QED
  BY <1>1 DEF AnswersMatchFates

AnswersInv ==
    /\ order \in [Orders -> Stages]
    /\ mayBuy \subseteq Orders
    /\ \A w \in Orders : Answered(w)

LEMMA AnswersInitInv == ShopInit => AnswersInv
  BY StorefrontAssumption DEF ShopInit, Init, QueueInit, AnswersInv, Answered, Stages, StorefrontAssumption

LEMMA AnswersKept ==
    ASSUME AnswersInv, UNCHANGED order, mayBuy' \subseteq Orders, NEW posted, WritesMove(posted),
           \A w \in posted \cap Orders : order[w] \in {"sent", "unanswered"}
    PROVE  AnswersInv'
<1>1. Orders \subseteq Writes
  BY StorefrontAssumption DEF StorefrontAssumption
<1>2. ASSUME NEW w \in Orders PROVE Answered(w)'
  <2>1. Answered(w) /\ order'[w] = order[w]
    BY DEF AnswersInv
  <2>2. order[w] = "queued" => w \in ToSet(accepted')
    BY <2>1 DEF Answered, WritesMove
  <2>3. order[w] = "rejected" => Refused(w)'
    BY <1>1, <2>1 DEF Answered, WritesMove
  <2>4. order[w] \notin {"queued", "rejected", "sent", "unanswered"} => fate'[w] = "new"
    BY <1>1, <2>1 DEF Answered, WritesMove
  <2> QED
    BY <2>1, <2>2, <2>3, <2>4 DEF Answered
<1> QED
  BY <1>2 DEF AnswersInv

LEMMA CheckoutAnswers ==
    ASSUME AnswersInv, NEW w \in Orders, Checkout(w)
    PROVE  AnswersInv'
<1>1. UNCHANGED <<fate, accepted>> /\ mayBuy' \subseteq mayBuy \cup {w}
  BY DEF Checkout, Place, ReadFlags, FailOpen, Panic, HearAnswer, GiveUp, vars, queueVars
<1>2. PICK what \in Stages :
        /\ Tell(w, what)
        /\ \/ order[w] \in {"none", "placed"} /\ what \notin {"queued", "rejected"}
           \/ order[w] = "sent" /\ what = "unanswered"
           \/ what = "rejected" /\ Refused(w)
           \/ what = "queued" /\ w \in ToSet(accepted)
  <2>1. CASE Place(w) \/ FailOpen(w) \/ Panic(w)
    BY <2>1 DEF Place, FailOpen, Panic, Stages
  <2>2. CASE ReadFlags(w)
    <3>1. order[w] = "placed" /\ \E what \in {"fallback", "sent", "confirmed"} : Tell(w, what)
      BY <2>2 DEF ReadFlags
    <3> QED
      BY <3>1 DEF Stages
  <2>3. CASE HearAnswer(w) \/ GiveUp(w)
    BY <2>3 DEF HearAnswer, GiveUp, Stages
  <2> QED
    BY <2>1, <2>2, <2>3 DEF Checkout
<1>3. order' \in [Orders -> Stages] /\ \A x \in Orders : order'[x] = IF x = w THEN what ELSE order[x]
  BY <1>2, TellStages DEF AnswersInv
<1>4. ASSUME NEW x \in Orders PROVE Answered(x)'
  <2>1. Answered(x) /\ Answered(w)
    BY DEF AnswersInv
  <2>2. CASE x # w
    BY <1>1, <1>3, <2>1, <2>2 DEF Answered, Refused
  <2>3. CASE x = w
    BY <1>1, <1>2, <1>3, <2>1, <2>3 DEF Answered, Refused
  <2> QED
    BY <2>2, <2>3
<1> QED
  BY <1>1, <1>3, <1>4 DEF AnswersInv

LEMMA AnswersStepInv ==
    ASSUME QueueInv, AnswersInv, [ShopNext]_allVars
    PROVE  AnswersInv'
<1>0. Open \subseteq Orders /\ mayBuy \subseteq Orders
  BY DEF Open, AnswersInv
<1>1. ASSUME Quiet, UNCHANGED order, mayBuy' \subseteq Orders
      PROVE  AnswersInv'
  BY <1>1, QuietMovesNone, AnswersKept
<1>2. ASSUME NEW t \in Tiers, Transition(t) \/ OverrideSidecar(t) PROVE AnswersInv'
  BY <1>0, <1>1, <1>2 DEF Transition, OverrideSidecar, Quiet
<1>3. CASE ShopRestart
  BY <1>0, <1>1, <1>3 DEF ShopRestart, Quiet
<1>4. ASSUME NEW w \in Writes, ServeWrite(w) PROVE AnswersInv'
  <2>1. UNCHANGED order /\ mayBuy' \subseteq Orders /\ (Post(w) \/ Store(w))
        /\ (w \in Orders => order[w] \in {"sent", "unanswered"})
    BY <1>0, <1>4 DEF ServeWrite, shopVars
  <2>2. CASE Post(w)
    <3>1. WritesMove({w})
      BY <2>2, PostMovesOne
    <3>2. \A v \in {w} \cap Orders : order[v] \in {"sent", "unanswered"}
      BY <2>1
    <3> QED
      BY <2>1, <3>1, <3>2, AnswersKept
  <2>3. CASE Store(w)
    BY <1>1, <2>1, <2>3 DEF Quiet
  <2> QED
    BY <2>1, <2>2, <2>3
<1>5. ASSUME NEW w \in Orders, Checkout(w) PROVE AnswersInv'
  BY <1>5, CheckoutAnswers
<1>6. CASE (ReadDepth \/ Pass) /\ UNCHANGED shopVars
  BY <1>0, <1>1, <1>6 DEF Quiet, shopVars
<1>7. CASE UNCHANGED allVars
  BY <1>0, <1>1, <1>7 DEF Quiet, shopVars, allVars
<1> QED
  BY <1>2, <1>3, <1>4, <1>5, <1>6, <1>7 DEF ShopNext

-----------------------------------------------------------------------------
\* The three invariants together.
StoreInv == ShopInv /\ BufferInv /\ AnswersInv

LEMMA StoreInvariant == ShopSpec => []StoreInv
<1>1. ShopInit => StoreInv
  BY ShopInitInv, BufferInitInv, AnswersInitInv DEF ShopInit, StoreInv
<1>2. BufferInv /\ AnswersInv /\ [ShopNext]_allVars => (BufferInv /\ AnswersInv)'
  BY BufferStepInv, AnswersStepInv, StepsOfTheBuffer DEF BufferInv
<1>3. ShopInit => BufferInv /\ AnswersInv
  BY <1>1 DEF StoreInv
<1> QED
  BY <1>2, <1>3, ShopInvariant, PTL DEF ShopSpec, StoreInv

\* The queue never holds more than MaxDepth writes and every variable keeps its type, for
\* any number of writes, any depth and TTL.
THEOREM ShopTypeCorrect == ShopSpec => []ShopTypeOK
<1>1. StoreInv => ShopTypeOK
  BY DEF StoreInv, ShopInv, BufferInv, AnswersInv, QueueInv, ShopTypeOK, TypeOK
<1> QED
  BY <1>1, StoreInvariant, PTL

\* No accepted write is lost, duplicated or overtaken by another unless it expired or
\* died with the engine, whatever the tiers do.
THEOREM AcceptedWritesStayInOrder == ShopSpec => []AcceptedInOrder
<1>1. StoreInv => AcceptedInOrder
  BY DEF StoreInv, BufferInv, QueueInv
<1> QED
  BY <1>1, StoreInvariant, PTL

\* A write stays behind in a tier that does not queue writes only if a drain came between
\* its admission and its Enqueue.
THEOREM StrandedWritesWereOvertaken == ShopSpec => []StrandedWasOvertaken
<1>1. StoreInv => StrandedWasOvertaken
  BY DEF StoreInv, BufferInv, StrandedWasOvertaken
<1> QED
  BY <1>1, StoreInvariant, PTL

\* What the customer is told agrees with what became of the write.
THEOREM CustomersAreToldTheTruth == ShopSpec => []AnswersMatchFates
<1>1. StoreInv => AnswersMatchFates
  BY AnswersCaseByCase DEF StoreInv, AnswersInv
<1> QED
  BY <1>1, StoreInvariant, PTL

\* No write that outlived its TTL is handed out for replay, in any step.
THEOREM ExpiredWritesAreNotReplayed == ShopSpec => ExpiredIsNotDrained
<1> DEFINE Act == \A i \in DOMAIN items :
                      (TTL > 0 /\ items[i].age >= TTL) => fate'[items[i].write] # "drained"
<1>1. StoreInv /\ [ShopNext]_allVars => [Act]_vars
  <2> SUFFICES ASSUME StoreInv, [ShopNext]_allVars PROVE Act
    OBVIOUS
  <2>1. QueueInv /\ items \in Seq(Item)
    BY DEF StoreInv, BufferInv, QueueInv, QueueTypeOK
  <2>2. \E posted : WritesMove(posted)
    BY <2>1, StepsOfTheBuffer, QuietMovesNone, PostMovesOne DEF BufferStep
  <2>3. \A x \in ToSet(items) : ~Fresh(x) => fate'[x.write] # "drained"
    BY <2>2 DEF WritesMove
  <2>4. ASSUME NEW i \in DOMAIN items, TTL > 0, items[i].age >= TTL PROVE fate'[items[i].write] # "drained"
    <3>1. PICK x \in Item : x = items[i] /\ x \in ToSet(items)
      BY <2>1, Elements
    <3>2. ~Fresh(x)
      BY <2>4, <3>1, QueueAssumption DEF Fresh, Item, QueueAssumption
    <3> QED
      BY <2>3, <3>1, <3>2
  <2> QED
    BY <2>4
<1> QED
  BY <1>1, StoreInvariant, PTL DEF ShopSpec, ExpiredIsNotDrained

=============================================================================
