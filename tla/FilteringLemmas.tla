-------------------------- MODULE FilteringLemmas --------------------------
(***************************************************************************)
(* Induction, and what it shows of the loop of Filtering.                  *)
(*                                                                         *)
(* The induction theorems of the library take the property as an operator; *)
(* Induct takes the set of the numbers that have it, and comes from their  *)
(* having a least counterexample.  With it, Retained is the function its   *)
(* recursive definition says it is (RetainedStep), and Retain is known by  *)
(* what it does to a prefix, to Append, to \o, to a second filter, to a    *)
(* sequence all of whose elements, or none, are kept, and to two sequences *)
(* with corresponding elements.                                            *)
(***************************************************************************)
EXTENDS Filtering, TLAPS, WellFoundedInduction, SequenceTheorems

\* Induction: a set of naturals has a least element.
Below == OpToRel(<, Nat)
LEMMA LeastNumber == ASSUME NEW T, T \subseteq Nat, T # {} PROVE \E x \in T : \A y \in T : x <= y
<1>0. IsWellFoundedOn(Below, Nat)
  BY NatLessThanWellFounded, Zenon DEF Below
<1>1. PICK x \in T : \A y \in T : ~(<<y, x>> \in Below)
  BY <1>0, WFMin, Zenon
<1>2. ASSUME NEW y \in T, y < x PROVE FALSE
  <2>1. <<y, x>> \in Nat \X Nat /\ <<y, x>>[1] < <<y, x>>[2]
    BY <1>2
  <2>2. <<y, x>> \in Below
    BY <2>1, Zenon DEF Below, OpToRel
  <2> QED
    BY <2>2, <1>1
<1> QED
  BY <1>2

\* To prove a property of all naturals up to m, one takes the set of those
\* that have it.
LEMMA Induct ==
    ASSUME NEW m \in Nat, NEW P, 0 \in P, \A n \in 1..m : n - 1 \in P => n \in P
    PROVE  0..m \subseteq P
<1> SUFFICES ASSUME ~(0..m \subseteq P) PROVE FALSE
  OBVIOUS
<1> DEFINE T == {n \in 0..m : n \notin P}
<1>0. T \subseteq Nat /\ T # {}
  OBVIOUS
<1>1. PICK n \in T : \A k \in T : n <= k
  <2> HIDE DEF T
  <2> QED
    BY <1>0, LeastNumber
<1>2. n - 1 \in P
  BY <1>1
<1> QED
  BY <1>1, <1>2

Iteration(s, keep, g, n) ==
  IF n = 0 THEN <<>>
  ELSE IF s[n] \in keep THEN Append(g[n - 1], s[n]) ELSE g[n - 1]

LEMMA RetainedExists ==
    ASSUME NEW s, NEW keep, NEW m \in Nat
    PROVE  \E g : g = [n \in 0..m |-> Iteration(s, keep, g, n)]
<1> DEFINE P == {k \in 0..m : \E g : g = [n \in 0..k |-> Iteration(s, keep, g, n)]}
<1>1. 0 \in P
  <2> DEFINE g == [n \in 0..0 |-> <<>>]
  <2>1. g = [n \in 0..0 |-> Iteration(s, keep, g, n)]
    BY DEF Iteration
  <2> QED
    BY <2>1
<1>2. ASSUME NEW k \in 1..m, k - 1 \in P PROVE k \in P
  <2>1. PICK g : g = [n \in 0..(k-1) |-> Iteration(s, keep, g, n)]
    BY <1>2
  <2> DEFINE h == [n \in 0..k |-> IF n = k THEN Iteration(s, keep, g, k) ELSE g[n]]
  <2>2. ASSUME NEW n \in 0..k PROVE h[n] = Iteration(s, keep, h, n)
    <3>1. n # 0 => h[n - 1] = g[n - 1]
      OBVIOUS
    <3>2. CASE n = k
      BY <3>1, <3>2 DEF Iteration
    <3>3. CASE n # k
      <4>1. h[n] = g[n] /\ n \in 0..(k-1)
        BY <3>3
      <4>2. g[n] = Iteration(s, keep, g, n)
        BY <2>1, <4>1
      <4> QED
        BY <4>1, <4>2, <3>1 DEF Iteration
    <3> QED
      BY <3>2, <3>3
  <2>3. h = [n \in 0..k |-> Iteration(s, keep, h, n)]
    BY <2>2
  <2> HIDE DEF h
  <2> QED
    BY <2>3
<1> HIDE DEF P
<1>3. m \in P
  BY <1>1, <1>2, Induct
<1> QED
  BY <1>3 DEF P

LEMMA RetainedIs ==
    ASSUME NEW s, NEW keep, Len(s) \in Nat
    PROVE  Retained(s, keep) = [n \in 0..Len(s) |-> Iteration(s, keep, Retained(s, keep), n)]
<1>1. Retained(s, keep) = CHOOSE g : g = [n \in 0..Len(s) |-> Iteration(s, keep, g, n)]
  BY Zenon DEF Retained, Iteration
<1>2. \E g : g = [n \in 0..Len(s) |-> Iteration(s, keep, g, n)]
  BY RetainedExists
<1> QED
  BY <1>1, <1>2, Zenon

\* Retained, call by call.
LEMMA RetainedStep ==
    ASSUME NEW S, NEW s \in Seq(S), NEW keep
    PROVE  /\ Retained(s, keep)[0] = <<>>
         /\ \A n \in 1..Len(s) : Retained(s, keep)[n] =
               IF s[n] \in keep THEN Append(Retained(s, keep)[n - 1], s[n])
               ELSE Retained(s, keep)[n - 1]
<1> DEFINE r == Retained(s, keep)
<1>0. Len(s) \in Nat
  OBVIOUS
<1>1. r = [n \in 0..Len(s) |-> Iteration(s, keep, r, n)]
  BY <1>0, RetainedIs
<1> HIDE DEF r
<1>2. \A n \in 0..Len(s) : r[n] = Iteration(s, keep, r, n)
  BY <1>1
<1>3. r[0] = <<>>
  BY <1>0, <1>2 DEF Iteration
<1>4. ASSUME NEW n \in 1..Len(s) PROVE r[n] = IF s[n] \in keep THEN Append(r[n - 1], s[n]) ELSE r[n - 1]
  BY <1>0, <1>2 DEF Iteration
<1> QED
  BY <1>3, <1>4 DEF r


\* The sequence q consists of the elements among the first n of s that are in keep.
Consists(S, s, keep, q, n) ==
    /\ q \in Seq(S) /\ Len(q) <= n
    /\ \A x : (\E i \in 1..Len(q) : q[i] = x) <=> (x \in keep /\ \E i \in 1..n : s[i] = x)

LEMMA RetainTypes ==
    ASSUME NEW S, NEW s \in Seq(S), NEW keep
    PROVE  Consists(S, s, keep, Retain(s, keep), Len(s))
<1> DEFINE r == Retained(s, keep)
           P == {n \in 0..Len(s) : Consists(S, s, keep, r[n], n)}
<1>0. Len(s) \in Nat
  OBVIOUS
<1>1. 0 \in P
  <2>1. r[0] = <<>>
    BY RetainedStep
  <2>2. Consists(S, s, keep, <<>>, 0)
    BY DEF Consists
  <2> HIDE DEF r
  <2> QED
    BY <1>0, <2>1, <2>2
<1>2. ASSUME NEW n \in 1..Len(s), n - 1 \in P PROVE n \in P
  <2> DEFINE q == r[n - 1]
  <2>1. /\ q \in Seq(S) /\ Len(q) <= n - 1
        /\ \A x : (\E i \in 1..Len(q) : q[i] = x) <=> (x \in keep /\ \E i \in 1..(n-1) : s[i] = x)
    BY <1>2, Zenon DEF Consists
  <2>2. r[n] = IF s[n] \in keep THEN Append(q, s[n]) ELSE q
    BY RetainedStep
  <2>3. s[n] \in S
    OBVIOUS
  <2> HIDE DEF r, q
  <2>4. ASSUME NEW x PROVE (\E i \in 1..n : s[i] = x) <=> (x = s[n] \/ \E i \in 1..(n-1) : s[i] = x)
      BY <1>0
  <2>5. CASE s[n] \in keep
    <3>1. /\ r[n] \in Seq(S) /\ Len(r[n]) = Len(q) + 1
          /\ \A i \in 1..Len(q) : r[n][i] = q[i]
          /\ r[n][Len(q) + 1] = s[n]
      BY <2>1, <2>2, <2>3, <2>5
    <3>2. ASSUME NEW x PROVE (\E i \in 1..Len(r[n]) : r[n][i] = x) <=> (x = s[n] \/ \E i \in 1..Len(q) : q[i] = x)
      BY <2>1, <3>1
    <3>3. ASSUME NEW x PROVE (\E i \in 1..Len(r[n]) : r[n][i] = x) <=> (x \in keep /\ \E i \in 1..n : s[i] = x)
      BY <2>1, <2>4, <2>5, <3>2, Zenon
    <3>4. Len(r[n]) <= n
      BY <2>1, <3>1
    <3>5. Consists(S, s, keep, r[n], n)
      BY <3>1, <3>3, <3>4, Zenon DEF Consists
    <3> QED
      BY <3>5, <1>0
  <2>6. CASE s[n] \notin keep
    <3>1. ASSUME NEW x PROVE (\E i \in 1..Len(q) : q[i] = x) <=> (x \in keep /\ \E i \in 1..n : s[i] = x)
      BY <2>1, <2>4, <2>6, Zenon
    <3>2. Len(q) <= n
      BY <2>1
    <3>3. Consists(S, s, keep, q, n)
      BY <2>1, <3>1, <3>2, Zenon DEF Consists
    <3> QED
      BY <2>2, <2>6, <3>3, <1>0
  <2> QED
    BY <2>5, <2>6
<1> HIDE DEF P
<1>3. 0..Len(s) \subseteq P
  BY <1>0, <1>1, <1>2, Induct
<1>4. Len(s) \in P
  BY <1>0, <1>3
<1> QED
  BY <1>4, Zenon DEF P, Retain

\* Two filters whose sequences correspond, element by element, correspond.
Match(S, T, a, b, f) ==
    /\ a \in Seq(S) /\ b \in Seq(T) /\ Len(b) = Len(a)
    /\ \A i \in 1..Len(a) : b[i] = f[a[i]]

LEMMA RetainPairs ==
    ASSUME NEW S, NEW T, NEW s \in Seq(S), NEW t \in Seq(T), NEW f \in [S -> T], NEW J, NEW K,
         NEW m \in Nat, m <= Len(s), m <= Len(t),
         \A i \in 1..m : t[i] = f[s[i]] /\ (s[i] \in J <=> t[i] \in K)
    PROVE  Match(S, T, Retained(s, J)[m], Retained(t, K)[m], f)
<1> DEFINE r == Retained(s, J)
           q == Retained(t, K)
           P == {n \in 0..m : Match(S, T, r[n], q[n], f)}
<1>1. 0 \in P
  <2>1. r[0] = <<>> /\ q[0] = <<>>
    BY RetainedStep
  <2>2. Match(S, T, <<>>, <<>>, f)
    BY DEF Match
  <2> HIDE DEF r, q
  <2> QED
    BY <2>1, <2>2
<1>2. ASSUME NEW n \in 1..m, n - 1 \in P PROVE n \in P
  <2>1. n \in 1..Len(s) /\ n \in 1..Len(t)
    OBVIOUS
  <2>2. r[n] = IF s[n] \in J THEN Append(r[n - 1], s[n]) ELSE r[n - 1]
    BY <2>1, RetainedStep
  <2>3. q[n] = IF t[n] \in K THEN Append(q[n - 1], t[n]) ELSE q[n - 1]
    BY <2>1, RetainedStep
  <2>4. s[n] \in S /\ t[n] \in T /\ t[n] = f[s[n]] /\ (s[n] \in J <=> t[n] \in K)
    BY <2>1
  <2>5. Match(S, T, r[n-1], q[n-1], f)
    BY <1>2
  <2> HIDE DEF r, q
  <2>6. CASE s[n] \in J
    <3>1. PICK c, d, x, y : c = r[n - 1] /\ d = q[n - 1] /\ x = s[n] /\ y = t[n]
      OBVIOUS
    <3>2. /\ c \in Seq(S) /\ d \in Seq(T) /\ Len(d) = Len(c) /\ Len(c) \in Nat
          /\ \A i \in 1..Len(c) : d[i] = f[c[i]]
      BY <2>5, <3>1 DEF Match
    <3>3. x \in S /\ y \in T /\ y = f[x]
      BY <2>4, <3>1
    <3>4. PICK a : a = Append(c, x)
      OBVIOUS
    <3>5. PICK b : b = Append(d, y)
      OBVIOUS
    <3>6. a \in Seq(S) /\ Len(a) = Len(c) + 1 /\ (\A i \in 1..Len(c) : a[i] = c[i]) /\ a[Len(c) + 1] = x
      BY <3>2, <3>3, <3>4
    <3>7. b \in Seq(T) /\ Len(b) = Len(d) + 1 /\ (\A i \in 1..Len(d) : b[i] = d[i]) /\ b[Len(d) + 1] = y
      BY <3>2, <3>3, <3>5
    <3>8. ASSUME NEW i \in 1..Len(a) PROVE b[i] = f[a[i]]
      <4>1. CASE i \in 1..Len(c)
        BY <4>1, <3>2, <3>6, <3>7
      <4>2. CASE i = Len(c) + 1
        BY <4>2, <3>2, <3>3, <3>6, <3>7
      <4> QED
        BY <3>2, <3>6, <4>1, <4>2
    <3>9. Match(S, T, a, b, f)
      BY <3>2, <3>6, <3>7, <3>8 DEF Match
    <3>10. r[n] = a /\ q[n] = b
      BY <2>2, <2>3, <2>4, <2>6, <3>1, <3>4, <3>5
    <3> QED
      BY <3>9, <3>10
  <2>7. CASE s[n] \notin J
    BY <2>2, <2>3, <2>4, <2>5, <2>7
  <2> QED
    BY <2>6, <2>7
<1> HIDE DEF P
<1>3. 0..m \subseteq P
  BY <1>1, <1>2, Induct
<1>4. m \in P
  BY <1>3
<1> QED
  BY <1>4 DEF P

\* A prefix is filtered as the whole is, and only the membership of its elements matters.
Agree(s, J, t, K, m) ==
    /\ m \in Nat /\ m <= Len(s) /\ m <= Len(t)
    /\ \A i \in 1..m : t[i] = s[i] /\ (s[i] \in J <=> t[i] \in K)

LEMMA RetainAgrees ==
    ASSUME NEW S, NEW s \in Seq(S), NEW t \in Seq(S), NEW J, NEW K, NEW m, Agree(s, J, t, K, m)
    PROVE  /\ Retained(s, J)[m] = Retained(t, K)[m]
         /\ Retained(s, J)[m] \in Seq(S)
<1>a. PICK id \in [S -> S] : \A x \in S : id[x] = x
  <2>1. [x \in S |-> x] \in [S -> S] /\ \A x \in S : [y \in S |-> y][x] = x
    OBVIOUS
  <2> QED
    BY <2>1
<1>1. /\ m \in Nat /\ m <= Len(s) /\ m <= Len(t)
      /\ \A i \in 1..m : t[i] = id[s[i]] /\ (s[i] \in J <=> t[i] \in K)
  BY <1>a DEF Agree
<1>b. PICK a : a = Retained(s, J)[m]
  OBVIOUS
<1>c. PICK b : b = Retained(t, K)[m]
  OBVIOUS
<1>3. Match(S, S, a, b, id)
  <2>1. Match(S, S, Retained(s, J)[m], Retained(t, K)[m], id)
    BY <1>1, RetainPairs
  <2> QED
    BY <2>1, <1>b, <1>c
<1>4. a \in Seq(S) /\ b \in Seq(S) /\ Len(b) = Len(a) /\ \A i \in 1..Len(a) : b[i] = id[a[i]]
  BY <1>3, Zenon DEF Match
<1>5. \A i \in 1..Len(a) : a[i] \in S
  BY <1>4
<1>6. a = b
  BY <1>a, <1>4, <1>5, SeqEqual
<1> QED
  BY <1>b, <1>c, <1>4, <1>6

LEMMA RetainIsSeq ==
    ASSUME NEW S, NEW s \in Seq(S), NEW K, NEW m \in 0..Len(s)
    PROVE  Retained(s, K)[m] \in Seq(S)
<1>1. Agree(s, K, s, K, m)
  BY DEF Agree
<1> QED
  BY <1>1, RetainAgrees

LEMMA RetainAppend ==
    ASSUME NEW S, NEW s \in Seq(S), NEW x \in S, NEW K
    PROVE  Retain(Append(s, x), K) = IF x \in K THEN Append(Retain(s, K), x) ELSE Retain(s, K)
<1>0. PICK t : t = Append(s, x)
  OBVIOUS
<1>1. t \in Seq(S) /\ Len(t) = Len(s) + 1 /\ t[Len(s) + 1] = x /\ \A i \in 1..Len(s) : t[i] = s[i]
  BY <1>0
<1>2. Retained(s, K)[Len(s)] = Retained(t, K)[Len(s)]
  <2>1. Agree(s, K, t, K, Len(s))
    BY <1>1 DEF Agree
  <2> QED
    BY <1>1, <2>1, RetainAgrees
<1>3. Len(t) \in 1..Len(t) /\ Len(t) - 1 = Len(s)
  BY <1>1
<1>4. Retained(t, K)[Len(t)] = IF t[Len(t)] \in K THEN Append(Retained(t, K)[Len(t) - 1], t[Len(t)])
                                                 ELSE Retained(t, K)[Len(t) - 1]
  BY <1>1, <1>3, RetainedStep
<1> QED
  BY <1>0, <1>1, <1>2, <1>3, <1>4 DEF Retain

\* (The named formula keeps the provers from rewriting its sequences.)
Shifts(s, t, x) == Append(s \o t, x) = s \o Append(t, x)

LEMMA ConcatShifts ==
    ASSUME NEW S, NEW s \in Seq(S), NEW t \in Seq(S), NEW x \in S
    PROVE  Shifts(s, t, x)
<1>1. s \o t \in Seq(S) /\ <<x>> \in Seq(S)
  OBVIOUS
<1>2. Append(s \o t, x) = (s \o t) \o <<x>>
  BY <1>1, AppendIsConcat
<1>3. Append(t, x) = t \o <<x>>
  BY <1>1, AppendIsConcat
<1> QED
  BY <1>1, <1>2, <1>3, ConcatAssociative DEF Shifts

LEMMA RetainConcat ==
    ASSUME NEW S, NEW s \in Seq(S), NEW t \in Seq(S), NEW K
    PROVE  Retain(s \o t, K) = Retain(s, K) \o Retain(t, K)
<1>a. PICK u : u = s \o t
  OBVIOUS
<1>b. PICK a : a = Retained(s, K)[Len(s)]
  OBVIOUS
<1>c. PICK q : q = Retained(t, K)
  OBVIOUS
<1>d. PICK r : r = Retained(u, K)
  OBVIOUS
<1> DEFINE P == {n \in 0..Len(t) : r[Len(s) + n] = a \o q[n]}
<1>0. Len(s) \in Nat /\ Len(t) \in Nat
  OBVIOUS
<1>1. /\ u \in Seq(S) /\ Len(u) = Len(s) + Len(t)
      /\ \A i \in 1..Len(s) : u[i] = s[i]
      /\ \A i \in 1..Len(t) : u[Len(s) + i] = t[i]
  BY <1>a
<1>2. a = r[Len(s)] /\ a \in Seq(S)
  <2>1. Agree(s, K, u, K, Len(s))
    BY <1>0, <1>1 DEF Agree
  <2>2. Retained(s, K)[Len(s)] = Retained(u, K)[Len(s)] /\ Retained(s, K)[Len(s)] \in Seq(S)
    BY <1>1, <2>1, RetainAgrees
  <2> QED
    BY <2>2, <1>b, <1>d
<1>3. \A n \in 0..Len(t) : q[n] \in Seq(S)
  BY <1>c, RetainIsSeq
<1>4. 0 \in P
  <2>1. q[0] = <<>>
    BY <1>c, RetainedStep
  <2>2. a \o <<>> = a
    BY <1>2, ConcatEmptySeq
  <2>3. r[Len(s) + 0] = a \o q[0]
    BY <1>0, <1>2, <2>1, <2>2
  <2> QED
    BY <1>0, <2>3
<1>5. ASSUME NEW n \in 1..Len(t), n - 1 \in P PROVE n \in P
  <2>1. Len(s) + n \in 1..Len(u) /\ u[Len(s) + n] = t[n] /\ Len(s) + n - 1 = Len(s) + (n - 1) /\ n - 1 \in 0..Len(t)
    BY <1>0, <1>1
  <2>2. r[Len(s) + n] = IF t[n] \in K THEN Append(r[Len(s) + (n - 1)], t[n]) ELSE r[Len(s) + (n - 1)]
    BY <1>d, <1>1, <2>1, RetainedStep
  <2>3. q[n] = IF t[n] \in K THEN Append(q[n - 1], t[n]) ELSE q[n - 1]
    BY <1>c, RetainedStep
  <2>4. r[Len(s) + (n - 1)] = a \o q[n - 1]
    BY <1>5
  <2>5. q[n - 1] \in Seq(S) /\ t[n] \in S
    BY <1>3, <2>1
  <2>6. Append(a \o q[n - 1], t[n]) = a \o Append(q[n - 1], t[n])
    <3>1. PICK p, x : p = q[n - 1] /\ x = t[n]
      OBVIOUS
    <3>2. a \in Seq(S) /\ p \in Seq(S) /\ x \in S
      BY <1>2, <2>5, <3>1
    <3>3. Shifts(a, p, x)
      BY <3>2, ConcatShifts
    <3> QED
      BY <3>1, <3>3 DEF Shifts
  <2>7. r[Len(s) + n] = a \o q[n]
    BY <2>2, <2>3, <2>4, <2>6
  <2>8. n \in 0..Len(t)
    BY <1>0
  <2> QED
    BY <2>7, <2>8
<1> HIDE DEF P
<1>6. 0..Len(t) \subseteq P
  BY <1>0, <1>4, <1>5, Induct
<1>7. r[Len(s) + Len(t)] = a \o q[Len(t)]
  <2>1. Len(t) \in P
    BY <1>0, <1>6
  <2> QED
    BY <2>1 DEF P
<1> QED
  BY <1>a, <1>b, <1>c, <1>d, <1>1, <1>7 DEF Retain

LEMMA RetainTwice ==
    ASSUME NEW S, NEW s \in Seq(S), NEW K, NEW L, L \subseteq K
    PROVE  Retain(Retain(s, K), L) = Retain(s, L)
<1>a. PICK r : r = Retained(s, K)
  OBVIOUS
<1>b. PICK q : q = Retained(s, L)
  OBVIOUS
<1> DEFINE P == {n \in 0..Len(s) : Retain(r[n], L) = q[n]}
<1>0. Len(s) \in Nat
  OBVIOUS
<1>1. \A n \in 0..Len(s) : r[n] \in Seq(S)
  BY <1>a, RetainIsSeq
<1>2. 0 \in P
  <2>1. r[0] = <<>> /\ q[0] = <<>>
    BY <1>a, <1>b, RetainedStep
  <2>2. Retain(<<>>, L) = <<>>
    <3>0. <<>> \in Seq(S)
      OBVIOUS
    <3>1. Retained(<<>>, L)[0] = <<>>
      BY <3>0, RetainedStep, Zenon
    <3> QED
      BY <3>1 DEF Retain
  <2> QED
    BY <1>0, <2>1, <2>2
<1>3. ASSUME NEW n \in 1..Len(s), n - 1 \in P PROVE n \in P
  <2>1. r[n] = IF s[n] \in K THEN Append(r[n - 1], s[n]) ELSE r[n - 1]
    BY <1>a, RetainedStep
  <2>2. q[n] = IF s[n] \in L THEN Append(q[n - 1], s[n]) ELSE q[n - 1]
    BY <1>b, RetainedStep
  <2>3. r[n - 1] \in Seq(S) /\ s[n] \in S
    BY <1>1
  <2>4. Retain(r[n - 1], L) = q[n - 1]
    BY <1>3
  <2>5. Retain(Append(r[n - 1], s[n]), L) = IF s[n] \in L THEN Append(Retain(r[n - 1], L), s[n]) ELSE Retain(r[n - 1], L)
    <3>1. PICK p, x : p = r[n - 1] /\ x = s[n]
      OBVIOUS
    <3>2. p \in Seq(S) /\ x \in S
      BY <2>3, <3>1
    <3>3. Retain(Append(p, x), L) = IF x \in L THEN Append(Retain(p, L), x) ELSE Retain(p, L)
      BY <3>2, RetainAppend
    <3> QED
      BY <3>1, <3>3
  <2> QED
    BY <1>0, <2>1, <2>2, <2>4, <2>5
<1> HIDE DEF P
<1>4. 0..Len(s) \subseteq P
  BY <1>0, <1>2, <1>3, Induct
<1>5. Len(s) \in P
  BY <1>0, <1>4
<1> QED
  BY <1>a, <1>b, <1>5 DEF P, Retain

LEMMA RetainAll ==
    ASSUME NEW S, NEW s \in Seq(S), NEW K, \A i \in 1..Len(s) : s[i] \in K
    PROVE  Retain(s, K) = s
<1> DEFINE r == Retained(s, K)
           P == {n \in 0..Len(s) : Len(r[n]) = n /\ \A i \in 1..n : r[n][i] = s[i]}
<1>0. Len(s) \in Nat
  OBVIOUS
<1>1. \A n \in 0..Len(s) : r[n] \in Seq(S)
  BY RetainIsSeq
<1>2. 0 \in P
  <2>1. r[0] = <<>>
    BY RetainedStep
  <2> HIDE DEF r
  <2> QED
    BY <1>0, <2>1
<1>3. ASSUME NEW n \in 1..Len(s), n - 1 \in P PROVE n \in P
  <2>1. r[n] = Append(r[n - 1], s[n])
    BY RetainedStep
  <2>2. r[n - 1] \in Seq(S) /\ s[n] \in S /\ Len(r[n - 1]) = n - 1 /\ \A i \in 1..(n - 1) : r[n - 1][i] = s[i]
    BY <1>1, <1>3
  <2> HIDE DEF r
  <2>3. /\ Len(r[n]) = n /\ r[n][n] = s[n]
        /\ \A i \in 1..(n - 1) : r[n][i] = r[n - 1][i]
    BY <2>1, <2>2
  <2>4. ASSUME NEW i \in 1..n PROVE r[n][i] = s[i]
    BY <2>2, <2>3
  <2> QED
    BY <1>0, <2>3, <2>4
<1> HIDE DEF P
<1>4. 0..Len(s) \subseteq P
  BY <1>0, <1>2, <1>3, Induct
<1>5. Len(s) \in P
  BY <1>0, <1>4
<1>6. r[Len(s)] = s
  <2>1. Len(r[Len(s)]) = Len(s) /\ (\A i \in 1..Len(s) : r[Len(s)][i] = s[i]) /\ r[Len(s)] \in Seq(S)
    BY <1>0, <1>1, <1>5 DEF P
  <2> HIDE DEF r
  <2> QED
    BY <2>1, SeqEqual
<1> QED
  BY <1>6 DEF Retain

LEMMA RetainNone ==
    ASSUME NEW S, NEW s \in Seq(S), NEW K, \A i \in 1..Len(s) : s[i] \notin K
    PROVE  Retain(s, K) = <<>>
<1> DEFINE r == Retained(s, K)
           P == {n \in 0..Len(s) : r[n] = <<>>}
<1>0. Len(s) \in Nat
  OBVIOUS
<1>1. 0 \in P
  BY <1>0, RetainedStep
<1>2. ASSUME NEW n \in 1..Len(s), n - 1 \in P PROVE n \in P
  <2>1. r[n] = r[n - 1]
    BY RetainedStep
  <2> HIDE DEF r
  <2> QED
    BY <1>0, <1>2, <2>1
<1> HIDE DEF P
<1>3. 0..Len(s) \subseteq P
  BY <1>0, <1>1, <1>2, Induct
<1>4. Len(s) \in P
  BY <1>0, <1>3
<1> QED
  BY <1>4 DEF P, Retain

=============================================================================
