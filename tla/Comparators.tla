---------------------------- MODULE Comparators ----------------------------
(***************************************************************************)
(* One comparator of a tier's condition, as the engine evaluates it        *)
(* (evalComparator, pkg/runtime/evaluator.go) and as the compiler reads it *)
(* (comparatorToInterval, pkg/compiler/validator.go).                      *)
(*                                                                         *)
(* Signal values are integers strictly between the two infinities.  A      *)
(* bound that a policy may leave out is a set of at most one threshold.    *)
(* Thresholds are even: as with Go's floats, there is a value between any  *)
(* two of them, and beyond them all; NaN, the infinities and two floats    *)
(* that are neighbours are outside the model.                              *)
(***************************************************************************)
EXTENDS Integers, Sequences

CONSTANT Infinity   \* beyond every signal value and every threshold

ASSUME InfinityAssumption == Infinity \in Nat \ {0} /\ Infinity % 2 = 0

Values == (1 - Infinity)..(Infinity - 1)
Bounds == (0 - Infinity)..Infinity

\* types.go's Comparator: every field optional.
Thresholds == {v \in Values : v % 2 = 0}
Optional   == {{}} \cup {{t} : t \in Thresholds}
Comparator == [lt : Optional, lte : Optional, gt : Optional, gte : Optional, eq : Optional]

\* types.go asks for one bound; the compiler also documents a lower with an upper
\* one.  Nothing rejects more, and there the two readings below part.
Plain(c) ==
    /\ c.lt = {} \/ c.lte = {}
    /\ c.gt = {} \/ c.gte = {}
    /\ c.eq = {} \/ (c.lt = {} /\ c.lte = {} /\ c.gt = {} /\ c.gte = {})

\* evalComparator
Satisfies(v, c) ==
    /\ \A b \in c.lt  : v < b
    /\ \A b \in c.lte : v <= b
    /\ \A b \in c.gt  : v > b
    /\ \A b \in c.gte : v >= b
    /\ \A b \in c.eq  : v = b

-----------------------------------------------------------------------------
Interval == [lo : Bounds, hi : Bounds, loIncl : BOOLEAN, hiIncl : BOOLEAN]

The(bound) == CHOOSE b \in bound : TRUE

\* comparatorToInterval, for a comparator that has bounds.
IntervalOf(c) ==
    IF c.eq # {}
    THEN [lo |-> The(c.eq), hi |-> The(c.eq), loIncl |-> TRUE, hiIncl |-> TRUE]
    ELSE [lo |-> IF c.gte # {} THEN The(c.gte)
                 ELSE IF c.gt # {} THEN The(c.gt) ELSE 0 - Infinity,
          hi |-> IF c.lte # {} THEN The(c.lte)
                 ELSE IF c.lt # {} THEN The(c.lt) ELSE Infinity,
          loIncl |-> c.gte # {},
          hiIncl |-> c.lte # {}]

HasBounds(c) == \E f \in DOMAIN c : c[f] # {}

Within(iv, v) ==
    /\ iv.lo < v \/ (iv.loIncl /\ iv.lo = v)
    /\ v < iv.hi \/ (iv.hiIncl /\ v = iv.hi)

\* Mutation of EmptyRange: bounds that meet are never empty.
CrossedBounds(c) == HasBounds(c) /\ IntervalOf(c).lo > IntervalOf(c).hi

\* emptyRanges, of one comparator.
EmptyRange(c) ==
    LET iv == IntervalOf(c) IN
    /\ HasBounds(c)
    /\ iv.lo > iv.hi \/ (iv.lo = iv.hi /\ ~(iv.loIncl /\ iv.hiIncl))

=============================================================================
