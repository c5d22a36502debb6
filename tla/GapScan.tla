------------------------------ MODULE GapScan ------------------------------
(***************************************************************************)
(* The compiler's gap detection (detectTierGaps,                           *)
(* pkg/compiler/validator.go): the comparators of a ladder over a single   *)
(* signal, sorted by lower bound, are scanned once while a cursor holds    *)
(* the highest upper bound covered so far.  One loop iteration is one      *)
(* action.  A gap is kept as the interval its message names.               *)
(***************************************************************************)
EXTENDS Comparators

\* What detectTierGaps does not return early from.
Scannable(l) == Len(l) >= 2 /\ \A i \in DOMAIN l : HasBounds(l[i])

VARIABLES
    ladder,   \* the comparators, in the order the tiers are declared
    order,    \* ivs: the sorted positions of the ladder
    next,     \* loop variable: the position in order handled next
    cursor,   \* highest upper bound so far, [at, incl]
    gaps      \* the gaps reported

scanVars == <<ladder, order, next, cursor, gaps>>

IntervalAt(i) == IntervalOf(ladder[i])

\* sort.SliceStable by lower bound: p permutes the positions of l into that order.
StablySorts(p, l) ==
    /\ p \in [DOMAIN l -> DOMAIN l]
    /\ \A i \in DOMAIN l : \E j \in DOMAIN l : p[j] = i
    /\ \A j, k \in DOMAIN l : j < k =>
        LET a == IntervalOf(l[p[j]]).lo
            b == IntervalOf(l[p[k]]).lo IN
        a < b \/ (a = b /\ p[j] < p[k])

UpTo(iv) == [at |-> iv.hi, incl |-> iv.hiIncl]

ScanInit ==
    /\ StablySorts(order, ladder)
    /\ next = 2
    /\ cursor = UpTo(IntervalAt(order[1]))
    /\ gaps = {}

-----------------------------------------------------------------------------
\* Mutation of GapsBefore: a single point left out is no gap.
RangesBefore(iv) ==
    IF iv.lo > cursor.at
    THEN {[lo |-> cursor.at, loIncl |-> ~cursor.incl, hi |-> iv.lo, hiIncl |-> ~iv.loIncl]}
    ELSE {}

\* The switch: what lies between the cursor and the next interval.
GapsBefore(iv) ==
    IF iv.lo > cursor.at
    THEN {[lo |-> cursor.at, loIncl |-> ~cursor.incl, hi |-> iv.lo, hiIncl |-> ~iv.loIncl]}
    ELSE IF iv.lo = cursor.at /\ ~cursor.incl /\ ~iv.loIncl
    THEN {[lo |-> cursor.at, loIncl |-> TRUE, hi |-> cursor.at, hiIncl |-> TRUE]}
    ELSE {}

\* Mutation of Advance: the cursor follows the interval handled last.
AdvanceAlways(iv) == UpTo(iv)

Advance(iv) ==
    IF iv.hi > cursor.at \/ (iv.hi = cursor.at /\ iv.hiIncl) THEN UpTo(iv) ELSE cursor

ScanStep ==
    LET iv == IntervalAt(order[next]) IN
    /\ next <= Len(ladder)
    /\ next' = next + 1
    /\ gaps' = gaps \cup GapsBefore(iv)
    /\ cursor' = Advance(iv)
    /\ UNCHANGED <<ladder, order>>

\* After the loop: values above the cursor.
ScanTop ==
    /\ next = Len(ladder) + 1
    /\ next' = next + 1
    /\ gaps' = IF cursor.at = Infinity THEN gaps
               ELSE gaps \cup {[lo |-> cursor.at, loIncl |-> ~cursor.incl,
                                hi |-> Infinity, hiIncl |-> FALSE]}
    /\ UNCHANGED <<ladder, order, cursor>>

Scanned == next = Len(ladder) + 2

ScanNext == ScanStep \/ ScanTop

-----------------------------------------------------------------------------
ScanTypeOK ==
    /\ ladder \in Seq(Comparator) /\ Scannable(ladder)
    /\ StablySorts(order, ladder)
    /\ next \in 2..(Len(ladder) + 2)
    /\ cursor \in [at : Bounds, incl : BOOLEAN]
    /\ gaps \subseteq Interval

Covered(v) == \E i \in DOMAIN ladder : Satisfies(v, ladder[i])

\* README: "the compiler proves it has no gaps".  If nothing is reported, the
\* engine finds a tier for every value above the lowest bound of the ladder.
\* Comparators with two bounds on one side are beyond the scan.
AcceptedIsCovered ==
    (Scanned /\ gaps = {} /\ \A i \in DOMAIN ladder : Plain(ladder[i])) =>
        \A v \in Values :
            (\E i \in DOMAIN ladder : IntervalAt(i).lo < v) => Covered(v)

\* Every reported gap is one inside its bounds: no tier takes a value strictly
\* between them.
InsideGapsIsUncovered ==
    \A g \in gaps : \A v \in Values : (g.lo < v /\ v < g.hi) => ~Covered(v)

\* detectTierGaps' messages: "No tier covers ... in ...", "No tier covers ... =
\* ... exactly".  Some value the message names has no tier.
ReportedGapsAreReal ==
    \A g \in gaps : \E v \in Values : Within(g, v) /\ ~Covered(v)

=============================================================================
