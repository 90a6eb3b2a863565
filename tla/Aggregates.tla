----------------------------- MODULE Aggregates -----------------------------
(***************************************************************************)
(* An aggregate query's numbers: each task scans some of the records into  *)
(* one row of sufficient state per group (a count, an excluded count, five *)
(* signed decimal limbs, a minimum and a maximum), reducers merge rows of  *)
(* equal groups, and the API reads the reduced rows in the engine's order, *)
(* finalizes the metric and keeps the best few groups in a bounded heap.   *)
(* A group is a histogram bucket.  Its records come in any partition, its  *)
(* rows are merged and offered in any order, and a scan may find nothing.  *)
(* Which inputs a task scans and which outputs a reducer merges is         *)
(* QueryPlan's subject; the native engine is modelled by the statements    *)
(* the code writes for it.                                                 *)
(***************************************************************************)
EXTENDS Integers, FiniteSets, Sequences, FiniteSetsExt

CONSTANTS
    Inputs,         \* the record sets queried: sets of [id, time, value], a missing value is <<>>
    Plans,          \* the requests: [op, name, order, descending, fill, top, start, end]
    IntervalUS,     \* the width of a histogram bucket
    MaxBuckets,     \* HistogramBucketStarts' 2000
    MaxInt64,       \* math.MaxInt64; the least integer is -MaxInt64 - 1
    decimalBase,    \* 10^9: the base of a limb, and the scale of an average
    IntegerLimbCount,
    decimalLimit    \* 10^38 - 1

VARIABLES
    plan,       \* the request
    input,      \* the records of the dataset
    records,    \* the records no task has scanned yet
    rows,       \* the rows of state: a set of [id, states], states a function on groups
    offered,    \* the groups the API has read from the result
    selected,   \* SelectAggregateTopK's heap
    answer      \* <<>> until the query is answered: the groups in order, or an error

vars == <<plan, input, records, rows, offered, selected, answer>>

AggregatesAssumption ==
    /\ {IntervalUS, MaxBuckets, MaxInt64, IntegerLimbCount} \subseteq Nat \ {0}
    /\ decimalBase > 1 /\ decimalLimit < decimalBase ^ IntegerLimbCount
    /\ \A all \in Inputs : \A r \in all : Len(r.value) = 1 => r.value[1] \in -decimalLimit .. decimalLimit

Abs(n) == IF n < 0 THEN -n ELSE n
Sign(n) == IF n < 0 THEN -1 ELSE 1
Quo(n, d) == Sign(n) * (Abs(n) \div d)
Rem(n, d) == n - d * Quo(n, d)
Wrap(n) == ((n + MaxInt64 + 1) % (2 * (MaxInt64 + 1))) - MaxInt64 - 1
Total(S, f(_)) == FoldSet(LAMBDA x, n : n + f(x), 0, S)

-----------------------------------------------------------------------------
(***************************************************************************)
(* Histogram buckets.                                                      *)
(***************************************************************************)

floorMultiple(value) ==
    Wrap((Quo(value, IntervalUS) - (IF Rem(value, IntervalUS) < 0 THEN 1 ELSE 0)) * IntervalUS)

TooLate(start) == start > MaxInt64 - IntervalUS * MaxBuckets

\* How many buckets of the loop lie before the end, counted up to one too many.
BucketCount(start, end) ==
    Cardinality({n \in 0 .. MaxBuckets : start + n * IntervalUS < end})

\* The sets of starts HistogramBucketStarts returns: none when it refuses the range.
HistogramBucketStarts(start, end) ==
    LET first == floorMultiple(start)
        count == BucketCount(first, end)
    IN IF TooLate(first) \/ count > MaxBuckets THEN {}
       ELSE {{first + n * IntervalUS : n \in 0 .. count - 1}}

\* The bucket a record's time falls in, as the scan's statement computes it.
histogramBucketSQL(t) ==
    IF t >= 0 THEN t - Rem(t, IntervalUS)
    ELSE t - Rem(Rem(t, IntervalUS) + IntervalUS, IntervalUS)

-----------------------------------------------------------------------------
(***************************************************************************)
(* Sufficient state.                                                       *)
(***************************************************************************)

Limbs == 0 .. IntegerLimbCount - 1

\* IntegerLimbSQL, and DecimalLimbs for a minimum or a maximum.
IntegerLimbSQL(v, l) == Sign(v) * ((Abs(v) \div decimalBase ^ l) % decimalBase)
DecimalLimbs(v) == [l \in Limbs |-> IntegerLimbSQL(v, l)]

EmptyState == [valid |-> 0, excluded |-> 0, limbs |-> [l \in Limbs |-> 0], min |-> <<>>, max |-> <<>>]

Least(S) == IF S = {} THEN <<>> ELSE <<Min(S)>>
Greatest(S) == IF S = {} THEN <<>> ELSE <<Max(S)>>
Known(options) == {o[1] : o \in options \ {<<>>}}

\* The row a scan emits for the records R of one group.
ScanState(op, R) ==
    LET numeric == {r \in R : r.value # <<>>}
    IN IF op = "count" THEN [EmptyState EXCEPT !.valid = Cardinality(R)]
       ELSE [valid |-> Cardinality(numeric), excluded |-> Cardinality(R) - Cardinality(numeric),
             limbs |-> [l \in Limbs |-> Total(numeric, LAMBDA r : IntegerLimbSQL(r.value[1], l))],
             min |-> Least(Known({r.value : r \in R})), max |-> Greatest(Known({r.value : r \in R}))]

\* The rows of one task: a group for every bucket that has records, and the
\* requested empty buckets that have none.
Scanned(p, R, starts) ==
    LET found == {histogramBucketSQL(r.time) : r \in R}
    IN [b \in found \union (IF p.fill THEN starts ELSE {}) |->
            IF b \in found THEN ScanState(p.op, {r \in R : histogramBucketSQL(r.time) = b}) ELSE EmptyState]

\* The reducer's sums, and MergeIntegerStates.
MergeIntegerStates(a, b) ==
    [valid |-> a.valid + b.valid, excluded |-> a.excluded + b.excluded,
     limbs |-> [l \in Limbs |-> a.limbs[l] + b.limbs[l]],
     min |-> Least(Known({a.min, b.min})), max |-> Greatest(Known({a.max, b.max}))]

\* MergeAggregateGroups: the groups of both rows, the common ones merged.
Merged(s, t) ==
    [b \in DOMAIN s \union DOMAIN t |->
        IF b \in DOMAIN s \intersect DOMAIN t THEN MergeIntegerStates(s[b], t[b])
        ELSE IF b \in DOMAIN s THEN s[b] ELSE t[b]]

-----------------------------------------------------------------------------
(***************************************************************************)
(* Finalization and rank.                                                  *)
(***************************************************************************)

IntegerStateValue(limbs) == Total(Limbs, LAMBDA l : limbs[l] * decimalBase ^ l)

\* Mutant: a tie is rounded away from zero.
RoundedUp(scaled, count) ==
    LET quotient == Quo(scaled, count)
    IN IF 2 * Abs(Rem(scaled, count)) >= count THEN quotient + Sign(scaled) ELSE quotient

\* A tie goes to the even neighbour.
Rounded(scaled, count) ==
    LET quotient == Quo(scaled, count)
        twice == 2 * Abs(Rem(scaled, count))
    IN IF twice > count \/ (twice = count /\ quotient % 2 = 1) THEN quotient + Sign(scaled) ELSE quotient

\* FinalizeIntegerAverage, in units of the last displayed digit.
FinalizeIntegerAverage(s) == Rounded(IntegerStateValue(s.limbs) * decimalBase, s.valid)

Overflows(s) == Abs(IntegerStateValue(s.limbs)) > decimalLimit

\* decodeMetricValue: the sets of values it displays, none when it fails.
Displayed(op, s) ==
    CASE op = "count" -> {<<s.valid>>}
      [] op = "sum" -> IF s.valid = 0 THEN {<<>>} ELSE IF Overflows(s) THEN {} ELSE {<<IntegerStateValue(s.limbs)>>}
      [] op = "avg" -> IF s.valid = 0 THEN {<<>>} ELSE {<<FinalizeIntegerAverage(s)>>}
      [] op = "min" -> {s.min}

\* aggregateRankOrder: what the heap compares.
RankKind(p) ==
    CASE p.order = "count" \/ p.op = "count" -> "count"
      [] p.op = "avg" -> "avg"
      [] OTHER -> "sum"

\* The count decodeAggregateGroup ranks by: all the records of the group, unless
\* the requested order names the metric itself, whose own rank then replaces it.
RankCount(p, s) ==
    IF p.order # p.name THEN s.valid + s.excluded
    ELSE IF p.op = "count" THEN s.valid ELSE 0

\* prepareAggregateRank: a null, or a numerator and a denominator.
prepareAggregateRank(p, s) ==
    CASE RankKind(p) = "count" -> <<RankCount(p, s), 1>>
      [] s.valid = 0 -> <<>>
      [] p.op = "avg" -> <<IntegerStateValue(s.limbs), s.valid>>
      [] p.op = "min" -> <<IntegerStateValue(DecimalLimbs(s.min[1])), 1>>
      [] p.op = "sum" -> <<IntegerStateValue(s.limbs), 1>>

Cross(a, b) == a[1] * b[2] - b[1] * a[2]

\* compareAggregateRank: g ranks before h.
RanksBefore(p, g, h) ==
    IF (g.rank = <<>>) # (h.rank = <<>>) THEN h.rank = <<>>
    ELSE LET c == IF g.rank = <<>> THEN 0 ELSE Cross(g.rank, h.rank)
             directed == IF p.descending THEN -c ELSE c
         IN directed < 0 \/ (directed = 0 /\ g.key < h.key)

\* A step of SelectAggregateTopK: a full heap replaces its worst group by a better one.
Retained(p, heap, g) ==
    LET worst == CHOOSE w \in heap : \A x \in heap \ {w} : RanksBefore(p, x, w)
    IN IF Cardinality(heap) < p.top THEN heap \union {g}
       ELSE IF RanksBefore(p, g, worst) THEN (heap \ {worst}) \union {g} ELSE heap

InRankOrder(p, heap) ==
    [n \in 1 .. Cardinality(heap) |->
        CHOOSE g \in heap : Cardinality({x \in heap : RanksBefore(p, x, g)}) = n - 1]

-----------------------------------------------------------------------------
(***************************************************************************)
(* The query.                                                              *)
(***************************************************************************)

Unanswered == <<>>
Refusal(code) == [error |-> code, groups |-> <<>>]

\* BuildAggregateOperation refuses a histogram it cannot enumerate.
Refuse ==
    /\ answer = Unanswered /\ rows = {}
    /\ HistogramBucketStarts(plan.start, plan.end) = {}
    /\ answer' = <<Refusal("query_limit_exceeded")>>
    /\ UNCHANGED <<plan, input, records, rows, offered, selected>>

\* A scan task: the records of its files, none of them possibly matching.
Scan(R) ==
    /\ answer = Unanswered /\ offered = {} /\ R \subseteq records /\ (records # {} \/ rows = {})
    /\ \E starts \in HistogramBucketStarts(plan.start, plan.end) :
        rows' = rows \union {[id |-> {r.id : r \in R}, states |-> Scanned(plan, R, starts)]}
    /\ records' = records \ R
    /\ UNCHANGED <<plan, input, offered, selected, answer>>

\* A reducer: the rows of two outputs become one.
Reduce(s, t) ==
    /\ answer = Unanswered /\ offered = {} /\ s # t
    /\ rows' = (rows \ {s, t}) \union {[id |-> s.id \union t.id, states |-> Merged(s.states, t.states)]}
    /\ UNCHANGED <<plan, input, records, offered, selected, answer>>

\* finalizeAggregate reads the next group of the result, in the engine's order.
Offer(b) ==
    /\ answer = Unanswered /\ records = {} /\ Cardinality(rows) = 1
    /\ LET states == (CHOOSE row \in rows : TRUE).states
       IN /\ b \in DOMAIN states \ offered
          /\ IF Displayed(plan.op, states[b]) = {}
             THEN answer' = <<Refusal("numeric_overflow")>> /\ UNCHANGED selected
             ELSE /\ \E shown \in Displayed(plan.op, states[b]) :
                        selected' = Retained(plan, selected, [key |-> b, rank |-> prepareAggregateRank(plan, states[b]), shown |-> shown])
                  /\ UNCHANGED answer
    /\ offered' = offered \union {b}
    /\ UNCHANGED <<plan, input, records, rows>>

\* The end of the result: the heap in rank order.
Answer ==
    /\ answer = Unanswered /\ records = {}
    /\ \E row \in rows : rows = {row} /\ offered = DOMAIN row.states
    /\ answer' = <<[error |-> "none", groups |-> InRankOrder(plan, selected)]>>
    /\ UNCHANGED <<plan, input, records, rows, offered, selected>>

Init ==
    /\ plan \in Plans
    /\ \E all \in Inputs : input = {r \in all : plan.start <= r.time /\ r.time < plan.end}
    /\ records = input
    /\ rows = {} /\ offered = {} /\ selected = {} /\ answer = Unanswered

Next ==
    \/ Refuse \/ Answer
    \/ \E R \in SUBSET records : Scan(R)
    \/ \E s, t \in rows : Reduce(s, t)
    \/ \E row \in rows : \E b \in DOMAIN row.states : Offer(b)

Spec == Init /\ [][Next]_vars

-----------------------------------------------------------------------------
(***************************************************************************)
(* What the answer should be, straight from the records.                   *)
(***************************************************************************)

In(b, R) == {r \in R : b <= r.time /\ r.time < b + IntervalUS}
Values(R) == {r \in R : r.value # <<>>}
Exact(R) == Total(Values(R), LAMBDA r : r.value[1])
Aligned == {n * IntervalUS : n \in -(MaxInt64 + 1) .. MaxInt64}
Buckets == {b \in Aligned : b + IntervalUS > plan.start /\ b < plan.end}
Groups == IF plan.fill THEN Buckets ELSE {b \in Buckets : In(b, input) # {}}
Answered == answer # Unanswered
Shown == IF Answered THEN answer[1].groups ELSE <<>>

\* The rational a group is ordered by; <<>> is null.
Wanted(b) ==
    LET R == In(b, input)
    IN CASE plan.op = "count" \/ plan.order # plan.name -> <<Cardinality(R), 1>>
         [] Values(R) = {} -> <<>>
         [] plan.op = "min" -> <<Min({r.value[1] : r \in Values(R)}), 1>>
         [] plan.op = "avg" -> <<Exact(R), Cardinality(Values(R))>>
         [] plan.op = "sum" -> <<Exact(R), 1>>

Precedes(b, c) ==
    LET x == Wanted(b)
        y == Wanted(c)
        more == x # <<>> /\ y # <<>> /\ x[1] * y[2] > y[1] * x[2]
        less == x # <<>> /\ y # <<>> /\ x[1] * y[2] < y[1] * x[2]
    IN \/ x # <<>> /\ y = <<>>
       \/ IF plan.descending THEN more ELSE less
       \/ (x = <<>>) = (y = <<>>) /\ ~more /\ ~less /\ b < c

\* The variables keep their types and the heap its bound.
TypeOK ==
    /\ plan \in Plans /\ records \subseteq input
    /\ \A row \in rows : \A b \in DOMAIN row.states : row.states[b].valid \in Nat /\ row.states[b].excluded \in Nat
    /\ Cardinality(selected) <= plan.top
    /\ Answered => answer[1].error \in {"none", "query_limit_exceeded", "numeric_overflow"}

\* However the records are split among tasks and the rows merged, the rows of
\* a bucket together hold the exact count, excluded count, sum and minimum of
\* the records scanned so far, in the limbs the scan's statement cuts
\* (IntegerLimbSQL, MergeIntegerStates, HistogramBucketStarts).
StatesAreExact ==
    LET done == input \ records
        held(b) == {row \in rows : b \in DOMAIN row.states}
        R(b) == In(b, done)
    IN rows # {} => \A b \in Aligned :
        /\ Total(held(b), LAMBDA row : row.states[b].valid + row.states[b].excluded) = Cardinality(R(b))
        /\ plan.op # "count" =>
            /\ Total(held(b), LAMBDA row : row.states[b].excluded) = Cardinality(R(b) \ Values(R(b)))
            /\ Total(held(b), LAMBDA row : IntegerStateValue(row.states[b].limbs)) = Exact(R(b))
            /\ Least(Known({row.states[b].min : row \in held(b)})) = Least(Known({r.value : r \in R(b)}))

\* Every displayed metric is the one of the bucket's records: an average is the
\* nearest decimal of the scale with ties to the even digit, and a sum is never
\* outside DECIMAL(38,0) (FinalizeIntegerSum, FinalizeIntegerAverage).
ValuesAreExact ==
    \A n \in DOMAIN Shown :
        LET R == In(Shown[n].key, input)
            count == Cardinality(Values(R))
            v == Shown[n].shown
            off == 2 * Abs(v[1] * count - Exact(R) * decimalBase)
        IN IF plan.op = "count" THEN v = <<Cardinality(R)>>
           ELSE IF count = 0 THEN v = <<>>
           ELSE CASE plan.op = "sum" -> v = <<Exact(R)>> /\ Abs(Exact(R)) <= decimalLimit
                  [] plan.op = "avg" -> off < count \/ (off = count /\ v[1] % 2 = 0)
                  [] plan.op = "min" -> v = <<Min({r.value[1] : r \in Values(R)})>>

\* A sum overflows only when a group's exact sum does: a partial sum, a merge or
\* an average of large values never fails the query (FinalizeIntegerSum).
OnlyFinalSumsOverflow ==
    (Answered /\ answer[1].error = "numeric_overflow") =>
        plan.op = "sum" /\ \E b \in Groups : Abs(Exact(In(b, input))) > decimalLimit

\* The metric ordered by is not a sum, average or minimum that was named "count".
PlainName == plan.op = "count" \/ plan.name # "count"

\* The requested groups in the requested order, and no others.
IsTopK ==
    LET n == Len(Shown)
        keys == {Shown[i].key : i \in 1 .. n}
    IN (Answered /\ answer[1].error = "none") =>
        /\ n = Min({plan.top, Cardinality(Groups)}) /\ keys \subseteq Groups
        /\ \A i, j \in 1 .. n : i < j => Precedes(Shown[i].key, Shown[j].key)
        /\ \A b \in Groups \ keys : \A k \in keys : Precedes(k, b)

\* The answer is the first groups of the whole result in the requested order,
\* null last and ties by the group's key, whatever order the engine returned
\* them in; an average ranks by its unrounded value; with empty buckets every
\* bucket that meets the time range is a group (SelectAggregateTopK,
\* HistogramBucketStarts).
TopKIsExact == PlainName => IsTopK

=============================================================================
