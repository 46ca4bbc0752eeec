----------------------------- MODULE RangeModel ------------------------------
(***************************************************************************)
(* How the day-range model is fitted, calibrated, used and judged           *)
(* (internal/dayrange/model.go, validation.go, eval.go): functions of their *)
(* arguments, without state.  Prices and labels are levels of the           *)
(* logarithm, in which a price is the reference plus what the trees and the *)
(* calibration add.  A quotient is kept as numerator and denominator, and   *)
(* compared by multiplying; floating-point rounding is left out.            *)
(***************************************************************************)
EXTENDS Integers, FiniteSets, SequencesExt, FiniteSetsExt

CONSTANTS
    Missing,            \* NaN, and a metric that a report does not have
    Bins, MaxDepth, MinLeaf, Ridge  \* Hyperparameters: of TrainOptions, L2 as Ridge

ASSUME ModelAssumption ==
    /\ Bins \in Nat \ {0, 1} /\ MaxDepth \in Nat /\ MinLeaf \in Nat \ {0} /\ Ridge \in Nat
    /\ Missing \notin Int

Level == <<10, 50, 90>>
Side == {"high", "low"}

LOCAL Least(a, b) == IF a < b THEN a ELSE b
LOCAL Most(a, b) == IF a > b THEN a ELSE b

\* quantile, of a level in hundredths.
quantile(values, level) ==
    LET n == Len(values) index == (level * n + 99) \div 100
    IN SortSeq(values, <)[IF index < 1 THEN 1 ELSE IF index > n THEN n ELSE index]

-----------------------------------------------------------------------------
\* Training: one tree over the rows, each a function of the features.

\* featureThresholds, doubled so that a midpoint is a number: between all values if
\* they are few, else at every n-th of them.
featureThresholds(values) ==
    LET unique == SetToSortSeq(values, <) n == Cardinality(values)
    IN IF n < 2 THEN <<>>
       ELSE IF n <= Bins THEN [i \in 1 .. n - 1 |-> unique[i] + unique[i + 1]]
       ELSE [k \in 1 .. Bins - 1 |-> 2 * unique[(k * n) \div Bins]]

\* newBinner: the thresholds below the value.
BinOf(thresholds, value) == Cardinality({i \in DOMAIN thresholds : thresholds[i] < 2 * value})

\* A split of rows: the rows that go left.  They go by their bins.
GoesLeft(split, row) ==
    IF row[split.feature] = Missing THEN split.missingLeft
    ELSE BinOf(split.thresholds, row[split.feature]) < split.index

SumOf(residual, rows) == MapThenSumSet(LAMBDA r : residual[r], rows)

\* splitScore, as a quotient.
splitScore(residual, left, right) ==
    LET l == SumOf(residual, left) r == SumOf(residual, right)
        lc == Cardinality(left) + Ridge rc == Cardinality(right) + Ridge
    IN [of |-> l * l * rc + r * r * lc, by |-> lc * rc]

\* The splits of a node in the order they are tried, those with a side that is too
\* small left out.
Splits(data, rows) ==
    LET of(f) == featureThresholds({data[r][f] : r \in DOMAIN data} \ {Missing})
        all == {[feature |-> f, thresholds |-> of(f), index |-> j, missingLeft |-> m] :
                    f \in DOMAIN data[1], j \in 1 .. Bins, m \in BOOLEAN}
    IN {s \in all :
           /\ s.index \in DOMAIN s.thresholds
           /\ LET left == {r \in rows : GoesLeft(s, data[r])} IN
              Cardinality(left) >= MinLeaf /\ Cardinality(rows \ left) >= MinLeaf}

TriedBefore(s, t) ==
    \/ s.feature < t.feature
    \/ s.feature = t.feature /\ s.index < t.index
    \/ s.feature = t.feature /\ s.index = t.index /\ s.missingLeft /\ ~t.missingLeft

BestSplit(data, residual, rows) ==
    LET left(s) == {r \in rows : GoesLeft(s, data[r])}
        score(s) == splitScore(residual, left(s), rows \ left(s))
        atMost(a, b) == a.of * b.by <= b.of * a.by
    IN CHOOSE s \in Splits(data, rows) : \A t \in Splits(data, rows) \ {s} :
           atMost(score(t), score(s)) /\ (atMost(score(s), score(t)) => TriedBefore(s, t))

\* build: a leaf holds the sum and the count that its value is made from, a node its
\* threshold.
fit(data, residual) ==
    LET build[depth \in 0 .. MaxDepth, rows \in SUBSET DOMAIN data] ==
            IF depth >= MaxDepth \/ Cardinality(rows) < 2 * MinLeaf \/ Splits(data, rows) = {}
            THEN [leaf |-> TRUE, sum |-> SumOf(residual, rows), by |-> Cardinality(rows) + Ridge]
            ELSE LET split == BestSplit(data, residual, rows)
                     left == {r \in rows : GoesLeft(split, data[r])}
                 IN [leaf |-> FALSE, feature |-> split.feature,
                     threshold |-> split.thresholds[split.index], missingLeft |-> split.missingLeft,
                     left |-> build[depth + 1, left], right |-> build[depth + 1, rows \ left]]
    IN  build[0, DOMAIN data]

\* predictTree: the way to a leaf, which goes by the values.
predictTree(tree, row) ==
    LET goesLeft(node) == IF row[node.feature] = Missing THEN node.missingLeft
                          ELSE 2 * row[node.feature] <= node.threshold
        way[n \in 0 .. MaxDepth] ==
            IF n = 0 THEN [path |-> <<>>, leaf |-> tree]
            ELSE LET node == way[n - 1].leaf IN
                 IF node.leaf THEN way[n - 1]
                 ELSE [path |-> Append(way[n - 1].path, goesLeft(node)),
                       leaf |-> IF goesLeft(node) THEN node.left ELSE node.right]
    IN  way[MaxDepth]

-----------------------------------------------------------------------------
\* Calibrate: what is added for each level, from what the trees missed.
Calibrate(residuals) == [i \in DOMAIN Level |-> quantile(residuals, Level[i])]

\* calibratedEstimate: the prices are made nondecreasing.
calibratedEstimate(reference, pointLog, offsets) ==
    LET price == [i \in 1 .. 3 |-> reference + pointLog + offsets[i]]
        second == Most(price[1], price[2])
    IN [point |-> second, quantiles |-> <<price[1], second, Most(second, price[3])>>,
        lower |-> price[1], upper |-> Most(second, price[3])]

\* Predict: the high is raised to the low where it is below it.
Predict(high, low) ==
    LET crossed == {i \in 1 .. 3 : high.quantiles[i] < low.quantiles[i]}
        touched == crossed \ {2} # {}
        point == Most(high.point, low.point)
        lower == IF touched THEN Least(high.lower, low.lower) ELSE high.lower
        upper == IF touched THEN Most(high.upper, low.upper) ELSE high.upper
    IN [high |-> [point |-> point,
                  quantiles |-> [i \in 1 .. 3 |-> Most(high.quantiles[i], low.quantiles[i])],
                  lower |-> Least(lower, point), upper |-> Most(upper, point)],
        low |-> [low EXCEPT !.lower = Least(@, low.point), !.upper = Most(@, low.point)]]

\* validateForecast: what Evaluate refuses, and with it the whole training.
validateForecast(f) ==
    /\ \A side \in Side :
          /\ \A i \in 1 .. 2 : f[side].quantiles[i] <= f[side].quantiles[i + 1]
          /\ f[side].lower <= f[side].point /\ f[side].point <= f[side].upper
    /\ f.high.point >= f.low.point
    /\ \A i \in 1 .. 3 : f.high.quantiles[i] >= f.low.quantiles[i]
    /\ f.high.lower >= f.low.lower /\ f.high.upper >= f.low.upper

-----------------------------------------------------------------------------
\* Evaluation: the measures of one observation, by the side they are of.

Indicator(condition) == IF condition THEN 1 ELSE 0

Measure(forecast, actual, side) ==
    LET e == forecast[side] a == actual[side]
        below == Most(e.lower - a, 0) above == Most(a - e.upper, 0)
    IN [error |-> Most(e.point - a, a - e.point), bias |-> e.point - a,
        coverage |-> Indicator(e.lower <= a /\ a <= e.upper),
        lowerBreach |-> Indicator(a < e.lower), upperBreach |-> Indicator(a > e.upper),
        width |-> e.upper - e.lower, score |-> e.upper - e.lower + 10 * (below + above),
        lowerExceedance |-> below, upperExceedance |-> above]

\* Of both extremes: the outer envelope, and both intervals.
Envelope(forecast, actual) ==
    Indicator(actual.low >= forecast.low.lower /\ actual.high <= forecast.high.upper)
Joint(forecast, actual) ==
    Indicator(/\ Envelope(forecast, actual) = 1
              /\ actual.low <= forecast.low.upper /\ actual.high >= forecast.high.lower)

\* The loss of a quantile, in hundredths.
Pinball(level, price, actual) ==
    LET delta == actual - price IN Most(level * delta, (level - 100) * delta)

\* summarizeDays and aggregate: the mean of the days' means, as a quotient.  A row is
\* of a date and has a value.
DayEqual(rows) ==
    LET dates == {r.date : r \in rows}
        on(d) == {r \in rows : r.date = d}
        by == MapThenFoldSet(LAMBDA a, b : a * b, 1, LAMBDA d : Cardinality(on(d)),
                             LAMBDA S : CHOOSE x \in S : TRUE, dates)
    IN [of |-> MapThenSumSet(LAMBDA d : (by \div Cardinality(on(d)))
                                          * MapThenSumSet(LAMBDA r : r.value, on(d)), dates),
        by |-> by * Cardinality(dates)]
Pooled(rows) == [of |-> MapThenSumSet(LAMBDA r : r.value, rows), by |-> Cardinality(rows)]

\* Evaluate: the metrics that the gate reads, of observations with an actual.
Evaluate(observations) ==
    LET rows(side, field) ==
            {[date |-> o.date, code |-> o.code, value |-> Measure(o.forecast, o.actual, side)[field]] :
                 o \in observations}
        of(field) == [side \in Side |-> IF observations = {} THEN Missing ELSE DayEqual(rows(side, field))]
    IN [mae |-> of("error"), coverage |-> of("coverage"), width |-> of("width"),
        days |-> Cardinality({o.date : o \in observations}), samples |-> Cardinality(observations)]

\* EvaluateValidation: the model and the baseline over the same samples.
EvaluateValidation(samples, forecast(_)) ==
    LET used == {s \in samples : s.baseline # Missing}
        observed(f(_)) == {[date |-> s.date, code |-> s.code, actual |-> s.actual, forecast |-> f(s)] : s \in used}
    IN [candidate |-> Evaluate(observed(forecast)),
        baseline |-> Evaluate(observed(LAMBDA s : s.baseline))]

\* CheckGate: the reasons against the candidate.
CheckGate(candidate, baseline, minimumDays, minimumSamples) ==
    LET valid == \A side \in Side :
                     /\ candidate.mae[side] # Missing /\ baseline.mae[side] # Missing
                     /\ candidate.coverage[side] # Missing
                     /\ candidate.width[side] # Missing /\ baseline.width[side] # Missing
                     /\ baseline.width[side].of > 0
        notBetter(side) == candidate.mae[side].of * baseline.mae[side].by * 100
                             > baseline.mae[side].of * candidate.mae[side].by * 95
        outside(side) == LET c == candidate.coverage[side]
                         IN c.of * 100 < 75 * c.by \/ c.of * 100 > 85 * c.by
        wider(side) == candidate.width[side].of * baseline.width[side].by * 100
                         > baseline.width[side].of * candidate.width[side].by * 110
    IN {r \in {"missing_required_metrics"} : ~valid}
       \cup {r \in {"insufficient_validation"} :
                candidate.days < minimumDays \/ candidate.samples < minimumSamples}
       \cup {r \in {"high_point_not_5pct_better"} : valid /\ notBetter("high")}
       \cup {r \in {"low_point_not_5pct_better"} : valid /\ notBetter("low")}
       \cup {r \in {"marginal_coverage_outside_75_85"} : valid /\ \E side \in Side : outside(side)}
       \cup {r \in {"interval_width_over_110pct"} : valid /\ \E side \in Side : wider(side)}
=============================================================================
