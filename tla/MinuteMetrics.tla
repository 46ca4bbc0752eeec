---------------------------- MODULE MinuteMetrics ----------------------------
(***************************************************************************)
(* How the minute predictor is measured (predictor/metrics.go) and what     *)
(* names a measure (modeleval/metrics.go): functions of the evidence, a set *)
(* of observations.  Returns are whole numbers of 1/Unit; a quotient is     *)
(* kept as numerator and denominator; a number that is not finite, and a    *)
(* measure that does not apply, is NaN.  The confidence intervals, made     *)
(* by resampling, are left out, but for the days that they need.            *)
(***************************************************************************)
EXTENDS Integers, FiniteSets, SequencesExt, FiniteSetsExt

CONSTANTS
    NaN,            \* a number that is not finite, a measure that does not apply
    Unit,           \* a return of 100 %
    MinPerClass,    \* 30 in the code
    MinShare,       \* 10, in hundredths
    MinDays         \* 10, of a confidence interval

ASSUME MetricsAssumption ==
    /\ Unit \in Nat \ {0} /\ MinPerClass \in Nat /\ MinShare \in Nat /\ MinDays \in Nat
    /\ NaN \notin Int

Target == {"high", "low", "close"}
Aggregation == {"pooled", "day_equal"}
Class == {"up", "down", "flat"}

LOCAL Abs(n) == IF n < 0 THEN 0 - n ELSE n
LOCAL Total(value(_), S) == MapThenSumSet(value, S)
LOCAL Plus(q, r) == [of |-> q.of * r.by + r.of * q.by, by |-> q.by * r.by]
Ratio(of, by) == IF by = 0 THEN NaN ELSE [of |-> of, by |-> by]
Less(q, r) == q.of * r.by < r.of * q.by
Equal(q, r) == q.of * r.by = r.of * q.by

\* mean, of a quotient for each element of a set.
MeanOf(value(_), S) ==
    IF S = {} THEN NaN
    ELSE LET sum == FoldSet(LAMBDA x, acc : Plus(value(x), acc), [of |-> 0, by |-> 1], S)
         IN [sum EXCEPT !.by = @ * Cardinality(S)]

\* median, doubled; the 90th percentile.
Ordered(value(_), S) == FlattenSeq(LET distinct == SetToSortSeq({value(x) : x \in S}, <)
    IN [i \in DOMAIN distinct |-> [k \in 1 .. Cardinality({x \in S : value(x) = distinct[i]}) |-> distinct[i]]])
median2(list) == LET n == Len(list) IN list[(n + 1) \div 2] + list[n \div 2 + 1]
percentile90(list) == LET n == Len(list) i == (9 * n + 9) \div 10 IN list[IF i < 1 THEN 1 ELSE i]

-----------------------------------------------------------------------------
\* Evidence.

targetMetricsFinite(metrics) == \A t \in Target : metrics[t] # NaN

\* The two point baselines: the range and the close of the input bar again, half the
\* mean range of the last bars around it.
naiveLastPrediction(sample) == [high |-> sample.high, low |-> sample.low, close |-> 0]
naiveRangePrediction(sample) == [high |-> sample.halfRange, low |-> 0 - sample.halfRange, close |-> 0]

\* metricAccumulator.add: the observation, or none.
add(sample, predicted) ==
    IF sample.inputClose <= 0 \/ ~targetMetricsFinite(sample.labels) \/ ~targetMetricsFinite(predicted) THEN {}
    ELSE {[date |-> sample.date, code |-> sample.code, at |-> sample.at, inputClose |-> sample.inputClose,
           actual |-> sample.labels, predicted |-> predicted,
           last |-> naiveLastPrediction(sample), range |-> naiveRangePrediction(sample)]}

\* selectMetricEvidence: judge another prediction by the same observations.
Judge(evidence, as) ==
    {[x EXCEPT !.predicted = x[as]] : x \in {y \in evidence : targetMetricsFinite(y[as])}}

DaysOf(evidence) == {x.date : x \in evidence}
OfDay(evidence, d) == {x \in evidence : x.date = d}
Stats(evidence) == [samples |-> Cardinality(evidence), days |-> Cardinality(DaysOf(evidence)),
                    stocks |-> Cardinality({x.code : x \in evidence})]

\* directionDataset.aggregate: of everything, or the mean over the days where it applies.
Aggregate(aggregation, measure(_), evidence) ==
    IF evidence = {} THEN NaN
    ELSE IF aggregation = "pooled" THEN measure(evidence)
    ELSE LET daily == [d \in DaysOf(evidence) |-> measure(OfDay(evidence, d))]
         IN MeanOf(LAMBDA d : daily[d], {d \in DOMAIN daily : daily[d] # NaN})

\* confidenceInterval: whether there is one.
HasInterval(measure(_), evidence) ==
    Cardinality({d \in DaysOf(evidence) : measure(OfDay(evidence, d)) # NaN}) >= MinDays

-----------------------------------------------------------------------------
\* Points: in returns, and in prices of 1/Unit.

Off(x, target) == x.predicted[target] - x.actual[target]

PointReturn(evidence, target) ==
    LET errors == Ordered(LAMBDA x : Abs(Off(x, target)), evidence) n == Cardinality(evidence)
    IN [mae |-> Ratio(Total(LAMBDA x : Abs(Off(x, target)), evidence), n),
        mse |-> Ratio(Total(LAMBDA x : Off(x, target) * Off(x, target), evidence), n),
        medae |-> [of |-> median2(errors), by |-> 2],
        p90 |-> [of |-> percentile90(errors), by |-> 1],
        bias |-> Ratio(Total(LAMBDA x : Off(x, target), evidence), n)]

MAE(target, evidence) == Aggregate("day_equal", LAMBDA E : PointReturn(E, target).mae, evidence)

ActualPrice(x, target) == x.inputClose * (Unit + x.actual[target])
PredictedPrice(x, target) == x.inputClose * (Unit + x.predicted[target])

\* pointPriceAggregate: what would have had no price is left out.
PointPrice(evidence, target) ==
    LET priced == {x \in evidence : ActualPrice(x, target) > 0}
        n == Cardinality(priced)
        off(x) == Abs(PredictedPrice(x, target) - ActualPrice(x, target))
        size(x) == Abs(PredictedPrice(x, target)) + ActualPrice(x, target)
        sum == Total(LAMBDA x : ActualPrice(x, target), priced)
        sst == Total(LAMBDA x : (n * ActualPrice(x, target) - sum) * (n * ActualPrice(x, target) - sum), priced)
        sse == Total(LAMBDA x : n * off(x) * n * off(x), priced)
    IN [mape |-> MeanOf(LAMBDA x : [of |-> off(x), by |-> ActualPrice(x, target)], priced),
        smape |-> MeanOf(LAMBDA x : [of |-> 2 * off(x), by |-> size(x)], priced),
        r2 |-> Ratio(sst - sse, sst)]

\* skillRecord.
Skill(candidate, baseline) ==
    IF NaN \in {candidate, baseline} THEN NaN
    ELSE Ratio(candidate.by * baseline.of - candidate.of * baseline.by, candidate.by * baseline.of)

pointSkill(evidence, target, as) == Skill(MAE(target, evidence), MAE(target, Judge(evidence, as)))

\* envelopeRecords.
EnvelopeHit(x) == x.predicted.high >= x.actual.high /\ x.predicted.low <= x.actual.low
Contradiction(x) == x.predicted.high < x.predicted.low
Share(holds(_), evidence) == Ratio(Cardinality({x \in evidence : holds(x)}), Cardinality(evidence))

-----------------------------------------------------------------------------
\* Directions.

directionClass(value, band) ==
    IF Abs(value) <= band THEN "flat" ELSE IF value > 0 THEN "up" ELSE "down"

\* buildDirectionDataset: a band of 0 has the exact sign; bars that did not move are
\* left out, or a class of their own.
Directions(evidence, target, band, excludeZero) ==
    {[date |-> x.date, code |-> x.code, at |-> x.at,
      actual |-> directionClass(x.actual[target], band),
      predicted |-> directionClass(x.predicted[target], band)] :
        x \in {y \in evidence : ~(excludeZero /\ y.actual[target] = 0)}}

\* majorityDirectionDataset: the class that is the more frequent in all the evidence.
MajorityDirections(evidence) ==
    LET observed == Directions(evidence, "close", 0, TRUE)
        number(c) == Cardinality({o \in observed : o.actual = c})
        majority == IF number("up") >= number("down") THEN "up" ELSE "down"
    IN {[o EXCEPT !.predicted = majority] : o \in observed}

Hits(observed) == {o \in observed : o.actual = o.predicted}
ActualCount(observed, c) == Cardinality({o \in observed : o.actual = c})
PredictedCount(observed, c) == Cardinality({o \in observed : o.predicted = c})

directionAccuracy(observed) == Ratio(Cardinality(Hits(observed)), Cardinality(observed))
classPrecision(observed, c) == Ratio(ActualCount(Hits(observed), c), PredictedCount(observed, c))
classRecall(observed, c) == Ratio(ActualCount(Hits(observed), c), ActualCount(observed, c))

classF1(observed, c) ==
    LET p == classPrecision(observed, c) r == classRecall(observed, c) IN
    IF NaN \in {p, r} \/ p.of + r.of = 0 THEN NaN
    ELSE [of |-> 2 * p.of * r.of, by |-> p.of * r.by + r.of * p.by]

balancedAccuracy(observed) ==
    MeanOf(LAMBDA c : classRecall(observed, c), {o.actual : o \in observed})

\* matthewsCorrelation: the numerator, and the square of the denominator.
matthewsCorrelation(observed) ==
    LET n == Cardinality(observed)
        actualSquares == Total(LAMBDA c : ActualCount(observed, c) * ActualCount(observed, c), Class)
        predictedSquares == Total(LAMBDA c : PredictedCount(observed, c) * PredictedCount(observed, c), Class)
    IN Ratio(n * Cardinality(Hits(observed)) - actualSquares,
             (n * n - actualSquares) * (n * n - predictedSquares))

highLowDirectionEligible(observed) ==
    observed # {} /\ \A c \in {"up", "down"} :
        /\ ActualCount(observed, c) >= MinPerClass
        /\ ActualCount(observed, c) * 100 >= MinShare * Cardinality(observed)

\* majorityDeltaRecord.
majorityDelta(evidence) ==
    LET accuracy(observed) == Aggregate("day_equal", directionAccuracy, observed)
        candidate == accuracy(Directions(evidence, "close", 0, TRUE))
        majority == accuracy(MajorityDirections(evidence))
    IN IF NaN \in {candidate, majority} THEN NaN
       ELSE Plus(candidate, [majority EXCEPT !.of = 0 - @])
=============================================================================
