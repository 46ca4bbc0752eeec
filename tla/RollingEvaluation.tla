-------------------------- MODULE RollingEvaluation --------------------------
(***************************************************************************)
(* The rolling evaluation of the minute predictor (predictor/eval.go):      *)
(* validation dates one after the other, each judged by a model of all that *)
(* came before (B0), by one model for each window of trading days, by their *)
(* two means (E0, E1), and by the naive forecasts; then the records that    *)
(* the report holds.  A model is the days it was trained on, and what it    *)
(* predicts a choice.  With it, the market states (predictor/regime.go) and *)
(* the report that a date is evaluated with (predictor/pit.go).             *)
(***************************************************************************)
EXTENDS MinuteMetrics

CONSTANTS
    LastDay,            \* the trading days are 1 .. LastDay
    ValidationDates,    \* the trading days to validate
    Windows,            \* their lengths
    MinTrainingDays,
    EvalCode,
    Moves,              \* by how much a close may go up or down
    Market,             \* the levels of the index, with NaN
    RegimeDays,         \* 20
    Band                \* within it of their mean, in hundredths, the market ranges: 1

ASSUME RollingAssumption ==
    /\ LastDay \in Nat /\ ValidationDates \subseteq 1 .. LastDay
    /\ Windows \subseteq Nat \ {0} /\ Windows # {}
    /\ MinTrainingDays \in Nat \ {0} /\ RegimeDays \in Nat \ {0} /\ Band \in Nat
    /\ Moves \subseteq Nat /\ IsFiniteSet(EvalCode)

TradingDays == 1 .. LastDay
Move == Moves \cup {0 - m : m \in Moves}

\* A mutant: the validation date among them.
BeforeOrOn(d) == {x \in TradingDays : x <= d}

DaysBefore(d) == {x \in TradingDays : x < d}

\* BuildMarketRegimes, of a function from trading days to closes.
marketState(closes, d) ==
    LET window == {x \in DaysBefore(d) : x >= d - RegimeDays}
        sum == MapThenSumSet(LAMBDA x : closes[x], window)
        last == closes[d - 1] * RegimeDays * 100
    IN IF Cardinality(window) < RegimeDays \/ \E x \in window : closes[x] = NaN THEN "unknown"
       ELSE IF last > sum * (100 + Band) THEN "up"
       ELSE IF last < sum * (100 - Band) THEN "down" ELSE "range"

State == {"up", "range", "down", "unknown"}

-----------------------------------------------------------------------------
\* LoadPointInTimeReport.  A report is of a day (asOf) for a target, made at a time; the
\* market opens on the target at the time "opens".

OfTarget(reports, target) ==
    {r \in reports : r.target = target /\ r.asOf < target /\ r.asOf >= target - 15 /\ r.generated # NaN}

Latest(reports) ==
    CHOOSE r \in reports : \A q \in reports :
        q.asOf < r.asOf \/ (q.asOf = r.asOf /\ q.generated <= r.generated)

PointInTime(archive, selections, target, opens, allowLate) ==
    LET timely(reports) == {r \in OfTarget(reports, target) : r.generated < opens}
        late(reports) == {r \in OfTarget(reports, target) : allowLate /\ r.generated >= opens}
        source == IF timely(archive) # {} THEN "archive"
                  ELSE IF late(archive) # {} THEN "archive-late"
                  ELSE IF timely(selections) # {} THEN "selection_run"
                  ELSE IF late(selections) # {} THEN "selection_run-late" ELSE "none"
        reports == CASE source = "archive" -> timely(archive)
                     [] source = "archive-late" -> late(archive)
                     [] source = "selection_run" -> timely(selections)
                     [] source = "selection_run-late" -> late(selections)
                     [] OTHER -> {}
    IN [source |-> source, report |-> IF reports = {} THEN NaN ELSE Latest(reports)]

-----------------------------------------------------------------------------
\* The models of a date: of all trading days before it, and of the last ones.
B0 == <<"B0", 0>>
Window(w) == <<"window", w>>
WindowModels == {Window(w) : w \in Windows}
Model == {B0} \cup WindowModels
Filtered == {<<"E1-filtered", 0>>, <<"B0-filtered", 0>>}
Name == Model \cup Filtered \cup {<<"N0-last", 0>>, <<"N0-range", 0>>, <<"E0", 0>>, <<"E1", 0>>}

lastTradingDays(days, n) == {x \in days : Cardinality({y \in days : y >= x}) <= n}
TrainingDays(model, d) == IF model = B0 THEN DaysBefore(d) ELSE lastTradingDays(DaysBefore(d), model[2])

\* Why a date is passed over, with the days that have samples; or "".  The first
\* window that fails names it.
SkipReason(available, sampled, d) ==
    LET window == {w \in Windows : \/ Cardinality(DaysBefore(d)) < w
                                   \/ ~(TrainingDays(Window(w), d) \subseteq sampled)}
    IN IF ~available THEN "data_unavailable"
       ELSE IF d \notin sampled THEN "no_validation_samples"
       ELSE IF Cardinality(DaysBefore(d)) < MinTrainingDays THEN "insufficient_training_days"
       ELSE IF DaysBefore(d) \cap sampled = {} THEN "no_b0_training_samples"
       ELSE IF window = {} THEN ""
       ELSE IF Cardinality(DaysBefore(d)) < Min(window) THEN "window_insufficient"
       ELSE "window_missing_session"

\* unanimousCloseDirection, and the means of the windows' predictions: E1's weights
\* are powers of two, so it lies between the least and the most.
unanimous(predicted) ==
    ~(\E v, w \in WindowModels : predicted[v] > 0 /\ predicted[w] < 0)
Combined(predicted) == {x \in Move : \E v, w \in WindowModels : predicted[v] <= x /\ x <= predicted[w]}

VARIABLES
    closes,     \* of the market
    todo,       \* the dates that were not looked at
    skipped,    \* date |-> why
    evidence,   \* all: name |-> its observations
    filter,     \* of the filter: how many, and how many retained
    report      \* what is written, or NaN

rollVars == <<closes, todo, skipped, evidence, filter, report>>

Nobody == [n \in Name |-> {}]

RollInit ==
    /\ closes \in [TradingDays -> Market]
    /\ todo = ValidationDates /\ skipped = <<>> /\ evidence = Nobody
    /\ filter = [total |-> 0, retained |-> 0] /\ report = NaN

ReturnOf(n) == [high |-> IF n > 0 THEN n ELSE 0, low |-> IF n < 0 THEN n ELSE 0, close |-> n]

\* One date: it is passed over, or each of its samples is predicted by all and scored.
SkipDate(d, available, sampled) ==
    /\ report = NaN /\ d \in todo /\ \A e \in todo : d <= e
    /\ SkipReason(available, sampled, d) # ""
    /\ todo' = todo \ {d}
    /\ skipped' = [x \in DOMAIN skipped \cup {d} |->
                     IF x = d THEN SkipReason(available, sampled, d) ELSE skipped[x]]
    /\ UNCHANGED <<closes, evidence, filter, report>>

ScoreDate(d, sampled, actual, predicted, e0, e1) ==
    /\ report = NaN /\ d \in todo /\ \A e \in todo : d <= e
    /\ SkipReason(TRUE, sampled, d) = ""
    /\ \A c \in EvalCode : {e0[c], e1[c]} \subseteq Combined(predicted[c])
    /\ todo' = todo \ {d}
    /\ LET agrees == {c \in EvalCode : unanimous(predicted[c])}
           sample(c) == [date |-> d, code |-> c, at |-> 1, inputClose |-> 1,
                         high |-> 1, low |-> 0 - 1, halfRange |-> 1, labels |-> ReturnOf(actual[c])]
           \* With an observation, the state of the market and the days its model saw.
           score(c, prediction, days) ==
               {[of |-> x, state |-> marketState(closes, d), trained |-> days \cap sampled] :
                   x \in add(sample(c), prediction)}
           windowDays == UNION {TrainingDays(w, d) : w \in WindowModels}
           scores(n) ==
               CASE n \in Model -> UNION {score(c, ReturnOf(predicted[c][n]), TrainingDays(n, d)) : c \in EvalCode}
                 [] n[1] = "N0-last" -> UNION {score(c, naiveLastPrediction(sample(c)), {}) : c \in EvalCode}
                 [] n[1] = "N0-range" -> UNION {score(c, naiveRangePrediction(sample(c)), {}) : c \in EvalCode}
                 [] n[1] = "E0" -> UNION {score(c, ReturnOf(e0[c]), windowDays) : c \in EvalCode}
                 [] n[1] = "E1" -> UNION {score(c, ReturnOf(e1[c]), windowDays) : c \in EvalCode}
                 [] n[1] = "E1-filtered" -> UNION {score(c, ReturnOf(e1[c]), windowDays) : c \in agrees}
                 [] n[1] = "B0-filtered" -> UNION {score(c, ReturnOf(predicted[c][B0]), DaysBefore(d)) : c \in agrees}
       IN /\ evidence' = [n \in Name |-> evidence[n] \cup scores(n)]
          /\ filter' = [total |-> filter.total + Cardinality(EvalCode),
                        retained |-> filter.retained + Cardinality(agrees)]
    /\ UNCHANGED <<closes, skipped, report>>

-----------------------------------------------------------------------------
\* The records: what a record is known by (modeleval metricKey), and what it is of.

Observations(scored) == {s.of : s \in scored}
InState(scored, state) == {s \in scored : s.state = state}

\* accumulator.records, of the close's direction: those of a class have the slice of the
\* class alone.
baseRecord(metric, subject, aggregation, slice, of) ==
    [key |-> [metric |-> metric, subject |-> subject, aggregation |-> aggregation, slice |-> slice], of |-> of]

directionRecords(subject, slice, scored) ==
    {baseRecord("accuracy", subject, a, slice, Observations(scored)) : a \in Aggregation}
    \cup {baseRecord("recall", subject, a, {<<"class", c>>}, Observations(scored)) :
              a \in Aggregation, c \in {"up", "down"}}

\* rollingMetricRecords: first the windows and the strategies, then the market states.
builtRecords ==
    LET strategies == Name \ WindowModels IN
    <<UNION {directionRecords(n, {}, evidence[n]) : n \in {m \in Name : evidence[m] # {}}},
      UNION {directionRecords(n, {<<"regime", s>>}, InState(evidence[n], s)) :
                n \in strategies, s \in {t \in State : \E m \in strategies : InState(evidence[m], t) # {}}}>>

\* sortUniqueRecords: of the records with one key the first stays.
UniqueRecords(batches) ==
    LET known(i) == UNION {{r.key : r \in batches[j]} : j \in 1 .. i - 1}
    IN UNION {{r \in batches[i] : r.key \notin known(i)} : i \in DOMAIN batches}

WriteReport ==
    /\ report = NaN /\ todo = {}
    /\ report' = IF DOMAIN skipped = ValidationDates THEN [status |-> "insufficient_history", records |-> {}]
                 ELSE [status |-> "ok", records |-> UniqueRecords(builtRecords)]
    /\ UNCHANGED <<closes, todo, skipped, evidence, filter>>

RollNext ==
    \/ WriteReport
    \/ \E d \in ValidationDates : \E sampled \in SUBSET (DaysBefore(d) \cup {d}), available \in BOOLEAN :
          SkipDate(d, available, sampled)
    \/ \E d \in ValidationDates : \E sampled \in SUBSET (DaysBefore(d) \cup {d}) :
       \E actual, e0, e1 \in [EvalCode -> Move], predicted \in [EvalCode -> [Model -> Move]] :
           ScoreDate(d, sampled, actual, predicted, e0, e1)

RollSpec == RollInit /\ [][RollNext]_rollVars
-----------------------------------------------------------------------------
\* Properties.

JudgedBars(scored) ==
    {[date |-> o.date, code |-> o.code, at |-> o.at, actual |-> o.actual] : o \in Observations(scored)}

\* "on a common set of validation days": all are judged by the same bars, and the two
\* that the filter leaves by those that it counts.
CommonBars ==
    /\ \A n, m \in Name \ Filtered : JudgedBars(evidence[n]) = JudgedBars(evidence[m])
    /\ JudgedBars(evidence[<<"E1-filtered", 0>>]) = JudgedBars(evidence[<<"B0-filtered", 0>>])
    /\ JudgedBars(evidence[<<"E1-filtered", 0>>]) \subseteq JudgedBars(evidence[<<"E1", 0>>])
    /\ Cardinality(evidence[<<"E1", 0>>]) = filter.total
    /\ Cardinality(evidence[<<"E1-filtered", 0>>]) = filter.retained

\* "It never trains on the validation date or later", and a window is that many
\* sessions, each of which had samples.
TrainedBefore ==
    \A n \in Name : \A s \in evidence[n] :
        /\ \A x \in s.trained : x < s.of.date
        /\ n \in WindowModels => s.trained = s.of.date - n[2] .. s.of.date - 1
        /\ n = B0 => \A w \in Windows : s.of.date - w .. s.of.date - 1 \subseteq s.trained

\* A record of the report that names no market state is of all the evidence of its
\* subject, and what a state has of it is nowhere counted for another.
OverallIsOverall ==
    report # NaN => \A r \in report.records :
        LET scored == evidence[r.key.subject] slice == r.key.slice IN
        IF \E t \in State : <<"regime", t>> \in slice
        THEN \A t \in State : <<"regime", t>> \in slice => r.of = Observations(InState(scored, t))
        ELSE r.of = Observations(scored)

\* What the strategies are compared by is fair, however the days that have no data, too
\* few bars or too little history fall.  (EvaluateRollingWindows)
FairComparison == CommonBars /\ TrainedBefore /\ OverallIsOverall

\* "Subject, Target, Space, Aggregation, Slice and Baseline together identify the
\* concrete comparison" (modeleval/metrics.go): no two records that were built have one
\* key and different evidence.
KeysIdentify ==
    todo = {} => LET built == UNION {builtRecords[i] : i \in DOMAIN builtRecords} IN
        \A r, s \in built : r.key = s.key => r.of = s.of
=============================================================================
