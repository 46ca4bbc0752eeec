-------------------------- MODULE DayRangeForecast --------------------------
(***************************************************************************)
(* The forecasts of the day's high and low before the session               *)
(* (internal/dayrange/service.go, internal/storage/dayrange.go).  Two loops *)
(* of the process write them: the service's own loop predicts in the        *)
(* morning, trains and reconciles in the evening; the daily report asks for *)
(* forecasts that are missing (runtime.loadDayRangeForecasts).              *)
(*                                                                          *)
(* Time is counted in sessions, each with the part before the open in which *)
(* the loop predicts, the trading, and the evening after the close.  Bars,  *)
(* features and the trees are left out: of a model the dates matter, by     *)
(* which a later forecast finds it.                                         *)
(***************************************************************************)
EXTENDS Integers, FiniteSets, Sequences

CONSTANTS
    RangeStock,         \* the stocks that may be configured
    FirstPool,          \* those that are at the start
    PastSessions,            \* the sessions before the first that is explored
    LastSession,        \* bound of the exploration
    MinTrainingDays, CalibrationDays, ValidationDays,
    MaxModelAge,        \* maxModelAgeDays
    KeepModels,
    MaxRangeFaults      \* bound of the exploration

\* The configuration asks for 10 days or more of calibration and as many of
\* validation, trading days both; a model may be 14 calendar days old.
ASSUME RangeAssumption ==
    /\ FirstPool \subseteq RangeStock
    /\ PastSessions \in Nat /\ LastSession \in Nat
    /\ MinTrainingDays \in Nat \ {0}
    /\ CalibrationDays \in Nat /\ ValidationDays \in Nat /\ MaxModelAge \in Nat
    /\ CalibrationDays + ValidationDays > MaxModelAge
    /\ KeepModels \in Nat \ {0}

ServiceLoop == "loop"
Reporter == "reporter"
Baseline == 0

VARIABLES
    session, partOfDay,     \* the clock: "morning", "trading" or "evening"
    barsThrough,        \* daily_bar: the last session that is stored
    rangePool,          \* the configured stocks
    candidate,          \* dayrange_model_run, the candidates
    baselineFor,        \* valid_for of the baseline's row
    forecast,           \* dayrange_prediction: stock -> target -> the rows, in order
    actual,             \* dayrange_actual: <<code, target>> of the resolved
    predictor,          \* where each of the two loops is
    rangeFaults

clockVars == <<session, partOfDay>>
modelRows == <<candidate, baselineFor>>
rangeVars == <<clockVars, barsThrough, rangePool, modelRows, forecast, actual,
               predictor, rangeFaults>>

AtRest == [pc |-> "idle", target |-> 0, todo |-> {}, model |-> Baseline]

Targets == 1 .. LastSession + 1

\* calendar.Completed and Next: the session whose open is ahead.
Completed == IF partOfDay = "evening" THEN session ELSE session - 1
NextTarget == Completed + 1

\* LoadPredictions: the stocks with a row.
Forecasted(target) == {c \in RangeStock : forecast[c][target] # <<>>}

\* LatestValidatedModelBefore: validated, valid for the target or earlier,
\* trained to a day that is not too old; the latest training data first.
Eligible(target) ==
    {m \in candidate : /\ m.validated
                       /\ m.validFor <= target
                       /\ m.trainTo >= target - MaxModelAge}
ModelFor(target) ==
    IF Eligible(target) = {} THEN Baseline
    ELSE (CHOOSE m \in Eligible(target) : \A o \in Eligible(target) :
              o.trainTo < m.trainTo \/ (o.trainTo = m.trainTo /\ o.id <= m.id)).id

\* LatestModelForValidFor: a row, the baseline's or a candidate's.
HasModel(target) == baselineFor = target \/ \E m \in candidate : m.validFor = target

\* splitChronologically: the resolved days that leave the days of calibration
\* and of validation after them.
Resolved == {d \in (1 - PastSessions) .. session : d <= barsThrough}
TrainDates ==
    {d \in Resolved : Cardinality({e \in Resolved : e > d}) >= CalibrationDays + ValidationDays}
TrainTo == CHOOSE d \in TrainDates : \A e \in TrainDates : e <= d

\* PruneModelRuns: the newest, and those a forecast was made with.
Used == UNION {{forecast[c][t][i] : i \in DOMAIN forecast[c][t]} :
                  c \in RangeStock, t \in Targets}
Kept == {m \in candidate : \/ m.id \in Used
                           \/ Cardinality({o \in candidate : o.id > m.id}) < KeepModels}

RangeInit ==
    /\ session = 1 /\ partOfDay = "evening"    \* the first start is in an evening
    /\ barsThrough = 0
    /\ rangePool = FirstPool
    /\ candidate = {} /\ baselineFor = 0
    /\ forecast = [c \in RangeStock |-> [t \in Targets |-> <<>>]]
    /\ actual = {}
    /\ predictor = [a \in {ServiceLoop, Reporter} |-> AtRest]
    /\ rangeFaults = 0

RangeFault == rangeFaults < MaxRangeFaults /\ rangeFaults' = rangeFaults + 1
LoopIdle(a) == predictor[a].pc = "idle"
Rest(a) == predictor' = [predictor EXCEPT ![a] = AtRest]

\* predict, to the head of its loop: the clock, the stored bars, the model and
\* the forecasts that exist are read once, by the loop when there is none for
\* today (step), for the report when one is missing (loadDayRangeForecasts).
\* Without the bar of the session before, every stock is skipped.
BeginForecasts(a) ==
    LET have == Forecasted(NextTarget)
        begun == [pc |-> "save", target |-> NextTarget,
                  todo |-> IF barsThrough >= Completed THEN rangePool \ have ELSE {},
                  model |-> ModelFor(NextTarget)]
    IN  /\ LoopIdle(a)
        /\ partOfDay # "trading"
        /\ IF a = ServiceLoop THEN partOfDay = "morning" /\ have = {} ELSE rangePool \ have # {}
        /\ predictor' = [predictor EXCEPT ![a] = begun]
        /\ UNCHANGED <<clockVars, barsThrough, rangePool, modelRows, forecast, actual, rangeFaults>>

\* The snapshot and the forecast of the next stock are stored.
SaveForecast(a) ==
    LET p == predictor[a]
    IN  /\ p.pc = "save" /\ p.todo # {}
        /\ \E c \in p.todo :
               /\ forecast' = [forecast EXCEPT ![c][p.target] = Append(@, p.model)]
               /\ predictor' = [predictor EXCEPT ![a].todo = @ \ {c}]
        /\ UNCHANGED <<clockVars, barsThrough, rangePool, modelRows, actual, rangeFaults>>

\* All stocks are through, or a write failed and predict returns its error.
EndForecasts(a) ==
    /\ predictor[a].pc = "save"
    /\ IF predictor[a].todo = {} THEN UNCHANGED rangeFaults ELSE RangeFault
    /\ Rest(a)
    /\ UNCHANGED <<clockVars, barsThrough, rangePool, modelRows, forecast, actual>>

TrainingIsDue == partOfDay = "evening" /\ LoopIdle(ServiceLoop) /\ ~HasModel(session + 1)

\* Train, with too few days or too few samples to calibrate: the row of the
\* baseline alone says that the session was trained for.
TrainBaseline ==
    /\ TrainingIsDue
    /\ baselineFor' = session + 1
    /\ UNCHANGED <<clockVars, barsThrough, rangePool, candidate, forecast, actual,
                   predictor, rangeFaults>>

\* Train, to the row of the candidate; CheckGate decides its status.
TrainCandidate ==
    /\ TrainingIsDue
    /\ Cardinality(TrainDates) >= MinTrainingDays
    /\ \E validated \in BOOLEAN :
          candidate' = candidate \cup
              {[id |-> session, trainTo |-> TrainTo, validFor |-> session + 1,
                validated |-> validated]}
    /\ predictor' = [predictor EXCEPT ![ServiceLoop].pc = "baseline"]
    /\ UNCHANGED <<clockVars, barsThrough, rangePool, baselineFor, forecast, actual, rangeFaults>>

\* The row of the baseline follows, then the old candidates are pruned; or the
\* write fails.
FinishTraining ==
    /\ predictor[ServiceLoop].pc = "baseline"
    /\ Rest(ServiceLoop)
    /\ \/ /\ candidate' = Kept
          /\ baselineFor' = session + 1
          /\ UNCHANGED rangeFaults
       \/ RangeFault /\ UNCHANGED <<candidate, baselineFor>>
    /\ UNCHANGED <<clockVars, barsThrough, rangePool, forecast, actual>>

\* Mutant of ReconcileDay: it waits for the bars of a later session.
ReconcileDayLater ==
    LET unresolved == {c \in Forecasted(session) : <<c, session>> \notin actual}
    IN  /\ partOfDay = "evening" /\ LoopIdle(ServiceLoop) /\ HasModel(session + 1)
        /\ unresolved # {} /\ barsThrough > session
        /\ actual' = actual \cup {<<c, session>> : c \in rangePool}
        /\ UNCHANGED <<clockVars, barsThrough, rangePool, modelRows, forecast, predictor, rangeFaults>>

\* step, after the training: Reconcile for every stock, as long as a forecast
\* of today has no resolved actual.  It resolves those whose bar is stored.
ReconcileDay ==
    LET unresolved == {c \in Forecasted(session) : <<c, session>> \notin actual}
    IN  /\ partOfDay = "evening" /\ LoopIdle(ServiceLoop) /\ HasModel(session + 1)
        /\ unresolved # {} /\ barsThrough >= session
        /\ actual' = actual \cup {<<c, session>> : c \in rangePool}
        /\ UNCHANGED <<clockVars, barsThrough, rangePool, modelRows, forecast, predictor, rangeFaults>>

\* The daily synchronization stores the bars up to the completed session.
SyncBars ==
    /\ barsThrough < Completed
    /\ barsThrough' = Completed
    /\ UNCHANGED <<clockVars, rangePool, modelRows, forecast, actual, predictor, rangeFaults>>

\* The process dies and is started again, with more stocks perhaps.
ServiceRestarts ==
    /\ RangeFault
    /\ predictor' = [a \in {ServiceLoop, Reporter} |-> AtRest]
    /\ \E more \in SUBSET RangeStock : rangePool' = rangePool \cup more
    /\ UNCHANGED <<clockVars, barsThrough, modelRows, forecast, actual>>

\* Time.  What a loop is at may last longer than the part of the day it
\* began in, but a training is over before the next session's evening.
TimeGoesOn ==
    /\ predictor[ServiceLoop].pc # "baseline"
    /\ CASE partOfDay = "morning" -> partOfDay' = "trading" /\ UNCHANGED session
         [] partOfDay = "trading" -> partOfDay' = "evening" /\ UNCHANGED session
         [] OTHER -> session < LastSession /\ partOfDay' = "morning" /\ session' = session + 1
    /\ UNCHANGED <<barsThrough, rangePool, modelRows, forecast, actual, predictor, rangeFaults>>

RangeNext ==
    \/ \E a \in {ServiceLoop, Reporter} : BeginForecasts(a) \/ SaveForecast(a) \/ EndForecasts(a)
    \/ TrainBaseline \/ TrainCandidate \/ FinishTraining \/ ReconcileDay
    \/ SyncBars \/ ServiceRestarts \/ TimeGoesOn

\* What the loop does once it is begun, and in the evening.
LoopGoesOn ==
    \/ SaveForecast(ServiceLoop) \/ EndForecasts(ServiceLoop)
    \/ TrainBaseline \/ TrainCandidate \/ FinishTraining \/ ReconcileDay

RangeSpec == RangeInit /\ [][RangeNext]_rangeVars

\* The loop comes back every 15 seconds; writes fail for a time only, and the
\* trainings end.  Nothing is assumed of the report or the synchronization.
FairRangeSpec ==
    /\ RangeSpec
    /\ WF_rangeVars(LoopGoesOn)

-----------------------------------------------------------------------------
RangeTypeOK ==
    /\ session \in 1 .. LastSession /\ partOfDay \in {"morning", "trading", "evening"}
    /\ barsThrough \in 0 .. LastSession
    /\ rangePool \subseteq RangeStock
    /\ candidate \subseteq [id : 1 .. LastSession, trainTo : (1 - PastSessions) .. LastSession,
                            validFor : Targets, validated : BOOLEAN]
    /\ baselineFor \in 0 .. LastSession + 1
    /\ forecast \in [RangeStock -> [Targets -> Seq(0 .. LastSession)]]
    /\ actual \subseteq RangeStock \X Targets
    /\ rangeFaults \in 0 .. MaxRangeFaults

(***************************************************************************)
(* In an evening with the bars stored, the session ahead is trained for and *)
(* every forecast of the day gets its actual, unless the day ends before.   *)
(***************************************************************************)
EveningIsDone ==
    []<>(partOfDay = "evening" /\ barsThrough >= session =>
            /\ HasModel(session + 1)
            /\ \A c \in Forecasted(session) \cap rangePool : <<c, session>> \in actual)

(***************************************************************************)
(* docs/dayrange-roadmap.md:5: a candidate that passed the gate is          *)
(* validated, "otherwise the baseline stays the official result".           *)
(* The newest training for the session passed the gate, and the forecast is *)
(* the baseline's all the same.                                             *)
(***************************************************************************)
ValidatedIsUsed ==
    \A a \in {ServiceLoop, Reporter} :
        predictor[a].pc = "save"
        /\ (\E m \in candidate : m.validFor = predictor[a].target /\ m.validated)
        /\ predictor[a].todo # {}
            => predictor[a].model # Baseline
=============================================================================
