------------------------------ MODULE MCClients ------------------------------
(***************************************************************************)
(* The parts that speak to a service outside or compute what is said: the  *)
(* channels' clients, the advisor's turn, the simulated trades, the review *)
(* page, what the day-range model learns from, and the premarket cards of  *)
(* the day-range service and its execution card.  A behaviour belongs to   *)
(* one scene, and the other components stand still.                         *)
(***************************************************************************)
EXTENDS MCServiceLedger, ChannelClients, AdvisorTurn, TradeRules, ReviewScreen,
        ForecastFit, RollingEvaluation, TLC

-----------------------------------------------------------------------------
\* ChannelClients: cards of four sections, against what they should be.

Card4 == [1 .. 4 -> [bytes : 1 .. 3, optional : BOOLEAN]]

ASSUME CardsFit ==
    \A card \in Card4 :
        LET kept == fitStructuredPayload(card)
            required == SelectSeq(card, LAMBDA s : ~s.optional)
        IN /\ SelectSeq(kept, LAMBDA s : ~s.optional) = required
           /\ IsPrefix(SelectSeq(kept, LAMBDA s : s.optional), SelectSeq(card, LAMBDA s : s.optional))
           /\ SendsCard(card) <=> BytesOf(required) <= MaxPayload
           /\ BytesOf(card) <= MaxPayload => kept = card

\* The longest prefix that fits.
ASSUME PrefixFits ==
    \A length, suffix \in 0 .. 2 * MaxPayload :
        LET best == fitPayload(length, suffix) IN
        IF suffix > MaxPayload THEN best = 0 - 1
        ELSE best = Min({length, MaxPayload - suffix})

\* A bot's card is final only on an answer that says so, and sent again only on one
\* that says it was not taken.
ASSUME BotAnswers ==
    \A status \in {200, 302, 400, 404, 408, 429, 500, 503}, body \in BOOLEAN,
       code \in {"none", "zero", "rate", "other"} :
        LET kind == BotKind(status, body, code) IN
        /\ kind = "delivered" <=> body /\ status = 200 /\ code = "zero"
        /\ kind = "permanent" => body /\ (status \in {400, 404} \/ code = "other")

-----------------------------------------------------------------------------
\* AdvisorTurn.

\* History: the newest turns, in order, as much of them as there is room for.
ASSUME HistoryFits ==
    \A history \in BoundedSeq(0 .. 3, 4) :
        LET kept == sanitizeHistory(history)
            turns == SelectSeq(history, LAMBDA n : n > 0)
            total == FoldSeq(LAMBDA n, m : n + m, 0, kept)
        IN /\ Len(kept) <= MaxTurns /\ total <= MaxRunes
           /\ kept # <<>> => IsSuffix(Tail(kept), turns)
           /\ Len(kept) < Min({MaxTurns, Len(turns)}) => total = MaxRunes

WireTurn == [role : {"user", "assistant"}, content : {"q", "other", NoValue}]
Wire == [question : {"q", NoValue}, history : BoundedSeq(WireTurn, 1), messages : BoundedSeq(WireTurn, 3),
         code : {NoValue}, asof : {NoValue}]

\* Sent as messages, the question is the last thing the user said, and what is taken
\* for history came before it; nothing is both.
ASSUME MessagesAreRead ==
    \A wire \in Wire :
        LET req == decodeAdvisorRequest(wire) IN
        req.accepted /\ wire.messages # <<>> =>
            /\ IsPrefix(req.history, wire.messages)
            /\ wire.question = NoValue =>
                  /\ req.question # NoValue
                  /\ LET rest == SubSeq(wire.messages, Len(req.history) + 1, Len(wire.messages)) IN
                     /\ rest[1] = [role |-> "user", content |-> req.question]
                     /\ \A i \in 2 .. Len(rest) : rest[i].role = "user" => rest[i].content = NoValue

MCCode == {"c1", "c2"}
MCDate == {"d1", "d2"}
SomeIntent == [name : Fixed \cup Queried, code : {"c1", NoValue, Invalid}, asof : {"d1", NoValue}]
Request == [code : {"c1", NoValue}, asof : {"d1", "d2", NoValue},
            codes : SUBSET MCCode, dates : SUBSET MCDate]
Decisions == {{i, j} : i, j \in SomeIntent}
             \cup {classifyLLM([needsClarification |-> FALSE, intents |-> {i, j, k}]) :
                       i, j, k \in {x \in SomeIntent : x.name \in {"methodology", "stock_evidence"}}}

\* Whatever was decided: something to say, little of it, each intent once, a stock
\* and a date where they are needed, and no other than the question and the
\* request name.
ASSUME ResolvedIsAnswerable ==
    \A req \in Request, decision \in Decisions, hasExperiments \in BOOLEAN :
        LET resolved == resolveIntents(req, decision, hasExperiments) IN
        /\ resolved # {} /\ Cardinality(resolved) <= MaxSubIntents
        /\ \A i, j \in resolved : i.name = j.name => i = j
        /\ \A i \in resolved :
              /\ i.name = "stock_evidence" => i.code \in MCCode /\ i.asof \in MCDate
              /\ i.name \in {"review_explain", "report_query"} => i.asof \in MCDate
        /\ Bare("clarify") \in resolved => resolved = Clarify
        /\ Cardinality(req.dates) = 1 /\ (\A i \in decision : i.asof = NoValue) =>
              \A i \in resolved : i.asof \in req.dates \cup {NoValue}

Evidence == [intent : {"a", "b"}, priority : 1 .. 2, bytes : 1 .. 2]
Numbered(list) == {[intent |-> list[i].intent, priority |-> list[i].priority,
                    bytes |-> list[i].bytes, sequence |-> i] : i \in 1 .. Len(list)}

\* The bundle is within its bounds, and an item that was left out is outranked by
\* each one of the same intent that was kept.
ASSUME BundleKeepsTheBest ==
    \A list \in [1 .. 4 -> Evidence] :
        LET items == Numbered(list) kept == bundle(items) IN
        /\ kept \subseteq items /\ Cardinality(kept) <= MaxEvidence
        /\ serializedEvidenceSize(kept) <= MaxEvidenceBytes
        /\ \A a \in kept : Cardinality({b \in kept : b.intent = a.intent}) <= MaxEvidencePerIntent
        /\ \A a \in kept, b \in items \ kept : a.intent = b.intent => Outranks(a, b)

-----------------------------------------------------------------------------
\* TradeRules: sessions around 20, calm, wide, falling, rising, and locked.
Bar(o, h, l, c) == [open |-> o, high |-> h, low |-> l, close |-> c, traded |-> TRUE]
MCBars == {Bar(20, 22, 19, 20), Bar(20, 24, 16, 20), Bar(17, 18, 15, 16), Bar(23, 25, 22, 24),
           Bar(18, 18, 18, 18), Bar(21, 23, 17, 18), [Bar(20, 20, 20, 20) EXCEPT !.traded = FALSE]}

-----------------------------------------------------------------------------
\* RangeModel.

\* Each row goes, when it is predicted, to the leaf that it was counted in, and no leaf
\* is smaller or deeper than it may be.
ASSUME RowsReachTheirLeaf ==
    \A data \in [1 .. 4 -> [1 .. 1 -> {0, 1, 2, Missing}]] \cup [1 .. 3 -> [1 .. 2 -> {0, 1, Missing}]] :
        \A residual \in [DOMAIN data -> {0 - 1, 2}] :
            LET tree == fit(data, residual)
                reached == [r \in DOMAIN data |-> predictTree(tree, data[r])]
                same(r) == {x \in DOMAIN data : reached[x].path = reached[r].path}
            IN \A r \in DOMAIN data :
                  /\ reached[r].leaf.sum = SumOf(residual, same(r))
                  /\ reached[r].leaf.by = Cardinality(same(r)) + Ridge
                  /\ Len(reached[r].path) <= MaxDepth
                  /\ reached[r].path = <<>> \/ Cardinality(same(r)) >= MinLeaf

Residuals == UNION {[1 .. n -> 0 .. 3] : n \in 1 .. 5}

\* What is added for a level leaves that share of the residuals below, and no constant
\* has a smaller loss at that level, which is the measure the intervals are judged by.
ASSUME CalibrationIsTheQuantile ==
    \A residuals \in Residuals : \A i \in DOMAIN Level :
        LET offset == Calibrate(residuals)[i]
            below(v) == Cardinality({k \in DOMAIN residuals : residuals[k] < v})
            loss(p) == MapThenSumSet(LAMBDA k : Pinball(Level[i], p, residuals[k]), DOMAIN residuals)
        IN /\ below(offset) * 100 < Level[i] * Len(residuals)
           /\ below(offset + 1) * 100 >= Level[i] * Len(residuals)
           /\ \A p \in 0 .. 3 : loss(offset) <= loss(p)

Estimates == {calibratedEstimate(5, p, o) : p \in 0 - 1 .. 1, o \in [1 .. 3 -> 0 - 1 .. 1]}

\* A forecast is refused by the evaluation exactly when the high's lowest price is
\* below the low's lowest: raising the quantile leaves the interval where it was.
ASSUME WhatIsRefused ==
    \A high, low \in Estimates :
        validateForecast(Predict(high, low)) <=> high.lower >= low.lower

Forecasts == {Predict(high, low) : high, low \in {e \in Estimates : e.lower # e.upper}}
Actuals == {a \in [Side -> 3 .. 7] : a.high >= a.low}

\* One of covered, too low, and too high; both intervals only with the envelope.
ASSUME MeasuresAgree ==
    \A f \in Forecasts, a \in Actuals :
        /\ \A side \in Side :
              LET m == Measure(f, a, side) IN
              /\ m.coverage + m.lowerBreach + m.upperBreach = 1
              /\ (m.coverage = 1) = (m.lowerExceedance + m.upperExceedance = 0)
              /\ m.score = m.width <=> m.coverage = 1
              /\ m.coverage = 0 => m.error > 0
        /\ Joint(f, a) = 1 <=> \A side \in Side : Measure(f, a, side).coverage = 1
        /\ Joint(f, a) <= Envelope(f, a)

DayRows == SUBSET [date : 1 .. 3, code : 1 .. 2, value : {1, 4}]
Unique(rows) == \A r, s \in rows : r.date = s.date /\ r.code = s.code => r = s

\* Days count alike however many stocks they have.
ASSUME DaysAreEqual ==
    \A rows \in {r \in DayRows : r # {} /\ Unique(r)} :
        LET mean == DayEqual(rows) all == Pooled(rows)
            number(d) == Cardinality({r \in rows : r.date = d})
        IN /\ \A v \in {1, 4} : (\A r \in rows : r.value = v) => mean.of = v * mean.by
           /\ (\A r, s \in rows : number(r.date) = number(s.date)) => mean.of * all.by = all.of * mean.by
           /\ \A r \in rows : mean.by % number(r.date) = 0

\* A model that says what the baseline says is never promoted: where it makes no
\* error, its intervals cover too much.  One that is nearer within them can be.
Settled == [high |-> [point |-> 6, lower |-> 5, upper |-> 7], low |-> [point |-> 4, lower |-> 3, upper |-> 5]]
Nearer(x) == [side \in Side |-> [Settled[side] EXCEPT !.point = IF x.actual.high = 8 THEN @ ELSE x.actual[side]]]
Verdict(actual, days, forecast(_)) ==
    LET samples == {[date |-> c % days, code |-> c, actual |-> actual[c],
                     baseline |-> IF c = 5 /\ days = 2 THEN Missing ELSE Settled] : c \in 1 .. 5}
        reports == EvaluateValidation(samples, forecast)
    IN CheckGate(reports.candidate, reports.baseline, 1, 1)
ActualDays == [1 .. 5 -> {[high |-> 6, low |-> 4], [high |-> 7, low |-> 3], [high |-> 8, low |-> 2]}]

ASSUME BaselineIsNotPromoted ==
    /\ \A actual \in ActualDays, days \in 1 .. 2 : Verdict(actual, days, LAMBDA x : Settled) # {}
    /\ \E actual \in ActualDays : Verdict(actual, 1, Nearer) = {}

\* ForecastFit: sessions that rise and fall, and odd ones: suspended, after a
\* dividend, of another source, without a status.
Shape(o, h, l, c) == [open |-> o, high |-> h, low |-> l, close |-> c]
Plain(shape) == [state |-> "traded", bar |-> shape, cut |-> 0, source |-> "a", adjusted |-> TRUE, odd |-> FALSE]
Strange(kind) == [kind EXCEPT !.odd = TRUE]
Suspended == Strange([Plain(Nil) EXCEPT !.state = "suspended"])
MCKind ==
    [c \in Ticker |->
        IF c = "t1"
        THEN {Plain(Shape(0, 2, 0 - 1, 1)), Plain(Shape(0, 1, 0 - 2, 0 - 1)), Suspended,
              Strange([Plain(Shape(0, 2, 0 - 1, 1)) EXCEPT !.cut = 3]),
              Strange([Plain(Shape(0, 0, 0 - 1, 1)) EXCEPT !.source = "b"])}
        ELSE {Plain(Shape(1, 2, 0, 1)), Suspended,
              Strange([Plain(Shape(0, 1, 0, 1)) EXCEPT !.state = "unknown", !.adjusted = FALSE])}]
MCSectorOf == [c \in Ticker |-> "sector"]

-----------------------------------------------------------------------------

\* MinuteMetrics: four observations on two days; what is scored has three on the first.
Cell == [actual : {"up", "down"}, predicted : {"up", "down"}]
Observed(cells) == {[date |-> i % 2, code |-> i, at |-> 1, actual |-> cells[i].actual,
                     predicted |-> cells[i].predicted] : i \in DOMAIN cells}
AllObserved == {Observed(cells) : cells \in [1 .. 4 -> Cell]}

\* Who always says the same is right by chance; F1 lies between its parts.
ASSUME DirectionMeasures ==
    \A o \in AllObserved :
        /\ Hits(o) = o => LET r == matthewsCorrelation(o) IN r = NaN \/ r.of * r.of = r.by
        /\ Cardinality({x.predicted : x \in o}) = 1 =>
              /\ matthewsCorrelation(o) = NaN
              /\ balancedAccuracy(o).of * Cardinality({x.actual : x \in o}) <= balancedAccuracy(o).by
        /\ \A c \in Class :
              LET f == classF1(o, c) p == classPrecision(o, c) r == classRecall(o, c) IN
              f # NaN => \/ ~Less(f, p) /\ ~Less(r, f)
                         \/ ~Less(f, r) /\ ~Less(p, f)

\* What is called Matthews' correlation is it where both counts of each class agree;
\* elsewhere it may leave the interval from -1 to 1, which a correlation does not.
ASSUME MatthewsLeavesItsInterval ==
    LET matthews(o) == Cardinality(o) * Cardinality(Hits(o))
                       - MapThenSumSet(LAMBDA c : ActualCount(o, c) * PredictedCount(o, c), Class)
    IN /\ \A o \in AllObserved :
             matthewsCorrelation(o) # NaN /\ (\A c \in Class : ActualCount(o, c) = PredictedCount(o, c)) =>
                 matthewsCorrelation(o).of = matthews(o)
       /\ \E o \in AllObserved : LET r == matthewsCorrelation(o) IN
             /\ r # NaN /\ r.of * r.of > r.by
             /\ matthews(o) * matthews(o) <= r.by

Observation(i, actual, predicted) ==
    [date |-> i \div 4, code |-> i, at |-> 1, inputClose |-> i, actual |-> ReturnOf(actual),
     predicted |-> ReturnOf(predicted), last |-> ReturnOf(0), range |-> ReturnOf(0 - 1)]
AllEvidence == {{Observation(i, f[i][1], f[i][2]) : i \in 1 .. 4} : f \in [1 .. 4 -> {0 - 1, 0, 2} \X {0 - 1, 1}]}

\* Skill is what its sign says, and none against oneself; the price measures are zero,
\* or one, of those that err nowhere.
ASSUME PointMeasures ==
    \A E \in AllEvidence :
        LET price == PointPrice(E, "close") exact == \A x \in E : Off(x, "close") = 0 IN
        /\ \A as \in {"last", "range"} :
              LET skill == pointSkill(E, "close", as) own == pointSkill(Judge(E, as), "close", as) IN
              /\ own # NaN => own.of = 0
              /\ skill # NaN => (skill.of > 0 <=> Less(MAE("close", E), MAE("close", Judge(E, as))))
        /\ price.mape.of = 0 <=> exact
        /\ price.r2 # NaN => price.r2.of <= price.r2.by /\ (price.r2.of = price.r2.by <=> exact)
        /\ ~Less([of |-> 2, by |-> 1], price.smape)
        /\ ~Less(PointReturn(E, "close").p90, PointReturn(E, "close").medae)

\* The majority is that of all the bars, and the difference to it a mean over days: no
\* constant is right more often, and one can still be reported as better.
ASSUME MajorityIsOfAllBars ==
    LET constant(E, n) == {[x EXCEPT !.predicted = ReturnOf(n)] : x \in E}
        right(E) == Cardinality(Hits(Directions(E, "close", 0, TRUE)))
    IN /\ \A E \in AllEvidence, n \in {0 - 1, 1} : right(constant(E, n)) <= Cardinality(Hits(MajorityDirections(E)))
       /\ \E E \in AllEvidence : \E n \in {0 - 1, 1} :
              LET delta == majorityDelta(constant(E, n)) IN delta # NaN /\ delta.of > 0

\* LoadPointInTimeReport: nothing of the target's own day, and nothing made after the
\* opening unless that is allowed; the newest day, and of that day the last report.
PitReports == [asOf : {0, 16, 17}, target : {17}, generated : {30, 40, NaN}]
ASSUME ReportIsPointInTime ==
    \A archive, selections \in {R \in SUBSET PitReports : Cardinality(R) <= 2}, allowLate \in BOOLEAN :
        LET found == PointInTime(archive, selections, 17, 35, allowLate) IN
        IF found.report = NaN THEN \A r \in archive \cup selections : r.asOf # 16 \/ r.generated \notin {30} \cup (IF allowLate THEN {40} ELSE {})
        ELSE /\ found.report.asOf = 16
             /\ found.report.generated < 35 \/ allowLate
             /\ (\E r \in archive : r.asOf = 16 /\ r.generated = 30) => found.source = "archive"

\* position.price: the least price that reaches the goal, whatever was paid and realized.
Position ==
    [lots : {<<[n |-> n, bought |-> 1]>> : n \in 1 .. 4}, invested : {9, 20, 33, 47}, realized : {0, 5, 18, 60}]
ASSUME PriceIsTheLeast ==
    \A p \in Position, price \in 0 .. 60 : Reaches(p, price, Goal) <=> (price >= priceFor(p, Goal))

-----------------------------------------------------------------------------

\* The execution card: one a day, from a ledger of its own.
Execution == INSTANCE ServiceLedger WITH Owner <- "execution", Batch <- {{page1}}

\* ReviewScreen.
MCDay == 1 .. 2
MCSymmetry == Permutations(Stock) \cup Permutations(Role)

VARIABLE scene

Scene == {"premarket", "execution", "drafts", "advisor", "trades", "review", "training",
          "evaluation"}

clientsVars == <<scene, vars, clientVars, turnVars, tradeVars, screenVars, fitVars,
                 rollVars>>

ClientsInit ==
    /\ scene \in Scene
    /\ Init /\ ClientInit /\ TurnInit /\ TradeInit /\ ScreenInit /\ FitInit
    /\ RollInit
    /\ setting
    /\ scene # "advisor" => llm
    /\ closes \in (IF scene = "evaluation" THEN {<<10, 10, 12, 10>>, <<12, 10, NaN, 10>>}
                   ELSE {<<10, 10, 12, 10>>})
    /\ scene # "trades" => bars = <<Bar(20, 22, 19, 20)>>
    /\ IF scene = "review" THEN published[2] = 1
       ELSE /\ published = [d \in Day |-> 0]
            /\ requested = [asOf |-> Nothing, revision |-> 0, code |-> Nothing]

\* The step of one scene; the others stand still.
Step(s, A) ==
    /\ scene = s /\ A /\ UNCHANGED scene
    /\ IF s \in {"premarket", "execution"} THEN TRUE ELSE UNCHANGED vars
    /\ IF s = "drafts" THEN TRUE ELSE UNCHANGED clientVars
    /\ IF s = "advisor" THEN TRUE ELSE UNCHANGED turnVars
    /\ IF s = "trades" THEN TRUE ELSE UNCHANGED tradeVars
    /\ IF s = "review" THEN TRUE ELSE UNCHANGED screenVars
    /\ IF s = "training" THEN TRUE ELSE UNCHANGED fitVars
    /\ IF s = "evaluation" THEN TRUE ELSE UNCHANGED rollVars

\* Only the predictor has a switch that is turned.
PremarketScene ==
    \/ Step("premarket", LoadSome) \/ Step("premarket", LoadFails) \/ Step("premarket", Work)
    \/ Step("premarket", Accept) \/ Step("premarket", Stop)
    \/ Step("premarket", Crash) \/ Step("premarket", Tick)

ExecutionScene ==
    \/ Step("execution", Execution!LoadSome) \/ Step("execution", Execution!LoadFails)
    \/ Step("execution", Execution!Work) \/ Step("execution", Execution!Accept)
    \/ Step("execution", Execution!Stop) \/ Step("execution", Execution!Crash)
    \/ Step("execution", Execution!Tick)
    \/ \E ch \in RetryBy : Step("execution", Execution!RetryCommand(ch))

DraftsScene ==
    \/ Step("drafts", Rotate) \/ Step("drafts", TokenAges)
    \/ \E s \in Sender :
        \/ Step("drafts", BeginSend(s)) \/ Step("drafts", EnterCover(s))
        \/ Step("drafts", TakeToken(s)) \/ Step("drafts", Invalidate(s))
        \/ \E reply \in Reply :
            \/ Step("drafts", TokenAnswers(s, reply)) \/ Step("drafts", PostAnswers(s, reply))

AdvisorScene ==
    \/ Step("advisor", AcceptTurn) \/ Step("advisor", Classified) \/ Step("advisor", TellIntent)
    \/ Step("advisor", TellPlan) \/ Step("advisor", TellEvidence) \/ Step("advisor", NoAnswer)
    \/ Step("advisor", TellPrompt) \/ Step("advisor", StreamDelta)
    \/ Step("advisor", TellCitation) \/ Step("advisor", TellDone)
    \/ Step("advisor", TellFixed) \/ Step("advisor", TellFailure)
    \/ Step("advisor", ContextEnds)
    \/ \E intent \in left : Step("advisor", QueryOne(intent))
    \/ \E ending \in {"DONE", "EOF", "timeout", "broken"} : Step("advisor", StreamEnds(ending))

TradesScene ==
    \E b \in Bars, again \in BOOLEAN, known \in {"known", "unknown", "invalid"} :
        Step("trades", NextBar(b, again, known))

ReviewScene ==
    \/ \E c \in calls :
        \/ Step("review", DashboardAnswers(c)) \/ Step("review", EventAnswers(c))
        \/ Step("review", CallFails(c))
        \/ \E events \in SUBSET Stock : Step("review", DayAnswers(c, events))
    \/ \E d \in Day : Step("review", ChangeDate(d)) \/ Step("review", Publishes(d))
    \/ \E rev \in 1 .. MaxRevisions : Step("review", ChangeRevision(rev))
    \/ \E code \in Stock : Step("review", ClickRow(code))
    \/ Step("review", RefreshReview) \/ Step("review", Talk)

TrainingScene ==
    \/ Step("training", BuildPredictionSnapshots)
    \/ \E first \in Kind["t1"], second \in Kind["t2"] :
          Step("training", SyncSession([c \in Ticker |-> IF c = "t1" THEN first ELSE second]))

EvaluationScene ==
    \/ Step("evaluation", WriteReport)
    \/ \E d \in ValidationDates : \E sampled \in SUBSET (DaysBefore(d) \cup {d}) :
        \/ \E available \in BOOLEAN : Step("evaluation", SkipDate(d, available, sampled))
        \/ \E actual, e0, e1 \in [EvalCode -> Move], predicted \in [EvalCode -> [Model -> Move]] :
               Step("evaluation", ScoreDate(d, sampled, actual, predicted, e0, e1))

ClientsNext ==
    \/ PremarketScene \/ ExecutionScene \/ DraftsScene \/ AdvisorScene \/ TradesScene
    \/ ReviewScene \/ TrainingScene \/ EvaluationScene

ClientsSpec == ClientsInit /\ [][ClientsNext]_clientsVars
=============================================================================
