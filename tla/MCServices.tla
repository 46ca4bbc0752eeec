----------------------------- MODULE MCServices -----------------------------
(***************************************************************************)
(* The components that have to come to an end or to an answer, each under  *)
(* the fairness of its own module.  They share no variable, and a product  *)
(* of their states would show nothing: a behaviour belongs to one scene,    *)
(* and what the scene does not name stands still.                          *)
(***************************************************************************)
EXTENDS MCReportCycle, RuntimeLifecycle, DailySync, ContextSync,
        DayRangeForecast, MinutePredictor, MinuteBackfill, WalkForward,
        ReviewProjection, Settings

-----------------------------------------------------------------------------
\* DailySync.
CONSTANTS plain, adjusted
MCAdjusts == [c \in Config |-> c = adjusted]

-----------------------------------------------------------------------------
\* MinuteBackfill.
MCLeft == {[finished |-> {}, unfinished |-> {}], [finished |-> {<<1, 1>>, <<1, 2>>}, unfinished |-> {<<2, 1>>}]}
MCArchive == {{}, {<<1, 1>>, <<1, 2>>, <<2, 1>>}, FillDay \X FillSlot}

-----------------------------------------------------------------------------
\* WalkForward: two stocks over eleven sessions, of a few pasts and futures.
MCTrading == 1 .. 11
MCAim == [target |-> 25, days |-> 1]
MCExtract(history) ==
    LET last == history[Len(history)].adjusted rose == last > history[Len(history) - 1].adjusted IN
    [rose |-> rose, calm |-> last < 4, kind |-> IF rose THEN "wick" ELSE "flat", level |-> last]
MCMatches(f, cross) ==
    {"baseline"} \cup (IF f.rose THEN {"up"} ELSE {})
    \cup (IF \A x \in cross : x.features.level <= f.level THEN {"leader"} ELSE {})
MCOpportunity(f, cross) == 10 * f.level - Cardinality({x \in cross : x.features.rose})
MCSimulate(k, history) ==
    LET net == history[Len(history)].close - history[2].close IN
    IF \E i \in 2 .. Len(history) : history[i].date \notin Trading THEN Outside
    ELSE [status |-> IF 10 * net >= k.target - 20 THEN "target" ELSE IF net < 0 THEN "stop" ELSE "timeout",
          entered |-> history[2].close < 4, net |-> net]
MCLowerBound(targets, n, dates) == IF n = 0 THEN 0 ELSE (100 * targets) \div (n + dates)
MCAffordable(bar) == bar.close < 4
MCConfident(whole, baseline) == TRUE

\* The bars of a stock; the adjustment changes where its close is split.
BarsOf(closes) == [i \in DOMAIN closes |->
    [date |-> i, volume |-> 1, adjusted |-> IF closes[i] > 4 THEN closes[i] \div 2 ELSE closes[i], close |-> closes[i]]]
Swings == <<1, 2, 1, 2, 3, 2, 3>>
Falls == <<3, 2, 2, 3, 2, 1, 1>>
Splits == <<1, 2, 2, 3, 2, 6, 4>>
Pasts == {<<Swings, Falls>>, <<Falls, Splits>>, <<Splits, Swings>>}
Future == {<<3, 2, 3, 2>>, <<3, 2, 1, 1>>, <<2, 3, 1, 2>>, <<1, 1, 2, 3>>}
Pools(past) == {[c \in {1, 2} |-> BarsOf(past[c] \o future[c])] : future \in [{1, 2} -> Future]}

\* What came after a date has no part in how its stocks were ranked, and what came after
\* the boundary none in the development.
ASSUME PastOnly ==
    \A past \in Pasts :
        /\ \A d \in 3 .. 7, c \in {1, 2} :
              Cardinality({Candidate(P, <<c, d>>, StatsFor(P, d)) : P \in Pools(past)}) = 1
        /\ Cardinality({Develop(P, Everything) : P \in Pools(past)}) = 1

\* The positions of the timeline, and what it counts, are those of each date by itself.
Listed(P) ==
    [r \in Rule \X Label |->
        LET samples == Labelled(P, r[1], r[2])
            place(s) == <<LabelEnd(P, s, r[2]), s[1]>>
            earlier(s) == {t \in samples : \/ place(t)[1] < place(s)[1]
                                           \/ place(t)[1] = place(s)[1] /\ place(t)[2] < place(s)[2]}
        IN [i \in 1 .. Cardinality(samples) |-> CHOOSE s \in samples : Cardinality(earlier(s)) = i - 1]]
MCDates == <<4, 5, 7, 8, 11>>
Positions(P, lists) ==
    LET pos[n \in 0 .. Len(MCDates)] ==
            [r \in Rule \X Label |->
                IF n = 0 THEN 0 ELSE CHOOSE m \in 0 .. Len(lists[r]) :
                    Advances(P, lists[r], r[2], pos[n - 1][r], m, MCDates[n])]
    IN pos
ASSUME TimelineIsByDate ==
    \A past \in Pasts :
        LET P == CHOOSE p \in Pools(past) : TRUE
            lists == Listed(P) pos == Positions(P, lists)
        IN /\ IsPool(P) /\ IsTimeline(P, lists, MCDates, pos)
           /\ \A n \in DOMAIN MCDates : StatsTimeline(P, lists, pos, n) = StatsFor(P, MCDates[n])

\* Some pools confirm the rules that were found in them, and others do not.
Offered(P) ==
    [c \in DOMAIN P |->
        [special |-> FALSE,
         adjusted |-> [asof |-> 11, adjust |-> "qfq",
                       bars |-> [i \in DOMAIN P[c] |-> [date |-> i, close |-> P[c][i].adjusted]]],
         raw |-> [asof |-> 11, adjust |-> "none",
                  bars |-> [i \in DOMAIN P[c] |-> [date |-> i, close |-> P[c][i].close, volume |-> P[c][i].volume]]]]]

ASSUME SomeAreConfirmed ==
    LET results == {analyze(Offered(P), 11) : P \in Pools(<<Swings, Falls>>)} IN
    /\ \A a \in results : (\E x \in a.ranking : x.recommended) => a.verdict = "exploratory_current_universe"
    /\ \E a \in results : \E x \in a.ranking : x.recommended
    /\ \E a \in results : a.verdict = "validation_failed"

\* The reserved dates are judged by the rules frozen before the first of them, and what came
\* after them has no part in it.
ASSUME HoldoutIsFrozen ==
    LET pools == Pools(<<Swings, Falls>>)
        audit == [P \in pools |-> HoldOut(P, 11, 8, 9, [Everything EXCEPT !.evidence = TRUE], FALSE)]
        ranked(P) == {[code |-> x.code, date |-> x.date, candidate |-> x.candidate] : x \in audit[P].holdout.pool}
        through(P, d) == [c \in DOMAIN P |-> SubSeq(P[c], 1, d)]
    IN /\ \A P, Q \in pools : through(P, 9) = through(Q, 9) => ranked(P) = ranked(Q)
       /\ \E P, Q \in pools : through(P, 9) = through(Q, 9) /\ audit[P].proven # audit[Q].proven
       /\ \A P \in pools : /\ HoldOut(P, 11, 9, 8, Everything, FALSE).verdict = "refused"
                           /\ HoldOut(P, 11, 8, 9, Everything, TRUE).verdict = "contaminated"

-----------------------------------------------------------------------------
\* ReviewProjection: the sessions 2, 3, 5 and 6 after a report of 1, and a day of rest.
MCBar == [date : 1 .. 6, kind : {"flat", "high", "low"}]
MCDeclines(signal, bar) == IF bar.kind = "low" THEN "entry_skipped" ELSE "none"
MCLeaves(entry, day, before, bar) ==
    IF bar.kind = "high" THEN "target" ELSE IF bar.kind = "low" THEN "stop"
    ELSE IF day = LotDays THEN "timeout" ELSE "none"
MCLimitKnown(code, bar) == code # 2 \/ bar.date < 6
MCNet(entry, bar, exit) == IF exit = "target" THEN bar.date - entry.date ELSE -1

AfterReport == {2, 3, 5, 6}
MCReport == [asof |-> 1, version |-> 2, strategy |-> "short_horizon_v1", parameters |-> "none", readable |-> TRUE,
             selected |-> <<>>, ranking |-> <<[code |-> 1, recommended |-> TRUE],
                                              [code |-> 2, recommended |-> FALSE], [code |-> 3, recommended |-> TRUE]>>]
\* The window of a stock that has those sessions, and the reading at the end of a day.
Window(kinds, dates) ==
    LET earlier(d) == {e \in dates : e < d} IN
    [i \in 1 .. Cardinality(dates) |->
        LET d == CHOOSE e \in dates : Cardinality(earlier(e)) = i - 1
        IN [date |-> d, kind |-> IF d = 1 THEN "flat" ELSE kinds[d]]]
Reading(kinds, dates, through) ==
    LET window == Window(kinds, {d \in dates : d <= through}) IN
    [inputs |-> [c \in {1, 2} |-> Window(kinds, {1})], dataAsOf |-> through,
     latest |-> [c \in {1, 2} |-> window], readable |-> TRUE,
     calendar |-> LoadCalendar([has |-> "range", days |-> {1} \cup AfterReport], Unavailable, 1, through)]
MCKinds == [AfterReport -> {"flat", "high", "low"}]

\* What a simulation came to stands in every later reading of a window that only goes on,
\* and a lot that was sold has no gap in the sessions it saw.
ASSUME ReviewsStand ==
    \A kinds \in MCKinds, dates \in SUBSET AfterReport, t \in 1 .. 6, c \in {1, 2} :
        LET e == Event(MCReport, Reading(kinds, dates \cup {1}, t), c) IN
        /\ e.status \notin {"none", "unresolved"} => e = Event(MCReport, Reading(kinds, dates \cup {1}, 6), c)
        /\ e.state = "mature" => /\ 1 < e.entry /\ e.entry < e.exit /\ e.exit <= t
                                 /\ {d \in AfterReport : d <= e.exit} \subseteq dates

\* A lot whose next session is missing waits for ever, and what was mature is lost with the
\* session of its entry.
ASSUME ReviewsWaitOrPass ==
    \E kinds \in MCKinds :
        /\ \E dates \in SUBSET AfterReport :
              LET e == Event(MCReport, Reading(kinds, dates \cup {1}, 6), 1)
              IN e.state = "pending" /\ e.status = "missing_exit_session"
        /\ Event(MCReport, Reading(kinds, AfterReport, 6), 1).state = "mature"
        /\ Event(MCReport, Reading(kinds, {3, 5, 6}, 6), 1).why = "missing_entry_session"

ASSUME PageAddsUp ==
    \A kinds \in MCKinds, t \in 1 .. 6 :
        LET w == Reading(kinds, {1} \cup AfterReport, t)
            sum == Aggregate(Project(MCReport, w), Candidates(MCReport))
        IN /\ \A m \in {sum.all, sum.recommended, sum.observed} :
                /\ m.total = m.mature + m.pending + m.notEntered + m.missing + m.unsupported
                /\ m.mature = m.target + m.stop + m.stopGap + m.timeout
                /\ m.mature <= m.entered /\ m.entered <= m.mature + m.pending
           /\ sum.all.total = 3 /\ sum.all.unsupported = 1 /\ ~PageFails(MCReport, w, 1)

\* Two synchronizations and a revision of the report before the migration.
MCRows == {[id |-> i, parses |-> i # 3, payload |-> [asof |-> 1, generated |-> g], asof |-> a, generated |-> 0] :
              i \in {1, 2, 3}, g \in {0, 7}, a \in {0, 1}}
MCTable == {[code |-> 1, asof |-> 4, ok |-> TRUE, sound |-> TRUE, bars |-> <<4>>],
            [code |-> 1, asof |-> 5, ok |-> TRUE, sound |-> TRUE, bars |-> <<4, 5>>],
            [code |-> 2, asof |-> 4, ok |-> TRUE, sound |-> TRUE, bars |-> <<3, 4>>],
            [code |-> 2, asof |-> 5, ok |-> FALSE, sound |-> TRUE, bars |-> <<>>]}
ASSUME StoredReviews ==
    /\ \A archive \in SUBSET MCRows :
          LET migrated == Migrated([archive |-> archive, version |-> 5], 6).archive IN
          /\ {row.id : row \in ListedRows(migrated, 1)}
                = {row.id : row \in {r \in archive : r.parses /\ r.payload.generated # 0}}
          /\ Migrated([archive |-> migrated, version |-> 5], 6).archive = migrated
          /\ LET list == Listing(migrated, 1) IN {list[i] : i \in DOMAIN list} = ListedRows(migrated, 1)
    /\ \A before, more \in SUBSET MCTable :
          LET date == LatestDataDate(before, {1, 2}) IN
          (\A row \in more : date < row.asof) =>
             LatestHistories(before \cup more, {1, 2}, date) = LatestHistories(before, {1, 2}, date)

-----------------------------------------------------------------------------
\* Settings: two of the four settings, one of them of any text.
MCAcceptable == [f \in SettingsField |-> IF f = "api_key" THEN SettingsText ELSE SettingsText \ {"bad"}]
MCDefaults == [f \in SettingsField |-> "good"]

\* The order of the clocks is that of their texts, character by character.
Characters(c) ==
    LET digit(n) == 48 + n colon == 58 IN
    (IF c.short THEN <<digit(c.hour)>> ELSE <<digit(c.hour \div 10), digit(c.hour % 10)>>)
        \o <<colon, digit(c.minute \div 10), digit(c.minute % 10)>>
TextBefore(s, t) ==
    \E n \in 1 .. Len(t) : /\ \A i \in 1 .. n - 1 : i <= Len(s) /\ s[i] = t[i]
                           /\ n > Len(s) \/ s[n] < t[n]
ASSUME TextsAreOrdered ==
    \A c \in ClockTexts, d \in {Clock(9, 30), Clock(15, 5), Clock(15, 10), Clock(23, 0), Clock(23, 59)} :
        TextRank(c) < TextRank(d) <=> TextBefore(Characters(c), Characters(d))

\* A deployment of the program, and what it may not leave out or say.
NoVariables == [v \in {} |-> ""]
Unset == [given |-> FALSE, hook |-> FALSE]
Deployed(env, stocks, hook, token) ==
    [env |-> env, token |-> token,
     llm |-> [state |-> "missing", env |-> NoSettings, set |-> NoSettings],
     pool |-> [state |-> "whole", stocks |-> stocks],
     feishu |-> [state |-> "missing", hook |-> FALSE], feishu_env |-> [given |-> TRUE, hook |-> hook],
     wechat |-> [state |-> "missing", id |-> "", secret |-> ""], wechat_env |-> [id |-> "", secret |-> ""],
     channel |-> NoVariables, channel_env |-> NoVariables]
Variable(section, field, value) ==
    [v \in {<<section, field>>} |-> [readable |-> TRUE, value |-> value]]
Nightly(hour) ==
    [v \in {<<"dayrange", "enabled">>, <<"dayrange", "train_at">>} |->
        [readable |-> TRUE, value |-> IF v[2] = "enabled" THEN TRUE ELSE ShortClock(hour, 30)]]
Pool == <<[code |-> 1, valid |-> TRUE], [code |-> 2, valid |-> TRUE]>>
Twice == <<Pool[1], Pool[1]>>
Plain == Deployed(NoVariables, Pool, TRUE, FALSE)

ASSUME BuiltinStands ==
    /\ Accepted(Builtin, Plain)
    /\ ~Accepted(Builtin, Deployed(NoVariables, Pool, FALSE, FALSE))
    /\ ~Accepted(Builtin, Deployed(NoVariables, Twice, TRUE, FALSE))
    /\ ~Accepted(Builtin, Deployed(Variable("first", "enabled", FALSE), Pool, TRUE, FALSE))
    /\ ~Accepted(Builtin, Deployed(Variable("top", "adjust", "none"), Pool, TRUE, FALSE))
    /\ ~Accepted(Builtin, Deployed(Variable("wechat", "enabled", TRUE), Pool, TRUE, FALSE))
    /\ ~Accepted(Builtin, Deployed(Variable("market", "providers", <<"tushare">>), Pool, TRUE, FALSE))
    /\ Accepted(Builtin, Deployed(Variable("market", "providers", <<"tushare">>), Pool, TRUE, TRUE))
    /\ Accepted(Builtin, Deployed(Nightly(1), Pool, TRUE, FALSE))
    /\ ~Accepted(Builtin, Deployed(Nightly(2), Pool, TRUE, FALSE))

\* Prepare takes nothing but the token for a configuration that was prepared before.
ASSUME PreparedOnce ==
    LET c == Prepared(Builtin, Plain)
        w == Deployed(Variable("top", "adjust", "none"), Twice, FALSE, TRUE)
    IN Prepared(c, w) = [c EXCEPT !.market.token = TRUE] /\ Accepted(c, w)

-----------------------------------------------------------------------------

VARIABLE scene

Scene == {"cycle", "lifecycle", "sync", "context", "range", "pick", "fill", "settings"}

servicesVars == <<scene, vars, lifecycleVars, syncVars, contextVars, rangeVars, pickVars,
                  fillVars, settingsVars>>

\* Where another scene chooses among initial states, this one has one of them.
ServicesInit ==
    /\ scene \in Scene
    /\ Init /\ LifecycleInit /\ SyncInit /\ ContextInit /\ RangeInit /\ PickInit
    /\ FillInit
    /\ scene # "lifecycle" => web
    /\ scene # "sync" => config = adjusted
    /\ scene # "pick" => selected = Pick /\ pointer = NoModel
    /\ scene # "fill" => /\ traded = [s \in BackfillStock |-> FillDay]
                        /\ finished = [s \in BackfillStock |-> {}]
    /\ SettingsInit
    /\ scene # "settings" => /\ deployment = [on |-> TRUE, env |-> NoSettings, mode |-> "loopback"]
                            /\ llmFile = MissingFile

\* The step of one scene; the others stand still.
Step(s, A) ==
    /\ scene = s /\ A /\ UNCHANGED scene
    /\ IF s = "cycle" THEN TRUE ELSE UNCHANGED vars
    /\ IF s = "lifecycle" THEN TRUE ELSE UNCHANGED lifecycleVars
    /\ IF s = "sync" THEN TRUE ELSE UNCHANGED syncVars
    /\ IF s = "context" THEN TRUE ELSE UNCHANGED contextVars
    /\ IF s = "range" THEN TRUE ELSE UNCHANGED rangeVars
    /\ IF s = "pick" THEN TRUE ELSE UNCHANGED pickVars
    /\ IF s = "fill" THEN TRUE ELSE UNCHANGED fillVars
    /\ IF s = "settings" THEN TRUE ELSE UNCHANGED settingsVars

CycleScene ==
    \/ Step("cycle", StartSome)
    \/ Step("cycle", ReadReport) \/ Step("cycle", Sync)
    \/ Step("cycle", Healthy) \/ Step("cycle", Recompute)
    \/ Step("cycle", Incomplete) \/ Step("cycle", Deadline)
    \/ Step("cycle", EnqueueReport) \/ Step("cycle", ArtifactsArrive)
    \/ Step("cycle", Crash) \/ Step("cycle", Tick)

LifecycleScene ==
    \/ \E r \in Runner :
        \/ Step("lifecycle", Refuse(r)) \/ Step("lifecycle", Enter(r))
        \/ Step("lifecycle", BindFails(r)) \/ Step("lifecycle", Launch(r))
        \/ Step("lifecycle", MonitorsReturn(r)) \/ Step("lifecycle", Shutdown(r))
        \/ Step("lifecycle", Join(r)) \/ Step("lifecycle", ReturnDirect(r))
        \/ Step("lifecycle", Leave(r)) \/ Step("lifecycle", Signal(r))
        \/ Step("lifecycle", ServerBreaks(r)) \/ Step("lifecycle", HostCancels(r))
        \/ \E e \in Error : Step("lifecycle", Select(r, e))
        \/ \E l \in Loop :
            \/ Step("lifecycle", Collect(r, l))
            \/ Step("lifecycle", LoopEnds(r, l, "failed"))
            \/ Step("lifecycle", LoopEnds(r, l, "canceled"))
    \/ \E c \in Closer :
        \/ Step("lifecycle", CloseAgain(c)) \/ Step("lifecycle", CloseFirst(c))
        \/ Step("lifecycle", CancelRun(c)) \/ Step("lifecycle", WaitForRun(c))
        \/ Step("lifecycle", Release(c)) \/ Step("lifecycle", Finish(c))
        \/ Step("lifecycle", Await(c))

SyncScene ==
    \/ Step("sync", Call) \/ Step("sync", BeginSyncTask) \/ Step("sync", BeginFails)
    \/ Step("sync", Reuse) \/ Step("sync", CollectStock) \/ Step("sync", ListingIsolates)
    \/ Step("sync", NoEvidence) \/ Step("sync", Count)
    \/ Step("sync", CommitCollectedData) \/ Step("sync", Analyze)
    \/ Step("sync", CommitAnalysis) \/ Step("sync", LoadReport)
    \/ Step("sync", StepFails) \/ Step("sync", RecordFailedRun)
    \/ Step("sync", SaveSyncTask) \/ Step("sync", SyncCrash) \/ Step("sync", SyncRestart)

ContextScene ==
    \/ Step("context", StartContext) \/ Step("context", Discover)
    \/ Step("context", DiscoverFails) \/ Step("context", DatesFail)
    \/ Step("context", StopFeeding) \/ Step("context", Receive)
    \/ Step("context", Drain) \/ Step("context", ReportContext)
    \/ Step("context", Cancel) \/ Step("context", CrashContext)
    \/ \E w \in Worker : Step("context", Hand(w))
    \/ \E w \in Worker : Step("context", LeavePool(w))
    \/ \E w \in Worker : Step("context", Fetch(w))

RangeScene ==
    \/ \E a \in {ServiceLoop, Reporter} : Step("range", BeginForecasts(a))
    \/ \E a \in {ServiceLoop, Reporter} : Step("range", SaveForecast(a))
    \/ \E a \in {ServiceLoop, Reporter} : Step("range", EndForecasts(a))
    \/ Step("range", TrainBaseline) \/ Step("range", TrainCandidate)
    \/ Step("range", FinishTraining) \/ Step("range", ReconcileDay)
    \/ Step("range", SyncBars) \/ Step("range", ServiceRestarts)
    \/ Step("range", TimeGoesOn)

PickScene ==
    \/ Step("pick", StartTurn) \/ Step("pick", InsertActual)
    \/ Step("pick", NothingToPredict) \/ Step("pick", BeginPrediction)
    \/ Step("pick", InsertPrediction) \/ Step("pick", EndPrediction)
    \/ Step("pick", TurnFails) \/ Step("pick", PredictorRestarts)
    \/ Step("pick", BarIsFinal) \/ Step("pick", ReportIsRefreshed)
    \/ Step("pick", BellRings)

FillScene ==
    \/ Step("fill", StartBackfill) \/ Step("fill", StartStaging)
    \/ Step("fill", CloseJobs) \/ Step("fill", EndCollecting)
    \/ Step("fill", ImportStaged) \/ Step("fill", EndStaging)
    \/ Step("fill", CancelFill) \/ Step("fill", EndProcess)
    \/ \E w \in FillWorker :
        \/ Step("fill", HandJob(w)) \/ Step("fill", FetchArchive(w))
        \/ Step("fill", LeaveFetching(w)) \/ Step("fill", CollectArchive(w))
        \/ Step("fill", CollectFailure(w))

SettingsScene ==
    \/ Step("settings", StartServing) \/ Step("settings", StopServing)
    \/ Step("settings", EditFile) \/ Step("settings", Deploy)
    \/ \E update \in Saying : Step("settings", Save(update)) \/ Step("settings", SaveUnsynced(update))

ServicesNext ==
    \/ CycleScene \/ LifecycleScene \/ SyncScene \/ ContextScene
    \/ RangeScene \/ PickScene \/ FillScene \/ SettingsScene

\* The fairness of each module, in its scene.
Only(s, A) == scene = s /\ A

ServicesFairness ==
    /\ WF_vars(Only("cycle", StartSome)) /\ WF_vars(Only("cycle", Work))
    /\ WF_vars(Only("cycle", TickBeforeOpen))
    /\ \A r \in Runner :
        /\ WF_lifecycleVars(Only("lifecycle", Proceed(r)))
        /\ \A l \in Loop :
            /\ WF_lifecycleVars(Only("lifecycle", LoopEnds(r, l, "canceled")))
            /\ WF_lifecycleVars(Only("lifecycle", Collect(r, l)))
    /\ \A c \in Closer : WF_lifecycleVars(Only("lifecycle", CloseProceeds(c)))
    /\ WF_syncVars(Only("sync", SyncStep))
    /\ WF_contextVars(Only("context", ContextStep))
    /\ WF_rangeVars(Only("range", LoopGoesOn))
    /\ WF_pickVars(Only("pick", TurnGoesOn)) /\ WF_pickVars(Only("pick", BellRings))

ServicesSpec == ServicesInit /\ [][ServicesNext]_servicesVars
FairServicesSpec == ServicesSpec /\ ServicesFairness
=============================================================================
