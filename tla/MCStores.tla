------------------------------ MODULE MCStores ------------------------------
(***************************************************************************)
(* The components of which only safety is asked: what their tables, files  *)
(* and shared records may show at any moment.  As in MCServices a behaviour *)
(* belongs to one scene, and the other components stand still.              *)
(***************************************************************************)
EXTENDS StatusCoverage, ExperimentArchive, LogFiles, SourceFallback, IntradaySync,
        MCChanlun, CalendarCache, LegacyMigration, StructureGuard

\* The sweep of missingRanges and the days it is about, over any three stored ranges.
ASSUME SweepIsCovers ==
    \A r, s, t, u \in Interval :
        LET stored_ranges == {s, t, u} IN
        LET missing == MissingRanges(r, stored_ranges) IN
        /\ (missing = <<>>) = Covers(r, stored_ranges)
        /\ \A d \in r[1] .. r[2] :
              (\E i \in 1 .. Len(missing) : In(d, missing[i])) = ~\E v \in stored_ranges : In(d, v)

-----------------------------------------------------------------------------
\* SourceFallback.
MCProviderRoute == [daily |-> <<"tencent", "sina">>, status |-> <<"baostock_status">>,
            calendar |-> <<"baostock_calendar">>, listing |-> <<"sina_listing">>]

-----------------------------------------------------------------------------
\* CalendarCache.
\* Ranges that overlap and leave a day out; two opinions on day 2.
MCAsked == {<<0, 1>>, <<3, 3>>, <<4, 5>>, <<0, 3>>}
MCTold == {{0, 2, 4}, {0, 4}}
MCConfigured == [from |-> 4, through |-> 5, days |-> {4}]

-----------------------------------------------------------------------------
\* LegacyMigration.
\* Two sessions with a report each, before and after its refresh; a third one
\* that the second report is for.
MCCard == [asof : {0, 1}, id : {"old", "new"}, part : {0, 1}]
MCSequence == [c \in MCCard |-> c.part]
MCAsOf == [c \in MCCard |-> c.asof]
MCDependsOn == [c \in MCCard |-> IF c.part = 0 THEN NoCard ELSE [c EXCEPT !.part = 0]]
MCExpiresAt == [c \in MCCard |-> OpeningOf(NextTrade(c.asof))]
MCReportCards == [d \in {0, 1} |-> [id \in {"old", "new"} |-> {c \in MCCard : c.asof = d /\ c.id = id}]]
MCBackoff == [n \in 0 .. 1 |-> n]
Waited(d, t, gaveUp) == [asof |-> d, attempts |-> 1, next |-> t, blocked |-> gaveUp]
\* Left in the evening of the first session, or of the second one.
MCLegacyFile ==
    {[last |-> 0, pending |-> NoPending, left |-> 2],
     [last |-> NoDay, pending |-> Waited(0, 4, FALSE), left |-> 2],
     [last |-> NoDay, pending |-> Waited(0, 0, TRUE), left |-> 2],
     [last |-> 0, pending |-> Waited(1, 8, FALSE), left |-> 6]}

-----------------------------------------------------------------------------

\* StructureGuard.
\* Bars whose prices go up and down around some centres, each beside the last one.
Around(centre, close) == [high |-> centre + 1, low |-> centre - 1, close |-> close]
Daily(centres, day) ==
    [i \in DOMAIN centres |->
        Around(centres[i], centres[i]) @@ [at |-> day - Len(centres) + i]]
Closing(bars, change) == [bars EXCEPT ![Len(bars)].close = @ + change]
Thirties(minutes) == [minutes EXCEPT !.period = Group, !.bars = GroupedBars(@)]
Fives(centres, first, fetched) ==
    [code |-> 1, period |-> 1, fetched |-> fetched,
     bars |-> [i \in DOMAIN centres |->
                  Around(centres[i], centres[i])
                  @@ [at |-> first + i - 1, final |-> first + i - 1 <= fetched]]]

MCToday == 9
\* A zone that is held or broken, one below another, strokes without a zone that
\* go up or down, too few bars.
MCCentres ==
    {<<4, 7, 4, 7, 4, 7, 4, 6>>, <<9, 14, 9, 14, 9, 14, 9, 12>>, <<9, 14, 9, 14, 9, 14, 9, 4>>,
     <<13, 9, 13, 9, 13, 2, 6, 2, 6, 2, 6, 3>>,
     <<9, 3, 9, 3, 6>>, <<3, 9, 3, 9, 6>>, <<4, 7, 5, 6>>, <<4, 7>>}
MCDaily ==
    {<<>>} \union {Closing(Daily(c, MCToday), d) : c \in MCCentres, d \in {-1, 0}}
           \union {Daily(c, MCToday - 1) : c \in MCCentres}
MCRaw == {<<>>} \union {<<Around(close, close) @@ [at |-> MCToday]>> : close \in {6, 12, 2000}}
\* The last days in bars of five minutes: a bottom that is held or broken, a top
\* alone, neither, too few bars; up to the close, before it, beyond it, or the day before.
MCFiveCentres ==
    {<<7, 7, 3, 3, 6, 6, 8, 8>>, <<9, 9, 6, 6, 8, 8, 4, 4>>, <<3, 3, 5, 5, 9, 9, 7, 7>>,
     <<3, 3, 5, 5, 7, 7, 9, 9>>, <<3, 9, 3, 9>>}
MCFives ==
    LET close == MCToday * SlotsPerDay
        some == {Fives(c, close + e + 1 - Len(c), close + e + g) :
                     c \in MCFiveCentres, e \in {0, -1, 2, -4}, g \in {-1, 0}}
    IN  {[h EXCEPT !.bars = Closing(@, d)] : h \in some, d \in {-1, 0}}
Misdated(h) == [h EXCEPT !.fetched = 1]
MCStored == {<<h, Thirties(h)>> : h \in MCFives}
MCMinutes ==
    {<<>>} \union MCStored
        \union UNION {{<<h>>, <<h, h>>, <<Thirties(h)>>, <<Misdated(h)>>, <<Thirties(Misdated(h))>>} : h \in MCFives}
MCCall == [daily : MCDaily, raw : MCRaw, minutes : MCMinutes]
Judged(c) == GuardOf(1, MCToday, c.daily, c.raw, c.minutes)

\* Every verdict is that of one of these calls (the checks below are about something).
ASSUME GuardReaches ==
    \A verdict \in
        {"daily_missing", "daily_not_asof", "daily_insufficient", "daily_no_structure", "daily_no_zone",
         "daily_zone_broken", "daily_midpoint_down", "price_scale_unknown", "minute_snapshot_invalid",
         "minute_missing", "minute_invalid", "minute_not_asof", "minute_incomplete_day",
         "minute_insufficient", "minute_no_structure", "minute_30_no_bottom_fractal",
         "veto_30m_below_daily_zone", "veto_5m_below_30m_fractal", "daily_structure_ok"} :
        \E c \in MCCall : Judged(c).reason = verdict

\* What the engine hands over is what it accepts: cut off at the day, the bars of
\* thirty minutes are still those of the five-minute bars (reportMinutes, Execute).
ASSUME CutOffIsAdmitted ==
    \A s \in MCStored : PairValid(s[1], s[2]) /\ ~CutOffFails(s, MCToday) =>
        AdmitsMinutes(ReportMinutes(s, MCToday), MCToday)

\* A bar after the day or one that is still forming changes no verdict
\* (filterFinalMinuteBars).
ASSUME GuardSeesNoTomorrow ==
    \A s \in MCStored, d \in MCDaily, r \in MCRaw :
        PairValid(s[1], s[2]) /\ ~CutOffFails(s, MCToday) =>
            GuardOf(1, MCToday, d, r, s) = GuardOf(1, MCToday, d, r, ReportMinutes(s, MCToday))

\* A stock that passes also passes with the same bars and a higher last close, by
\* the day and by the minute (evaluateStructureGuard).
ASSUME HigherClosePasses ==
    \A f \in MCFives, d \in MCDaily \ {<<>>}, r \in MCRaw \ {<<>>} :
        LET up == [f EXCEPT !.bars = Closing(@, 1)]
            higher == Closing(d, 1)
        IN  /\ GuardOf(1, MCToday, d, r, <<f, Thirties(f)>>).guard = "pass"
            /\ MinutesValid(up) /\ WellShaped(higher) /\ Scaled(higher, r, MCToday)
            => GuardOf(1, MCToday, higher, r, <<up, Thirties(up)>>).guard = "pass"

\* Three stocks that rank in their order; what the guard says of each, what the
\* rules do, how their scores change.
MCRankings ==
    {[i \in 1 .. 3 |-> [code |-> i, daily |-> daily[i], hard |-> hard[i]]] :
        daily \in [1 .. 3 -> BOOLEAN], hard \in [1 .. 3 -> {{}, {"cash_insufficient"}}]}
MCRescored == {<<1, 1, 1>>, <<1, 2, 3>>, <<2, 3, 1>>}
MCReports(mode, minutes) ==
    {Offered(Execution(mode, minutes), Ranking(mode, minutes, c, g, s), TRUE, n) :
        c \in MCRankings, g \in [1 .. 3 -> {"pass", "fail", "unknown"}], s \in MCRescored, n \in {1, 2}}
Chosen(report) == {report.selected[i] : i \in DOMAIN report.selected}

\* Whatever the guard and the rules say, shadow mode offers nothing; enforce mode
\* offers what passes alone; no stock is lost or told twice.
ASSUME OnlyPassedAreOffered ==
    \A mode \in {"shadow", "enforce"} : \A x \in MCReports(mode, <<"some">>) :
        /\ mode = "shadow" => x.selected = <<>> /\ x.passed = 0
        /\ \A e \in Chosen(x) : e.guard = "pass"
        /\ {x.ranking[i].code : i \in 1 .. 3} = 1 .. 3
        /\ x.passed > 0 => x.selected # <<>>
        /\ x.execution # "shadow" => x.passed + Cardinality(x.filtered) = 3

\* Without one minute history no guard is asked, and shadow mode offers stocks too.
ASSUME UnguardedWithoutMinutes ==
    \E x \in MCReports("shadow", <<>>) : x.selected # <<>>

-----------------------------------------------------------------------------

VARIABLE scene

Scene == {"status", "archive", "logs", "sources", "minutes", "chan", "calendar", "upgrade"}

storesVars == <<scene, statusVars, archiveVars, logVars, sourceVars, minuteVars,
                chanVars, calendarVars, migrationVars>>

\* Where another scene chooses among initial states, this one has one of them.
AnyLegacy == CHOOSE f \in LegacyFile : TRUE

StoresInit ==
    /\ scene \in Scene
    /\ StatusInit /\ ArchiveInit /\ LogInit /\ SourceInit /\ IntradayInit
    /\ ChanInit /\ CalendarInit /\ MigrationInit
    /\ scene # "minutes" => watched = MinuteStock
    /\ scene # "upgrade" => legacy = AnyLegacy /\ stored = [d \in Trades |-> "none"]

\* The step of one scene; the others stand still.
Step(s, A) ==
    /\ scene = s /\ A /\ UNCHANGED scene
    /\ IF s = "status" THEN TRUE ELSE UNCHANGED statusVars
    /\ IF s = "archive" THEN TRUE ELSE UNCHANGED archiveVars
    /\ IF s = "logs" THEN TRUE ELSE UNCHANGED logVars
    /\ IF s = "sources" THEN TRUE ELSE UNCHANGED sourceVars
    /\ IF s = "minutes" THEN TRUE ELSE UNCHANGED minuteVars
    /\ IF s = "chan" THEN TRUE ELSE UNCHANGED chanVars
    /\ IF s = "calendar" THEN TRUE ELSE UNCHANGED calendarVars
    /\ IF s = "upgrade" THEN TRUE ELSE UNCHANGED migrationVars

StatusScene ==
    \/ Step("status", SaveCalendar) \/ Step("status", RecordCalendarFailure)
    \/ Step("status", StatusBackfill) \/ Step("status", StatusRefresh)
    \/ Step("status", ListingFails) \/ Step("status", NextSession)

ArchiveScene == \E c \in Command :
    \/ Step("archive", OpenArchive(c)) \/ Step("archive", RecoverOne(c))
    \/ Step("archive", EndRecovery(c)) \/ Step("archive", StartDevelopment(c))
    \/ Step("archive", StartHoldout(c)) \/ Step("archive", EvaluateRun(c))
    \/ Step("archive", FinishRun(c)) \/ Step("archive", LeaveArchive(c))
    \/ Step("archive", CommandDies(c))

LogsScene ==
    \/ Step("logs", StartLogger) \/ Step("logs", WriteLine) \/ Step("logs", AppendLine)
    \/ Step("logs", CloseFile) \/ Step("logs", RenameFile) \/ Step("logs", OpenNew)
    \/ Step("logs", Compress) \/ Step("logs", RemoveRotated) \/ Step("logs", PruneBackups)
    \/ Step("logs", CloseLogger) \/ Step("logs", LoggerDies) \/ Step("logs", NextDay)

SourcesScene ==
    \/ Step("sources", TimePasses)
    \/ \E c \in Caller :
        \/ Step("sources", CancelCall(c)) \/ Step("sources", AskProvider(c))
        \/ Step("sources", DecideNext(c)) \/ Step("sources", EndOfRoute(c))
        \/ \E k \in Kind : Step("sources", BeginCall(c, k))
        \/ \E h \in Heard : Step("sources", ProviderAnswers(c, h))

MinutesScene ==
    \/ Step("minutes", StartRound) \/ Step("minutes", CollectRound)
    \/ Step("minutes", StopMonitor) \/ Step("minutes", ClockTicks)
    \/ \E w \in MinuteWorker :
        \/ Step("minutes", TakeJob(w)) \/ Step("minutes", EndFetch(w))
        \/ Step("minutes", SaveMinutes(w)) \/ Step("minutes", SaveFails(w))

ChanScene == Step("chan", BarCompletes)

CalendarScene == \E u \in CacheUser :
    \/ \E r \in Asked :
        \/ Step("calendar", BeginSnapshot(u, r)) \/ Step("calendar", Review(u, r))
    \/ Step("calendar", FreezeSnapshot(u)) \/ Step("calendar", FetchCalendar(u))
    \/ Step("calendar", SaveWindow(u)) \/ Step("calendar", SaveWindowFails(u))
    \/ Step("calendar", UserDies(u))

UpgradeScene ==
    \/ Step("upgrade", StartMonitor) \/ Step("upgrade", ReadState)
    \/ Step("upgrade", SyncStartup) \/ Step("upgrade", EnqueueStartup)
    \/ \E s \in Slot : Step("upgrade", SendDue(s))
    \/ Step("upgrade", MonitorDies) \/ Step("upgrade", TimeFlies)

StoresNext ==
    \/ StatusScene \/ ArchiveScene \/ LogsScene \/ SourcesScene \/ MinutesScene
    \/ ChanScene \/ CalendarScene \/ UpgradeScene

StoresSpec == StoresInit /\ [][StoresNext]_storesVars
=============================================================================
