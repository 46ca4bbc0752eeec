-------------------------- MODULE ReviewProjection --------------------------
(***************************************************************************)
(* The review page (internal/review, dashboard/review_loader.go,           *)
(* storage/review.go): what has become of the stocks of an archived        *)
(* report.  Nothing of it is kept.  Every reading starts from the frozen   *)
(* report and its inputs and follows the single lot of strategy.Simulate   *)
(* through the sessions that are in the market database today, so that a   *)
(* page can change with every synchronization: sessions are added at the   *)
(* end of a window and fall out at its beginning.                          *)
(*                                                                         *)
(* Dates are numbers, one for each calendar day.  A history is the         *)
(* sequence of its bars in the order of their dates (History.Validate).    *)
(* The prices of a bar decide through the constant operators only;         *)
(* TradeRules has them.                                                    *)
(***************************************************************************)
EXTENDS Integers, Sequences, FiniteSets

CONSTANTS
    ReviewCode,             \* stocks
    Bar,                    \* the bars there may be, records with a date
    LotDays,                \* MaxHoldingDays of the frozen parameters
    Declines(_, _),         \* why the bar is no entry after the signal, or "none"
    Leaves(_, _, _, _),     \* entry, day, the bar before, the bar: the exit, or "none"
    LimitKnown(_, _),       \* PriceLimitFor: the stock has a known price limit on the bar's date
    Net(_, _, _)            \* entry, bar, exit: what the exit brought, percent after fees

Refusal == {"entry_skipped", "cash_insufficient", "risk_budget_insufficient"}
Exit == {"target", "stop", "stop_gap", "timeout"}

ASSUME ReviewAssumption ==
    /\ LotDays \in Nat \ {0}
    /\ \A b \in Bar : b.date \in Nat \ {0}
    /\ \A s, b \in Bar : Declines(s, b) \in Refusal \cup {"none"}
    /\ \A e, p, b \in Bar : \A d \in 1 .. LotDays : Leaves(e, d, p, b) \in Exit \cup {"none"}
    /\ \A c \in ReviewCode : \A b \in Bar : LimitKnown(c, b) \in BOOLEAN
    /\ \A e, b \in Bar : \A x \in Exit : Net(e, b, x) \in Int

-----------------------------------------------------------------------------
(* The calendar of a reading: a window of days, Unavailable without one.    *)

Unavailable == [from |-> 0, through |-> 0, days |-> {}]
Searched == 31

\* Calendar.Next looks through the following days until one of them trades; a day
\* outside the window is an error.
Coming(cal, date) ==
    {d \in cal.days : date < d /\ d <= date + Searched /\ d <= cal.through}
NextExists(cal, date) == Coming(cal, date) # {}
NextDay(cal, date) == CHOOSE d \in Coming(cal, date) : \A e \in Coming(cal, date) : d <= e

\* LoadCalendar: the cached calendar when it has the whole range, the configured one when
\* it has less or cannot be opened; a cache that contradicts itself is an error.
LoadCalendar(cache, configured, from, through) ==
    IF through <= from \/ cache.has = "conflict" THEN Unavailable
    ELSE IF cache.has = "range" THEN [from |-> from, through |-> through, days |-> cache.days]
    ELSE IF configured.from <= from /\ through <= configured.through
    THEN [from |-> from, through |-> through, days |-> configured.days \cap (from .. through)]
    ELSE Unavailable

\* buildCalendar: no calendar without a day in it.
Usable(cal) == cal # Unavailable /\ cal.days # {}

-----------------------------------------------------------------------------
(* strategy.Simulate on the sessions after the signal.                      *)

Ascending(bars) == \A i, j \in 1 .. Len(bars) : i < j => bars[i].date < bars[j].date

\* findBar.
HasBar(bars, date) == \E i \in 1 .. Len(bars) : bars[i].date = date
BarOn(bars, date) == bars[CHOOSE i \in 1 .. Len(bars) : bars[i].date = date]

\* barsAfter: the dates ascend, so that the bars up to the report's are the first ones.
UpTo(bars, date) ==
    CHOOSE n \in 0 .. Len(bars) : \A i \in 1 .. Len(bars) : i <= n <=> bars[i].date <= date
Since(bars, date) == [i \in 1 .. Len(bars) - UpTo(bars, date) |-> bars[UpTo(bars, date) + i]]

Lot(status, entry, exit, net) == [status |-> status, entry |-> entry, exit |-> exit, net |-> net]
NoDate == 0

\* What the session with that number decides for the lot bought in the first one.
Decision(code, cal, future, day) ==
    LET before == future[day] bar == future[day + 1] IN
    CASE ~NextExists(cal, before.date) -> "failed"
      [] NextExists(cal, before.date) /\ bar.date # NextDay(cal, before.date) -> "missing_exit_session"
      [] NextExists(cal, before.date) /\ bar.date = NextDay(cal, before.date) ->
            IF ~LimitKnown(code, bar) THEN "failed" ELSE Leaves(future[1], day, before, bar)

\* The sessions that end the simulation: only the first of them is ever looked at.
Deciding(code, cal, future) ==
    {day \in 1 .. LotDays : day + 1 <= Len(future) /\ Decision(code, cal, future, day) # "none"}
FirstDay(days) == CHOOSE d \in days : \A e \in days : d <= e

Held(code, cal, future) ==
    LET days == Deciding(code, cal, future)
        day == FirstDay(days)
        why == Decision(code, cal, future, day)
        bought == future[1].date
    IN IF days = {} THEN Lot("unresolved", bought, NoDate, 0)
       ELSE IF why \in Exit
       THEN Lot(why, bought, future[day + 1].date, Net(future[1], future[day + 1], why))
       ELSE Lot(why, bought, NoDate, 0)

SimulateLot(code, cal, signal, future) ==
    IF ~NextExists(cal, signal.date) THEN Lot("failed", NoDate, NoDate, 0)
    ELSE IF future = <<>> THEN Lot("missing_entry_session", NoDate, NoDate, 0)
    ELSE IF future[1].date # NextDay(cal, signal.date) THEN Lot("missing_entry_session", NoDate, NoDate, 0)
    ELSE IF Declines(signal, future[1]) # "none"
    THEN Lot(Declines(signal, future[1]), NoDate, NoDate, 0)
    ELSE Held(code, cal, future)

-----------------------------------------------------------------------------
(* One event of the page.  A world is what the loader gives at the time of  *)
(* a reading: the inputs the report was made from, the latest history of    *)
(* each stock, the date of the newest and a calendar up to it.              *)

Review(state, why, lot) == [state |-> state, why |-> why, entry |-> lot.entry, exit |-> lot.exit,
                            status |-> lot.status, net |-> lot.net]
NoLot == Lot("none", NoDate, NoDate, 0)

\* outcomeState, of an outcome that did not buy.
OutcomeState(status) ==
    CASE status \in Exit -> "mature"
      [] status = "unresolved" -> "pending"
      [] status \in Refusal -> "not_entered"
      [] status \notin Exit \cup Refusal \cup {"unresolved"} -> "missing_data"

\* A lot that was bought is mature once it was sold, and pending otherwise.
ReviewOf(lot) ==
    IF lot.status = "failed" THEN Review("missing_data", "simulation_failed", NoLot)
    ELSE IF lot.entry # NoDate
    THEN IF lot.exit # NoDate THEN Review("mature", "", lot)
         ELSE Review("pending", "horizon_not_reached", lot)
    ELSE Review(OutcomeState(lot.status), lot.status, lot)

Event(report, world, code) ==
    LET input == world.inputs[code]
        future == Since(world.latest[code], report.asof)
    IN IF code \notin DOMAIN world.inputs
       THEN Review("unsupported", "frozen_report_input_missing", NoLot)
       ELSE IF ~HasBar(input, report.asof) THEN Review("missing_data", "signal_bar_missing", NoLot)
       ELSE IF code \notin DOMAIN world.latest
       THEN Review("missing_data", "current_market_history_missing", NoLot)
       ELSE IF future = <<>> THEN Review("pending", "waiting_for_next_session", NoLot)
       ELSE IF ~Usable(world.calendar) THEN Review("missing_data", "calendar_unavailable", NoLot)
       ELSE ReviewOf(SimulateLot(code, world.calendar, BarOn(input, report.asof), future))

\* reportCandidates: an old report has no ranking, only what it selected.
Candidates(report) ==
    IF report.ranking # <<>> THEN report.ranking
    ELSE [i \in 1 .. Len(report.selected) |-> [code |-> report.selected[i], recommended |-> TRUE]]

\* reportParameters: "none" when the frozen parameters can be used.
Unfit(report) ==
    IF report.version = 1 \/ report.strategy # "short_horizon_v1"
    THEN "legacy_report_has_no_execution_review" ELSE report.parameters

\* project: the events of the page, in the order of the report.  The page fails as a
\* whole when something cannot be read or the report is another day's.
PageFails(report, world, asof) ==
    \/ ~report.readable \/ report.asof # asof
    \/ Candidates(report) # <<>> /\ Unfit(report) = "none" /\ ~world.readable
Project(report, world) ==
    [i \in 1 .. Len(Candidates(report)) |->
        IF Unfit(report) # "none" THEN Review("unsupported", Unfit(report), NoLot)
        ELSE Event(report, world, Candidates(report)[i].code)]

-----------------------------------------------------------------------------
(* What the page counts.                                                    *)

Counted(events, where, state) == {i \in where : events[i].state = state}
CountedBy(events, where, exit) == {i \in Counted(events, where, "mature") : events[i].status = exit}

\* metricsFor, for the events at these places.
Metrics(events, where) ==
    [total |-> Cardinality(where),
     mature |-> Cardinality(Counted(events, where, "mature")),
     pending |-> Cardinality(Counted(events, where, "pending")),
     notEntered |-> Cardinality(Counted(events, where, "not_entered")),
     missing |-> Cardinality(Counted(events, where, "missing_data")),
     unsupported |-> Cardinality(Counted(events, where, "unsupported")),
     entered |-> Cardinality(Counted(events, where, "mature")
                             \cup {i \in Counted(events, where, "pending") : events[i].entry # NoDate}),
     target |-> Cardinality(CountedBy(events, where, "target")),
     stop |-> Cardinality(CountedBy(events, where, "stop")),
     stopGap |-> Cardinality(CountedBy(events, where, "stop_gap")),
     timeout |-> Cardinality(CountedBy(events, where, "timeout")),
     positive |-> Cardinality({i \in Counted(events, where, "mature") : events[i].net > 0})]

\* aggregate.
Aggregate(events, of) ==
    LET where == 1 .. Len(events) IN
    [all |-> Metrics(events, where),
     recommended |-> Metrics(events, {i \in where : of[i].recommended}),
     observed |-> Metrics(events, {i \in where : ~of[i].recommended})]

-----------------------------------------------------------------------------
(* storage/review.go.  A row of the archive is [id, parses, payload, asof,  *)
(* generated], the last two copied from the payload [asof, generated]; a    *)
(* generation time of 0 is none.                                            *)

\* backfillReportArchive, the step to schema 6: rows whose payload cannot be read keep
\* what they have.
Backfill(archive) ==
    {IF ~row.parses THEN row
     ELSE [row EXCEPT !.asof = row.payload.asof, !.generated = row.payload.generated] : row \in archive}

\* initReviewSchema: one transaction, and the payloads are read only when it is due.
Migrated(db, schema) ==
    IF db.version < schema THEN [db EXCEPT !.archive = Backfill(@), !.version = schema] ELSE db

\* ListReportRevisions: the rows that are filed under the date and say so themselves.
ListedRows(archive, asof) ==
    {row \in archive : /\ row.asof = asof /\ row.generated # 0
                       /\ row.parses /\ row.payload.asof = asof}

\* They are listed by their time, and by their name where it is the same.
Earlier(a, b) == a.generated < b.generated \/ (a.generated = b.generated /\ a.id < b.id)
Listing(archive, asof) ==
    LET rows == ListedRows(archive, asof) IN
    [i \in 1 .. Cardinality(rows) |->
        CHOOSE row \in rows : Cardinality({r \in rows : Earlier(r, row)}) = i - 1]

\* stock_sync, with the windows themselves: rows [code, asof, ok, sound, bars]; a window
\* that no longer has the digest it was stored with is not sound.
Synced(table, codes) == {row \in table : row.code \in codes /\ row.ok}

\* LatestReviewDataDate, NoDate without a row.
LatestDataDate(table, codes) ==
    IF Synced(table, codes) = {} THEN NoDate
    ELSE CHOOSE d \in {row.asof : row \in Synced(table, codes)} :
            \A row \in Synced(table, codes) : row.asof <= d

\* LoadLatestReviewHistories: the last row of each stock up to the date.  The date was
\* read before, and the table may have moved on.
Recent(table, code, limit) == {row \in Synced(table, {code}) : row.asof <= limit}
Newest(table, code, limit) ==
    CHOOSE row \in Recent(table, code, limit) : \A r \in Recent(table, code, limit) : r.asof <= row.asof
WithData(table, codes, limit) == {c \in codes : Recent(table, c, limit) # {}}
LatestHistories(table, codes, limit) ==
    [c \in WithData(table, codes, limit) |-> Newest(table, c, limit).bars]

\* What a reading finds: the date in one table, the histories in a later one, and the
\* calendar between the two dates.
World(inputs, table, later, codes, cache, configured, asof) ==
    LET date == LatestDataDate(table, codes) IN
    [inputs |-> inputs.bars, dataAsOf |-> date, latest |-> LatestHistories(later, codes, date),
     calendar |-> LoadCalendar(cache, configured, asof, date),
     readable |-> inputs.sound /\ \A c \in WithData(later, codes, date) : Newest(later, c, date).sound]
=============================================================================
