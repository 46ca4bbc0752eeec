--------------------------- MODULE StructureGuard ---------------------------
(***************************************************************************)
(* What keeps a ranked stock from being offered                            *)
(* (strategy/structure_guard.go, strategy/chan_selection.go, the report    *)
(* around them in selection/engine.go and selection/selection.go): the     *)
(* daily bars, the bars of thirty and of five minutes are read with the    *)
(* structure of Chanlun, and each may veto or say that it does not know.   *)
(*                                                                         *)
(* Nothing here keeps state: a report is built once from frozen inputs.    *)
(* Prices are integers, compared without the tolerance of 1e-9; a moment   *)
(* is the number of five-minute bars that have ended; the open of a bar,   *)
(* the volumes and the texts are left out, the scores are arguments.       *)
(***************************************************************************)
EXTENDS Chanlun, FiniteSets

CONSTANTS
    Group,          \* bars of five minutes in one of thirty (6)
    SlotsPerDay,    \* bars of five minutes in a session (48)
    DailyEnough,    \* bars that the daily structure needs (240)
    ThirtyEnough,   \* and that of thirty minutes (96)
    FiveEnough      \* and that of five minutes (240)

ASSUME GuardAssumption ==
    /\ Group \in Nat \ {0} /\ SlotsPerDay \in Nat \ {0} /\ SlotsPerDay % Group = 0
    /\ DailyEnough \in Nat \ {0} /\ ThirtyEnough \in Nat /\ FiveEnough \in Nat

\* A moment lies in a session; days are numbered from 1.
SessionOf(at) == (at - 1) \div SlotsPerDay + 1

\* minuteChanBars: the structure needs no closes.
Shape(bars) == [i \in DOMAIN bars |-> BarAt(bars[i].high, bars[i].low, bars[i].at)]
Structure(bars) == Analyze(Shape(bars))

\* What validateLimit asks of minutes and chanlun.validate of any bars.
WellShaped(bars) ==
    \A i \in DOMAIN bars :
        /\ 0 < bars[i].low /\ bars[i].low <= bars[i].close /\ bars[i].close <= bars[i].high
        /\ \A j \in 1 .. i - 1 : bars[j].at < bars[i].at

-----------------------------------------------------------------------------
(* Minute histories: [code, period, fetched, bars], a period in bars of     *)
(* five minutes, fetched the last moment that had passed.                   *)

MinutesValid(h) ==
    /\ h.bars # <<>> /\ WellShaped(h.bars)
    /\ \A i \in DOMAIN h.bars :
        /\ h.bars[i].at % h.period = 0
        /\ h.bars[i].at <= h.fetched + 1
        /\ h.bars[i].final => h.bars[i].at <= h.fetched

\* AggregateMinutes, of which ValidateMinutePair takes the final bars: a group
\* with all its bars, each of them final.
WholeGroups(bars) ==
    {e \in {bars[i].at : i \in DOMAIN bars} :
        /\ e % Group = 0
        /\ \A s \in e - Group + 1 .. e : \E i \in DOMAIN bars : bars[i].at = s /\ bars[i].final}

GroupBar(bars, e) ==
    LET of == {i \in DOMAIN bars : bars[i].at \in e - Group + 1 .. e} IN
    [at |-> e, final |-> TRUE,
     high |-> CHOOSE h \in {bars[i].high : i \in of} : \A i \in of : bars[i].high <= h,
     low |-> CHOOSE l \in {bars[i].low : i \in of} : \A i \in of : bars[i].low >= l,
     close |-> bars[CHOOSE i \in of : bars[i].at = e].close]

GroupedBars(bars) ==
    LET ends == SetToSortSeq(WholeGroups(bars), <)
    IN  [k \in DOMAIN ends |-> GroupBar(bars, ends[k])]

\* ValidateMinutePair
PairValid(base, derived) ==
    /\ base.fetched = derived.fetched
    /\ MinutesValid(base) /\ MinutesValid(derived)
    /\ derived.bars = GroupedBars(base.bars)

\* filterFinalMinuteBars
FinalUpTo(bars, day) == SelectSeq(bars, LAMBDA b : b.final /\ SessionOf(b.at) <= day)

\* reportMinutes: what is stored of a stock, without what was not known at the
\* end of the day. A series with nothing left fails the report.
CutOff(h, day) == [h EXCEPT !.bars = FinalUpTo(@, day)]
CutOffFails(some, day) ==
    \E i \in DOMAIN some : some[i].bars # <<>> /\ CutOff(some[i], day).bars = <<>>
ReportMinutes(some, day) ==
    SelectSeq([i \in DOMAIN some |-> CutOff(some[i], day)], LAMBDA h : h.bars # <<>>)

\* The contract of Execute: final bars up to the day, each period of a stock
\* once, and all of a stock from one snapshot.
AdmitsMinutes(minutes, day) ==
    /\ \A i \in DOMAIN minutes : MinutesValid(minutes[i]) /\ CutOff(minutes[i], day) = minutes[i]
    /\ \A i, j \in DOMAIN minutes :
        i # j /\ minutes[i].code = minutes[j].code =>
            /\ minutes[i].period # minutes[j].period
            /\ minutes[i].fetched = minutes[j].fetched
            /\ minutes[i].period = 1 /\ minutes[j].period = Group => PairValid(minutes[i], minutes[j])

-----------------------------------------------------------------------------
(* The levels: a status and the reason for it.                              *)

Level(status, reason) == [status |-> status, reason |-> reason]

\* lastBottomFractal, the last of them.
Bottoms(structure) == SelectSeq(structure.fractals, LAMBDA f : f.mark = "bottom")

\* Twice the middle of a zone.
Middles(zone) == zone.upper + zone.lower

MiddleFalls(zones) == Len(zones) >= 2 /\ Middles(Last(zones)) < Middles(zones[Len(zones) - 1])

\* Without a zone: the last stroke goes up, and the close is back above a bottom.
Reclaimed(structure, close) ==
    /\ Last(structure.finished).first.mark = "bottom"
    /\ Bottoms(structure) # <<>> /\ close >= Last(Bottoms(structure)).high

\* The part of analyzeDailyGuard that reads the structure.
DailyStructure(structure, close) ==
    LET zones == structure.zones IN
    IF structure.finished = <<>> THEN Level("unknown", "daily_no_structure")
    ELSE IF zones = <<>>
    THEN IF Reclaimed(structure, close) THEN Level("pass", "daily_stroke_ok")
         ELSE Level("unknown", "daily_no_zone")
    ELSE IF close < Last(zones).lower THEN Level("fail", "daily_zone_broken")
    ELSE IF MiddleFalls(zones) /\ 2 * close < Middles(Last(zones)) THEN Level("fail", "daily_midpoint_down")
    ELSE Level("pass", "daily_zone_ok")

DailyLevel(daily, day) ==
    IF daily = <<>> \/ Last(daily).at # day THEN Level("unknown", "daily_not_asof")
    ELSE IF ~WellShaped(daily) THEN Level("unknown", "structure_invalid")
    ELSE IF Len(daily) < DailyEnough THEN Level("unknown", "daily_insufficient")
    ELSE DailyStructure(Structure(daily), Last(daily).close)

\* The bars of the day itself, which must be there up to the close.
DayBars(bars, day) == {i \in DOMAIN bars : SessionOf(bars[i].at) = day}
DayIsWhole(bars, day, perDay) ==
    Cardinality(DayBars(bars, day)) = perDay /\ Last(bars).at = day * SlotsPerDay

Structured(structure) ==
    structure.fractals # <<>> \/ structure.finished # <<>> \/ structure.zones # <<>>

\* analyzeMinuteGuard, of the histories with the code and the period.
MinuteLevel(found, day, perDay, enough) ==
    LET bars == FinalUpTo(Head(found).bars, day) IN
    IF found = <<>> THEN Level("unknown", "minute_missing")
    ELSE IF ~MinutesValid(Head(found)) THEN Level("unknown", "minute_invalid")
    ELSE IF bars = <<>> \/ SessionOf(Last(bars).at) # day THEN Level("unknown", "minute_not_asof")
    ELSE IF ~DayIsWhole(bars, day, perDay) THEN Level("unknown", "minute_incomplete_day")
    ELSE IF Len(bars) < enough THEN Level("unknown", "minute_insufficient")
    ELSE IF ~Structured(Structure(bars)) THEN Level("unknown", "minute_no_structure")
    ELSE Level("pass", "minute_structure_ok")

-----------------------------------------------------------------------------
(* evaluateStructureGuard.                                                  *)

Evidence(guard, data, signal, reason) ==
    [guard |-> guard, data |-> data, signal |-> signal, reason |-> reason]
Vetoed(reason) == Evidence("fail", "ok", "blocked", reason)
Unclear(data, reason) == Evidence("unknown", data, "unknown", reason)
Cleared == Evidence("pass", "ok", "not_evaluated", "daily_structure_ok")

DailyStops(level) ==
    IF level.status = "fail" THEN Vetoed(level.reason)
    ELSE Unclear(IF level.reason \in {"daily_not_asof", "structure_invalid"}
                 THEN "invalid" ELSE "insufficient", level.reason)

\* guardLevelDataStatus
MinutesStop(level) ==
    Unclear(IF level.reason = "minute_invalid" THEN "invalid" ELSE "insufficient", level.reason)

\* signalPriceFactor: the adjusted close over the raw one of the day.
Scaled(daily, raw, day) ==
    /\ raw # <<>> /\ Last(raw).at = day /\ Last(raw).close > 0
    /\ 100 * Last(daily).close >= Last(raw).close /\ Last(daily).close <= 100 * Last(raw).close

\* Minutes are raw and a daily zone is adjusted.
BelowZone(close, zone, adjusted, unadjusted) == close * adjusted < zone.lower * unadjusted

\* The vetoes of the lower levels, where every level has a structure.
LowerLevels(daily, raw, thirty, five) ==
    LET zones == Structure(daily).zones
        bottoms == Bottoms(Structure(thirty))
    IN  IF zones # <<>> /\ BelowZone(Last(thirty).close, Last(zones), Last(daily).close, Last(raw).close)
        THEN Vetoed("veto_30m_below_daily_zone")
        ELSE IF bottoms = <<>> THEN Unclear("insufficient", "minute_30_no_bottom_fractal")
        ELSE IF Last(five).close < Last(bottoms).low THEN Vetoed("veto_5m_below_30m_fractal")
        ELSE Cleared

Found(minutes, code, period) == SelectSeq(minutes, LAMBDA h : h.code = code /\ h.period = period)

Repeated(minutes, code) ==
    \E i, j \in DOMAIN minutes :
        /\ i # j /\ minutes[i].code = code /\ minutes[j].code = code
        /\ minutes[i].period = minutes[j].period

OneSnapshot(minutes, code) ==
    LET base == Found(minutes, code, 1)
        context == Found(minutes, code, Group)
    IN  /\ ~Repeated(minutes, code)
        /\ base # <<>> /\ context # <<>> => PairValid(Head(base), Head(context))

EvaluateStructureGuard(code, day, daily, raw, minutes) ==
    LET base == Found(minutes, code, 1)
        context == Found(minutes, code, Group)
        dailyLevel == DailyLevel(daily, day)
        contextLevel == MinuteLevel(context, day, SlotsPerDay \div Group, ThirtyEnough)
        fiveLevel == MinuteLevel(base, day, SlotsPerDay, FiveEnough)
    IN  IF dailyLevel.status # "pass" THEN DailyStops(dailyLevel)
        ELSE IF ~Scaled(daily, raw, day) THEN Unclear("invalid", "price_scale_unknown")
        ELSE IF ~OneSnapshot(minutes, code) THEN Unclear("invalid", "minute_snapshot_invalid")
        ELSE IF contextLevel.status # "pass" THEN MinutesStop(contextLevel)
        ELSE IF fiveLevel.status # "pass" THEN MinutesStop(fiveLevel)
        ELSE LowerLevels(daily, raw, FinalUpTo(Head(context).bars, day), FinalUpTo(Head(base).bars, day))

-----------------------------------------------------------------------------
(* applyStructureGuard, and what the report offers. A candidate is          *)
(* [code, daily, hard]: whether the rules recommend it, and what forbids it *)
(* all the same; a code is a number.                                        *)

Recommends(c) == c.daily /\ c.hard = {}

\* A stock without one of its daily histories is not evaluated.
GuardOf(code, day, daily, raw, minutes) ==
    IF daily = <<>> \/ raw = <<>> THEN Evidence("unknown", "invalid", "not_evaluated", "daily_missing")
    ELSE EvaluateStructureGuard(code, day, daily, raw, minutes)

\* Of the stocks that pass, the better score beside each other, then the code.
Better(score, a, b) == score[a] > score[b] \/ (score[a] = score[b] /\ a < b)

Entry(c, guard, recommended) == [code |-> c.code, guard |-> guard, recommended |-> recommended]

\* Shadow mode keeps the ranking and recommends nothing; enforce mode puts the
\* stocks that pass in front, in their own order.
Guarded(mode, ranking, guard, score) ==
    LET passing == {i \in DOMAIN ranking : guard[ranking[i].code] = "pass"}
        order == SetToSortSeq(passing, LAMBDA i, j : Better(score, ranking[i].code, ranking[j].code))
        others == SetToSortSeq(DOMAIN ranking \ passing, <)
        EntryAt(i, recommended) == Entry(ranking[i], guard[ranking[i].code], recommended)
    IN  IF mode # "enforce" THEN [i \in DOMAIN ranking |-> EntryAt(i, FALSE)]
        ELSE [k \in DOMAIN order |-> EntryAt(order[k], Recommends(ranking[order[k]]))]
             \o [k \in DOMAIN others |-> EntryAt(others[k], FALSE)]

\* buildWithExecution, for a ranking with stocks: without a single minute history no guard is asked.
Execution(mode, minutes) == IF minutes = <<>> THEN "legacy_daily" ELSE mode

Ranking(mode, minutes, ranking, guard, score) ==
    IF minutes = <<>> THEN [i \in DOMAIN ranking |-> Entry(ranking[i], "none", Recommends(ranking[i]))]
    ELSE Guarded(mode, ranking, guard, score)

\* recommendationFilterReason
WhyNot(execution, entry) ==
    CASE execution = "shadow" -> "shadow_structure_not_validated"
      [] execution = "enforce" /\ entry.guard = "fail" -> "structure_guard_fail"
      [] execution = "enforce" /\ entry.guard = "unknown" -> "structure_guard_unknown"
      [] OTHER -> "strategy_evidence_or_risk_gate"

Offered(execution, ranked, selecting, topN) ==
    LET passed == IF execution = "shadow" THEN <<>> ELSE SelectSeq(ranked, LAMBDA e : e.recommended)
    IN  [execution |-> execution, ranking |-> ranked, passed |-> Len(passed),
         selected |-> IF selecting THEN SubSeq(passed, 1, Smaller(topN, Len(passed))) ELSE <<>>,
         filtered |-> {<<ranked[i].code, WhyNot(execution, ranked[i])>> :
                          i \in {j \in DOMAIN ranked : ~ranked[j].recommended}}]
=============================================================================
