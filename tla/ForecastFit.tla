----------------------------- MODULE ForecastFit -----------------------------
(***************************************************************************)
(* What a day-range model learns from, and what it is given when it is      *)
(* used (internal/dayrange/snapshot.go).  Before a session opens, a         *)
(* snapshot of each stock is frozen and a forecast made from it             *)
(* (BuildPredictionSnapshots); weeks later the same session becomes a       *)
(* training sample, built anew from the archive as it is then               *)
(* (BuildDataset).  By then the archive also holds the session itself, the  *)
(* adjusted prices have been rewritten by corporate actions, and what is    *)
(* loaded begins later.                                                     *)
(*                                                                          *)
(* Prices are levels of the logarithm, so that a return is a difference.    *)
(* A feature is represented by what it is computed from; the baseline is    *)
(* computed.  Sessions are numbered; before the first that is explored      *)
(* there are sessions without bars.  Stored raw bars are not rewritten, and *)
(* the pool is fixed.                                                       *)
(***************************************************************************)
EXTENDS RangeModel

CONSTANTS
    Ticker,             \* the pool
    SectorOf,           \* its sectors
    Kind,               \* Kind[c]: the sessions that c may have
    OpeningLevel,       \* the close before the first session
    StockWindow,        \* the 61 bars of the stock's features
    BaselineWindow, MinBaseline,
    MarketWindow, RecentWindow, SectorWindow,
    HistoryDays, Warmup,    \* what BuildDataset goes over, and what is loaded before it
    ActionTolerance,    \* corporateAction's 0.03
    LastTarget, MaxOdd  \* bounds of the exploration

\* What is loaded before the window suffices for every feature.
ASSUME FitAssumption ==
    /\ Ticker # {}
    /\ StockWindow \in Nat \ {0, 1} /\ MinBaseline \in Nat \ {0, 1}
    /\ {BaselineWindow, MarketWindow, RecentWindow, SectorWindow, Warmup} \subseteq Nat
    /\ BaselineWindow >= MinBaseline /\ RecentWindow <= MarketWindow
    /\ Warmup >= StockWindow /\ Warmup >= BaselineWindow /\ Warmup > SectorWindow
    /\ HistoryDays \in Nat /\ ActionTolerance \in Nat

\* No bar, no value, no snapshot.
Nil == <<>>

VARIABLES
    sessions,   \* daily_bar and session_status: ticker -> the sessions so far
    factor,     \* ticker -> session -> adjusted level less raw level
    frozen      \* ticker -> the snapshots of the mornings

fitVars == <<sessions, factor, frozen>>

Today == Len(sessions[CHOOSE c \in Ticker : TRUE])

-----------------------------------------------------------------------------
\* The bars of c that are loaded.

validBar(bar) ==
    /\ bar.high >= bar.open /\ bar.high >= bar.close
    /\ bar.low <= bar.open /\ bar.low <= bar.close

HasBar(c, day) == day \in 1 .. Today /\ sessions[c][day].bar # Nil
StoredBar(c, day) == sessions[c][day].bar

\* A mutant: the bars of the reference session and of the one after.
BarsThroughTarget(c, from, through) ==
    FlattenSeq([day \in 1 .. Today |->
                   IF from <= day /\ day <= through + 1 /\ HasBar(c, day) THEN <<StoredBar(c, day)>> ELSE <<>>])

\* barsThrough, of the rows from a first day.
BarsThrough(c, from, through) ==
    FlattenSeq([day \in 1 .. through |-> IF from <= day /\ HasBar(c, day) THEN <<StoredBar(c, day)>> ELSE <<>>])

LastOf(seq, n) == SubSeq(seq, Len(seq) - n + 1, Len(seq))

\* dailyReturns: from the bar before, however long ago, if that is loaded.
BarsBefore(c, from, day) == {e \in from .. day - 1 : HasBar(c, e)}
DailyReturn(c, from, day) ==
    LET before == BarsBefore(c, from, day)
    IN StoredBar(c, day).close - StoredBar(c, CHOOSE e \in before : \A o \in before : o <= e).close

\* The returns of one session.
ReturnsOn(pool, from, day) ==
    {[code |-> c, value |-> DailyReturn(c, from, day)] :
         c \in {x \in pool : HasBar(x, day) /\ BarsBefore(x, from, day) # {}}}

-----------------------------------------------------------------------------
\* The parts of a snapshot for which a model or its card is told what was read.

\* The price of a level is the reference's and the quantile's; the point is held
\* to the reference, and the low's point to the high's.
Recent(bars) == IF Len(bars) > BaselineWindow THEN LastOf(bars, BaselineWindow) ELSE bars
baselineForecast(recent) ==
    LET pairs == SelectSeq([i \in 1 .. Len(recent) - 1 |-> <<recent[i], recent[i + 1]>>],
                           LAMBDA p : validBar(p[1]) /\ validBar(p[2]))
        ref == recent[Len(recent)].close
        highs == [i \in 1 .. Len(pairs) |-> pairs[i][2].high - pairs[i][1].close]
        lows == [i \in 1 .. Len(pairs) |-> pairs[i][2].low - pairs[i][1].close]
        highPoint == IF quantile(highs, 50) > 0 THEN ref + quantile(highs, 50) ELSE ref
        lowMedian == ref + quantile(lows, 50)
        lowPoint == IF lowMedian < highPoint THEN lowMedian ELSE highPoint
    IN IF Len(recent) < MinBaseline \/ Len(pairs) < MinBaseline - 1 THEN Nil
       ELSE [high |-> <<ref + quantile(highs, 10), highPoint, ref + quantile(highs, 90)>>,
             low |-> <<ref + quantile(lows, 10), lowPoint, ref + quantile(lows, 90)>>]

\* stockFeatureValues: the last bars, the last two of them valid.
StockFeatures(bars) ==
    IF Len(bars) < StockWindow \/ ~validBar(bars[Len(bars)]) \/ ~validBar(bars[Len(bars) - 1])
    THEN Nil ELSE LastOf(bars, StockWindow)

\* buildMarketStats: the returns of the reference session, and those of the window
\* before it, every session of which must have some.
MarketFeatures(from, first, ref) ==
    LET before == [i \in 1 .. MarketWindow |-> ReturnsOn(Ticker, from, ref - MarketWindow + i - 1)]
    IN IF ref - first < MarketWindow \/ \E i \in 1 .. MarketWindow : before[i] = {} THEN Nil
       ELSE [latest |-> ReturnsOn(Ticker, from, ref), before |-> before,
             recent |-> LastOf(before, RecentWindow)]

\* sectorFeatureValues: the last sessions that the sector has returns of.
SectorReturns(pool, from, through) ==
    FlattenSeq([day \in 1 .. through |-> IF ReturnsOn(pool, from, day) = {} THEN <<>>
                                         ELSE <<ReturnsOn(pool, from, day)>>])

SectorFeatures(c, from, ref) ==
    LET returns == SectorReturns({x \in Ticker : SectorOf[x] = SectorOf[c]}, from, ref)
    IN IF Len(returns) < SectorWindow THEN Nil ELSE LastOf(returns, SectorWindow)

\* buildFeatures: the stock's features, the market's, and the sector's with the
\* stock's return beside them.
Features(c, from, first, ref) ==
    LET stock == StockFeatures(BarsThrough(c, from, ref)) IN
    [stock |-> stock, market |-> MarketFeatures(from, first, ref),
     sector |-> IF stock = Nil THEN Nil ELSE SectorFeatures(c, from, ref)]

Ready(snapshot) ==
    /\ snapshot.baseline # Nil
    /\ \E part \in {"stock", "market", "sector"} : snapshot.features[part] # Nil

\* makeSnapshot: of c for the target, with the session before it as reference, what
\* is loaded beginning at from and the sessions gone over at first.
\* A snapshot, or the reason why there is none.
NoReason == ""
Why(reason) == [reason |-> reason]
makeSnapshot(c, target, from, first) ==
    LET ref == target - 1
        snapshot == [reason |-> NoReason, target |-> target, inputThrough |-> ref,
                     reference |-> StoredBar(c, ref).close,
                     baseline |-> baselineForecast(Recent(BarsThrough(c, from, ref))),
                     features |-> Features(c, from, first, ref)]
    IN IF ~HasBar(c, ref) \/ ref < from THEN Why("missing_reference")
       ELSE IF ~sessions[c][ref].adjusted \/ ~validBar(StoredBar(c, ref))
       THEN Why("adjusted_history_missing")
       ELSE IF Ready(snapshot) THEN snapshot ELSE Why("snapshot_not_ready")

-----------------------------------------------------------------------------
\* The dataset of a training: the sessions gone over, each with the one before.

FirstLoaded(through) == through - HistoryDays - Warmup
ActiveFrom(asof) == asof - HistoryDays

\* corporateAction: the open's gap differs between the raw and the adjusted bars.
corporateAction(c, ref, target) ==
    LET gap == factor[c][target] - factor[c][ref]
    IN gap > ActionTolerance \/ 0 - gap > ActionTolerance

\* buildSample, by the data as of a later session.
buildSample(c, target, asof) ==
    LET session == sessions[c][target]
        ref == target - 1
        snapshot == makeSnapshot(c, target, FirstLoaded(asof), ActiveFrom(asof))
        inconsistent == session.source # sessions[c][ref].source
    IN IF session.state = "suspended"
       THEN Why(IF HasBar(c, target) THEN "source_inconsistent" ELSE "target_suspended")
       ELSE IF session.state # "traded" \/ ~HasBar(c, target) THEN Why("target_status_unknown")
       ELSE IF snapshot.reason # NoReason THEN snapshot
       ELSE IF ~validBar(session.bar) \/ ~validBar(StoredBar(c, ref)) THEN Why("invalid_prices")
       ELSE IF inconsistent THEN Why("source_inconsistent")
       ELSE IF ~session.adjusted THEN Why("adjusted_history_missing")
       ELSE IF corporateAction(c, ref, target) THEN Why("corporate_action")
       ELSE [reason |-> NoReason, snapshot |-> snapshot,
             high |-> session.bar.high, low |-> session.bar.low]

\* BuildDataset: a sample of each stock and session, and those one can learn from.
BuildDataset(asof) ==
    {[code |-> c, sample |-> buildSample(c, target, asof)] :
         c \in Ticker, target \in {t \in 1 .. asof : t > ActiveFrom(asof)}}
Trainable(asof) == {s \in BuildDataset(asof) : s.sample.reason = NoReason}

-----------------------------------------------------------------------------
\* The archive grows by a session; the next morning its forecasts are frozen.

FitInit ==
    /\ sessions = [c \in Ticker |-> <<>>]
    /\ factor = [c \in Ticker |-> <<>>]
    /\ frozen = [c \in Ticker |-> <<>>]

Closes(c) == SelectSeq(sessions[c], LAMBDA s : s.bar # Nil)
LastClose(c) == IF Closes(c) = <<>> THEN OpeningLevel ELSE Closes(c)[Len(Closes(c))].bar.close

\* The session of a kind: its bar is counted from the last close, less what went off
\* at the open.
SessionOf(c, kind) ==
    LET level == LastClose(c) - kind.cut IN
    [state |-> kind.state, source |-> kind.source, adjusted |-> kind.adjusted, odd |-> kind.odd,
     bar |-> IF kind.bar = Nil THEN Nil
             ELSE [open |-> level + kind.bar.open, high |-> level + kind.bar.high,
                   low |-> level + kind.bar.low, close |-> level + kind.bar.close]]

Odd == Cardinality({p \in Ticker \X (1 .. Today) : sessions[p[1]][p[2]].odd})

\* The evening's synchronization: the session's bars and statuses, and the adjusted
\* bars, which a corporate action shifts back to the beginning.
SyncSession(kinds) ==
    /\ \A c \in Ticker : Len(frozen[c]) = Today + 1
    /\ Today < LastTarget
    /\ sessions' = [c \in Ticker |-> Append(sessions[c], SessionOf(c, kinds[c]))]
    /\ factor' = [c \in Ticker |-> Append([d \in DOMAIN factor[c] |-> factor[c][d] - kinds[c].cut], 0)]
    /\ Odd + Cardinality({c \in Ticker : kinds[c].odd}) <= MaxOdd
    /\ UNCHANGED frozen

\* BuildPredictionSnapshots: of the session to come, with what is stored.
BuildPredictionSnapshots ==
    /\ \A c \in Ticker : Len(frozen[c]) = Today
    /\ frozen' = [c \in Ticker |->
                     Append(frozen[c], makeSnapshot(c, Today + 1, FirstLoaded(Today), FirstLoaded(Today)))]
    /\ UNCHANGED <<sessions, factor>>

FitNext ==
    \/ BuildPredictionSnapshots
    \/ \E kinds \in {k \in [Ticker -> UNION {Kind[c] : c \in Ticker}] : \A c \in Ticker : k[c] \in Kind[c]} :
          SyncSession(kinds)

FitSpec == FitInit /\ [][FitNext]_fitVars

-----------------------------------------------------------------------------
\* Of each stock, what is loaded goes back to its first bar, or holds enough of its
\* bars from before the window.
Uncut(asof) ==
    \A c \in Ticker :
        \/ \A d \in 1 .. FirstLoaded(asof) - 1 : ~HasBar(c, d)
        \/ \A n \in {StockWindow, BaselineWindow, SectorWindow + 1} :
              Len(BarsThrough(c, FirstLoaded(asof), ActiveFrom(asof))) >= n

\* A sample that is learned from has the inputs that the forecast of its session was
\* made from that morning: nothing of the session itself, or of what was stored
\* since, is among them, and a stock whose morning had no forecast is no sample.
\* Of the market there may be nothing at the beginning of the window.
TrainedAsServed ==
    Today > 0 /\ Uncut(Today) =>
        \A s \in Trainable(Today) :
            LET learned == s.sample.snapshot
                served == frozen[s.code][learned.target]
            IN /\ served.reason = NoReason
               /\ learned.features.market \in {Nil, served.features.market}
               /\ learned = [served EXCEPT !.features.market = learned.features.market]
=============================================================================
