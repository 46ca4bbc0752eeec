----------------------------- MODULE WalkForward -----------------------------
(***************************************************************************)
(* How the strategy judges itself: analyze of internal/strategy/research.go *)
(* with timeline.go, gates.go and experiment.go.  Each bar of a stock that  *)
(* has a past of Warmup bars and a future is a sample; its labels are the   *)
(* simulated trades of some bars after it.  At a date the rules are judged  *)
(* by the labels that ended before it, the stocks of that date are ranked   *)
(* by the rules that did well, and the first of them are evaluated by what  *)
(* came afterwards.                                                         *)
(*                                                                         *)
(* A pool is a function from its stocks to their bars; a bar has a date, an *)
(* adjusted and a raw close, and a volume.  Dates are numbers, 0 is none.   *)
(* What is computed of prices is a parameter: it is given exactly the bars  *)
(* that the code hands over.                                                *)
(***************************************************************************)
EXTENDS Integers, Sequences, FiniteSets, FiniteSetsExt

CONSTANTS
    Trading,        \* the days of the calendar
    Warmup,         \* bars that features need (60)
    Rule, Target, HoldingDays,  \* ruleNames, {2.5, 3}, horizons(s)
    Aim,            \* the label [target, days] of the configuration
    TopN, MinTraining, Reserved, MinTrades, MinEvidence, MinRankScore, LossLimit

CONSTANTS
    Extract(_),     \* the features of a signal, of the bars through its day
    Matches(_, _),  \* the rules they match, beside the features of the other stocks
    Opportunity(_, _),
    Simulate(_, _), \* a label of the signal's bar and those after it, or Outside
    LowerBound(_, _, _),    \* wilsonLower, in percent
    Affordable(_),  \* NewPlan at the signal's close
    Confident(_, _) \* the resampled lower bounds of a cohort, alone and over the baseline

ASSUME WalkAssumption ==
    /\ Warmup \in Nat \ {0}
    /\ Trading \subseteq Nat
    /\ HoldingDays \subseteq Nat \ {0}
    /\ Aim \in [target : Target, days : HoldingDays]

Outside == [status |-> "outside_calendar", entered |-> FALSE, net |-> 0]
Label == [target : Target, days : HoldingDays]

-----------------------------------------------------------------------------
(* datasets, and the stocks that analyze leaves out. *)

\* A stock is [special, adjusted, raw]; a history [asof, adjust, bars], absent if it has
\* no bars, which Validate refuses.
Paired(stock, asof) ==
    /\ stock.adjusted.bars # <<>> /\ stock.raw.bars # <<>>
    /\ stock.adjusted.asof = asof /\ stock.raw.asof = asof
    /\ stock.adjusted.adjust = "qfq" /\ stock.raw.adjust = "none"
    /\ Len(stock.adjusted.bars) = Len(stock.raw.bars)
    /\ \A i \in 1 .. Len(stock.raw.bars) : stock.adjusted.bars[i].date = stock.raw.bars[i].date

Exclusion(stock, asof) ==
    LET last == stock.raw.bars[Len(stock.raw.bars)] IN
    IF ~Paired(stock, asof) THEN "missing_or_mismatched_data"
    ELSE IF stock.special THEN "special_treatment"
    ELSE IF last.date # asof THEN "stale_or_suspended"
    ELSE IF Len(stock.raw.bars) < Warmup THEN "insufficient_history"
    ELSE IF last.volume = 0 THEN "no_trading_volume" ELSE "none"

PoolOf(stocks, asof) ==
    [c \in {s \in DOMAIN stocks : Exclusion(stocks[s], asof) = "none"} |->
        [i \in 1 .. Len(stocks[c].raw.bars) |->
            [date |-> stocks[c].raw.bars[i].date, volume |-> stocks[c].raw.bars[i].volume,
             adjusted |-> stocks[c].adjusted.bars[i].close, close |-> stocks[c].raw.bars[i].close]]]

\* inspectCalendarCoverage: each bar is of a day of the calendar.
CalendarComplete(stocks, asof) ==
    \A c \in DOMAIN stocks : Paired(stocks[c], asof) =>
        \A i \in 1 .. Len(stocks[c].raw.bars) : stocks[c].raw.bars[i].date \in Trading

-----------------------------------------------------------------------------
(* Samples: <<stock, place of the bar>>. *)

PoolBar == [date : Nat, volume : Nat, adjusted : Nat, close : Nat]
IsPool(P) ==
    \A c \in DOMAIN P :
        /\ P[c] \in Seq(PoolBar)
        /\ \A i, j \in DOMAIN P[c] : i < j => P[c][i].date < P[c][j].date

BarOfSample(P, s) == P[s[1]][s[2]]
DateOf(P, s) == BarOfSample(P, s).date
FeaturesOf(P, s) == Extract(SubSeq(P[s[1]], 1, s[2]))

\* The cross-section of a date: all stocks with features on it, its last ones too.
Placed(P, d) == {s \in UNION {{c} \X (Warmup .. Len(P[c])) : c \in DOMAIN P} : DateOf(P, s) = d}
CrossSection(P, d) == {[code |-> s[1], features |-> FeaturesOf(P, s)] : s \in Placed(P, d)}

RulesOf(P, s) == Matches(FeaturesOf(P, s), CrossSection(P, DateOf(P, s)))

\* A corporate action between two places: the adjustment is another one.
Rescaled(P, s, i) ==
    P[s[1]][i].adjusted * BarOfSample(P, s).close # BarOfSample(P, s).adjusted * P[s[1]][i].close

Simulated(P, s, k) == Simulate(k, SubSeq(P[s[1]], s[2], s[2] + k.days + 1))
HasLabel(P, s, k) == s[2] + k.days + 1 <= Len(P[s[1]]) /\ Simulated(P, s, k) # Outside
LabelEnd(P, s, k) == P[s[1]][s[2] + k.days + 1].date

\* An outcome is [status, entered, net].
LabelOutcome(P, s, k) ==
    IF Simulated(P, s, k).entered /\ \E i \in s[2] + 1 .. s[2] + k.days + 1 : Rescaled(P, s, i)
    THEN [Simulated(P, s, k) EXCEPT !.status = "corporate_action"] ELSE Simulated(P, s, k)

Samples(P) ==
    {s \in UNION {{c} \X (Warmup .. Len(P[c]) - 1) : c \in DOMAIN P} :
        DateOf(P, s) \in Trading /\ \E k \in Label : HasLabel(P, s, k)}

\* sample.NextDay: the close of the next session, when it is there on the same scale.
NextSession(d) == {t \in Trading : t > d /\ \A u \in Trading : u > d => t <= u}
HasNext(P, s) ==
    /\ s[2] < Len(P[s[1]]) /\ P[s[1]][s[2] + 1].date \in NextSession(DateOf(P, s))
    /\ ~Rescaled(P, s, s[2] + 1)
Higher(P, s) == P[s[1]][s[2] + 1].close > BarOfSample(P, s).close

-----------------------------------------------------------------------------
(* What the labels of a rule add up to. *)

ResolvedStatus == {"target", "stop", "stop_gap", "timeout"}

\* add and finalize, over [code, date, outcome].
Tally(told) ==
    LET entered == {t \in told : t.outcome.entered}
        resolved == {t \in entered : t.outcome.status \in ResolvedStatus}
        targets == Cardinality({t \in resolved : t.outcome.status = "target"})
        dates == Cardinality({t.date : t \in entered})
    IN [samples |-> Cardinality(entered), dates |-> dates, resolved |-> Cardinality(resolved),
        skipped |-> Cardinality(told) - Cardinality(entered), targets |-> targets,
        net |-> MapThenSumSet(LAMBDA t : t.outcome.net, resolved),
        breaches |-> Cardinality({t \in resolved : t.outcome.net <= 0 - LossLimit}),
        bound |-> LowerBound(targets, Cardinality(entered), dates)]

LabelTold(P, s, k) == [code |-> s[1], date |-> DateOf(P, s), outcome |-> LabelOutcome(P, s, k)]

\* statsFor: the labels of a rule that ended before the cutoff.
Labelled(P, rule, k) == {s \in Samples(P) : rule \in RulesOf(P, s) /\ HasLabel(P, s, k)}
Matured(P, rule, k, cutoff) == {s \in Labelled(P, rule, k) : LabelEnd(P, s, k) < cutoff}
StatsFor(P, cutoff) ==
    [r \in Rule \X Label |-> Tally({LabelTold(P, s, r[2]) : s \in Matured(P, r[1], r[2], cutoff)})]

\* ContinuationStats, of the days that rose and whose next session is before the cutoff.
Continuation(P, rule, cutoff) ==
    LET seen == {s \in Samples(P) : /\ HasNext(P, s) /\ P[s[1]][s[2] + 1].date < cutoff
                                    /\ FeaturesOf(P, s).rose /\ rule \in RulesOf(P, s)}
        dates == Cardinality({DateOf(P, s) : s \in seen})
    IN [samples |-> Cardinality(seen), dates |-> dates,
        hits |-> Cardinality({s \in seen : Higher(P, s)}),
        ready |-> Cardinality(seen) >= MinTrades /\ dates >= MinTrades]

\* statsTimeline: the dates in order, and a position in the labels of each rule that moves
\* on over those that ended; lists holds them in the order of their ends.
Advances(P, list, k, from, to, cutoff) ==
    /\ to \in from .. Len(list)
    /\ \A i \in from + 1 .. to : LabelEnd(P, list[i], k) < cutoff
    /\ to < Len(list) => LabelEnd(P, list[to + 1], k) >= cutoff

IsTimeline(P, lists, dates, pos) ==
    /\ pos \in [0 .. Len(dates) -> [Rule \X Label -> Nat]]
    /\ \A r \in Rule \X Label :
          /\ pos[0][r] = 0
          /\ \A n \in 1 .. Len(dates) :
                Advances(P, lists[r], r[2], pos[n - 1][r], pos[n][r], dates[n])

StatsTimeline(P, lists, pos, n) ==
    [r \in Rule \X Label |->
        Tally({LabelTold(P, lists[r][i], r[2]) : i \in 1 .. pos[n][r]})]

-----------------------------------------------------------------------------
(* Ranking. *)

HitsMore(x, y) ==
    x.samples > 0 /\ (IF y.samples = 0 THEN x.targets > 0 ELSE x.targets * y.samples > y.targets * x.samples)

\* EvidenceFailures, when there is none.
Proven(x, baseline) ==
    /\ x.breaches = 0 /\ x.samples >= MinTrades /\ x.samples >= MinEvidence
    /\ x.dates >= MinTrades /\ x.dates >= MinTraining
    /\ x.resolved = x.samples /\ x.net > 0 /\ HitsMore(x, baseline)

\* rank: the rule with the best bound among those that are proven.  Scores are doubled.
RankOne(code, features, cross, stats) ==
    LET good == {rule \in Matches(features, cross) \ {"baseline"} :
                    Proven(stats[<<rule, Aim>>], stats[<<"baseline", Aim>>])}
        bound == Max({0} \cup {stats[<<rule, Aim>>].bound : rule \in good})
        score == Opportunity(features, cross) + bound
    IN [code |-> code, score |-> score, evidence |-> good # {},
        recommended |-> good # {} /\ score >= 2 * MinRankScore /\ features.calm]

Candidate(P, s, stats) == RankOne(s[1], FeaturesOf(P, s), CrossSection(P, DateOf(P, s)), stats)

\* sortRank.
RanksBefore(x, y) == x.score > y.score \/ (x.score = y.score /\ x.code < y.code)

-----------------------------------------------------------------------------
(* Evaluation. *)

\* evaluationDates, each bound 0 if there is none.  A date with a label that reaches
\* the boundary is out, for all stocks.
EvaluationDates(P, boundary, from, through) ==
    LET inside == {s \in Samples(P) : /\ HasLabel(P, s, Aim) /\ DateOf(P, s) >= from
                                      /\ through = 0 \/ DateOf(P, s) <= through}
        crosses == {s \in inside : boundary # 0 /\ LabelEnd(P, s, Aim) >= boundary}
    IN {DateOf(P, s) : s \in inside} \ {DateOf(P, s) : s \in crosses}

AimOutcome(P, s) ==
    IF HasLabel(P, s, Aim) THEN LabelOutcome(P, s, Aim)
    ELSE [status |-> "missing_exit_session", entered |-> FALSE, net |-> 0]

\* The candidates of a date, beside what became of them.
Ranked(P, d, stats) ==
    {[code |-> s[1], date |-> d, kind |-> FeaturesOf(P, s).kind,
      candidate |-> Candidate(P, s, stats), outcome |-> AimOutcome(P, s)] :
        s \in {t \in Samples(P) : DateOf(P, t) = d}}

\* The first TopN of those that pass.
FirstOf(passing) ==
    {x \in passing : Cardinality({y \in passing : RanksBefore(y.candidate, x.candidate)}) < TopN}

\* A cohort's observation of a date, of the slots that were to be filled.
Unknown == {"entry_path_unknown", "missing_entry_session", "missing_exit_session", "unresolved",
            "corporate_action"}
CohortDay(d, chosen) ==
    LET known == {x \in chosen : x.outcome.status \notin Unknown /\ x.outcome.entered} IN
    [date |-> d, filled |-> Cardinality(known),
     incomplete |-> \E x \in chosen : x.outcome.status \in Unknown,
     net |-> MapThenSumSet(LAMBDA x : x.outcome.net, {x \in known : x.outcome.status \in ResolvedStatus})]

\* evaluateFiltered, over the days that have a past.  A policy is [allows, evidence,
\* ranged, dates]: the features it wants, whether it wants evidence, the signal dates.
EvaluateDays(frozen, policy, days) ==
    LET allowed(x) == x.kind \in policy.allows /\ (policy.evidence => x.candidate.recommended)
        top == [d \in DOMAIN days |-> FirstOf({x \in days[d] : allowed(x)})]
        named == [d \in DOMAIN days |-> FirstOf({x \in days[d] : allowed(x) /\ x.candidate.recommended})]
        first == [d \in DOMAIN days |-> FirstOf(days[d])]
    IN [method |-> IF frozen # 0 THEN "frozen_holdout" ELSE "purged_walk_forward", dates |-> DOMAIN days,
        pool |-> UNION {days[d] : d \in DOMAIN days},
        top |-> UNION {top[d] : d \in DOMAIN days},
        recommended |-> UNION {named[d] : d \in DOMAIN days},
        cohort |-> {CohortDay(d, named[d]) : d \in DOMAIN days},
        baseline |-> {CohortDay(d, first[d]) : d \in DOMAIN days}]

\* What the statistics of a date know: what came before it, or before the boundary if
\* they are frozen there.
Evaluate(P, dates, frozen, policy) ==
    LET statsAt == [d \in dates |-> StatsFor(P, IF frozen # 0 THEN frozen ELSE d)]
        used == {d \in dates \cap policy.dates : statsAt[d][<<"baseline", Aim>>].dates >= MinTraining}
    IN EvaluateDays(frozen, policy, [d \in used |-> Ranked(P, d, statsAt[d])])

\* HoldoutFailures, when there is none.
HoldoutProven(e) ==
    LET whole == {o \in e.cohort : ~o.incomplete}
        paired == {o \in whole : \E b \in e.baseline : b.date = o.date /\ ~b.incomplete}
        x == Tally(e.recommended)
    IN /\ e.method = "frozen_holdout" /\ whole = e.cohort
       /\ MapThenSumSet(LAMBDA o : o.filled, whole) >= MinTrades /\ Cardinality(whole) >= MinTrades
       /\ x.resolved > 0 /\ x.resolved = x.samples /\ x.breaches = 0
       /\ MapThenSumSet(LAMBDA o : o.net, whole) > 0
       /\ HitsMore(x, Tally(e.pool))
       /\ Cardinality(paired) >= MinTrades /\ Confident(whole, e.baseline)

Everything == [allows |-> {"flat", "wick"}, evidence |-> FALSE, ranged |-> FALSE, dates |-> Trading]

\* The first of the last n dates.
LastOf(dates, n) == CHOOSE d \in dates : Cardinality({e \in dates : e >= d}) = n

\* The last dates are held out, if enough remain.
Boundary(dates) ==
    IF Cardinality(dates) > MinTraining + Reserved THEN LastOf(dates, Reserved) ELSE 0

\* researchVerdict.
ResearchVerdict(complete, contaminated, proven, current, evaluated, e) ==
    IF ~complete THEN "partial_calendar"
    ELSE IF contaminated THEN "contaminated"
    ELSE IF proven THEN (IF current THEN "exploratory_current_universe" ELSE "validated")
    ELSE IF evaluated = 0 THEN "insufficient_evidence"
    ELSE IF e.method = "frozen_holdout" THEN "validation_failed" ELSE "exploratory"

NoEvaluation == [method |-> "", dates |-> {}, pool |-> {}, top |-> {}, recommended |-> {},
                 cohort |-> {}, baseline |-> {}]

\* analyze for today: nobody is recommended unless the held out dates confirm the rules.
analyze(stocks, asof) ==
    LET P == PoolOf(stocks, asof)
        stats == StatsFor(P, asof)
        all == EvaluationDates(P, 0, 0, 0)
        boundary == Boundary(all)
        development == Evaluate(P, IF boundary = 0 THEN all ELSE EvaluationDates(P, boundary, 0, 0), 0,
                                Everything)
        holdout == IF boundary = 0 THEN NoEvaluation
                   ELSE Evaluate(P, EvaluationDates(P, 0, boundary, 0), boundary, Everything)
        complete == CalendarComplete(stocks, asof)
        proven == complete /\ HoldoutProven(holdout)
        evaluated == Tally(development.top).samples + Tally(holdout.top).samples
        last(c) == <<c, Len(P[c])>>
    IN [boundary |-> boundary, development |-> development, holdout |-> holdout,
        ranking |-> {[Candidate(P, last(c), stats) EXCEPT
                        !.recommended = @ /\ Affordable(BarOfSample(P, last(c))) /\ proven] : c \in DOMAIN P},
        verdict |-> ResearchVerdict(complete, FALSE, proven, TRUE, evaluated, holdout)]

\* AnalyzeDevelopment: without a range of its own it stops before the dates that are
\* reserved, which it finds by the bars that have their whole future.
SignalDates(P, days) ==
    {d \in Trading : \E c \in DOMAIN P : \E i \in Warmup .. Len(P[c]) - days - 1 : P[c][i].date = d}
EnoughDates(P) ==
    Cardinality(SignalDates(P, Aim.days)) > MinTraining + Reserved + Aim.days + 1
HoldoutFrom(P) == LastOf(SignalDates(P, Aim.days), Reserved)
DevelopmentBoundary(P, policy) == IF policy.ranged THEN 0 ELSE HoldoutFrom(P)
Develop(P, policy) ==
    IF ~policy.ranged /\ ~EnoughDates(P) THEN NoEvaluation
    ELSE Evaluate(P, EvaluationDates(P, DevelopmentBoundary(P, policy), 0, 0), 0, policy)

\* AnalyzeHoldout: the reserved dates, once, by what was known before the first of them.
\* Both of these refuse a calendar that is not complete.
HeldDates(P, asof, from, through) ==
    IF from <= through /\ through <= asof THEN EvaluationDates(P, 0, from, through) ELSE {}

HoldOut(P, asof, from, through, policy, contaminated) ==
    LET dates == HeldDates(P, asof, from, through)
        e == IF dates = {} THEN NoEvaluation ELSE Evaluate(P, dates, from, policy)
        proven == ~contaminated /\ HoldoutProven(e) IN
    [holdout |-> e, proven |-> proven,
     verdict |-> IF dates = {} THEN "refused"
                 ELSE ResearchVerdict(TRUE, contaminated, proven, TRUE, Tally(e.top).samples, e)]
=============================================================================
