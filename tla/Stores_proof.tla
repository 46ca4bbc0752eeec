---------------------------- MODULE Stores_proof ----------------------------
(***************************************************************************)
(* Proofs about what tables, files and shared records may show:            *)
(* StatusCoverage, SourceFallback, LogFiles, IntradaySync,                 *)
(* LegacyMigration, CalendarCache, Chanlun and StructureGuard. They share  *)
(* nothing, and neither do their proofs.                                   *)
(***************************************************************************)
EXTENDS StatusCoverage, SourceFallback, LogFiles, IntradaySync, LegacyMigration,
        CalendarCache, Chanlun, StructureGuard, FiniteSetTheorems, SequenceTheorems, WellFoundedInduction,
        TLAPS

-----------------------------------------------------------------------------
(***************************************************************************)
(* StatusCoverage, for every trading calendar, listing date, window and    *)
(* refresh range.                                                          *)
(*                                                                         *)
(* Ranges overlap in every way, so a complete row cannot be related to the *)
(* answer that made it. The invariant relates the rows to the days: each   *)
(* day in a complete row has a full answer as its latest, and the calendar *)
(* says of each day in a complete row of its own what the exchange did.    *)
(***************************************************************************)

\* The calendar is right wherever a row calls it complete.
CalendarIsTrue ==
    \A r \in Interval : calendarRow[r] = "complete" =>
        \A d \in Day : In(d, r) => (d \in calendar <=> d \in Session)

StatusInv ==
    /\ StatusTypeOK
    /\ CoverageIsHonest
    /\ CalendarIsTrue

-----------------------------------------------------------------------------
\* The marker of a day without a full answer is no answer of a source.
LEMMA NoAnswerIsNone == NoAnswer \notin Claims
BY DayAssumption DEF NoAnswer

\* What two sources say of one session has one reading.
LEMMA MergedState ==
    /\ \A claims \in Claims : Merged(claims) \in State
    /\ \A claims \in Claims : Merged(claims) = "suspended" => claims = {"suspended"}
BY DEF Merged, State

\* An event leaves a state.
LEMMA ResolvedState ==
    \A old, new \in State : Resolved(old, new) \in State
BY DEF Resolved, State

\* A part of a complete range lies beside the range that was asked for.
LEMMA PartsAside ==
    ASSUME StatusTypeOK, NEW r \in Int \X Int, r[1] <= r[2],
           NEW s \in Interval, s \in UNION {Parts(t, r) : t \in Complete(row, r)}
    PROVE  /\ ~Overlaps(s, r)
           /\ s # r
           /\ \A d \in Day : In(d, s) =>
                 ~In(d, r) /\ \E t \in Interval : row[t] = "complete" /\ In(d, t)
<1>1. PICK t \in Complete(row, r) : s \in Parts(t, r)
  OBVIOUS
<1>2. s \in {<<t[1], r[1] - 1>>, <<r[2] + 1, t[2]>>}
  BY <1>1 DEF Parts
<1>3. t \in Interval /\ row[t] = "complete" /\ t[1] \in Int /\ t[2] \in Int
      /\ t[1] <= r[2] /\ r[1] <= t[2] /\ r[1] \in Int /\ r[2] \in Int
  BY <1>1, DayAssumption DEF Complete, Overlaps, Interval, Day
<1>4. ~Overlaps(s, r) /\ s # r
  BY <1>2, <1>3 DEF Overlaps
<1>5. ASSUME NEW d \in Day, In(d, s) PROVE ~In(d, r) /\ In(d, t)
  BY <1>2, <1>3, <1>5, DayAssumption DEF In, Day
<1>6. QED BY <1>3, <1>4, <1>5

\* A row that a failure or a sparse answer leaves complete was one, or is a part
\* of one, and does not touch the range that was asked for.
LEMMA CutsAway ==
    ASSUME StatusTypeOK, NEW r \in Int \X Int, r[1] <= r[2], NEW s \in Interval,
           \/ AfterFailure(r)[s] = "complete"
           \/ AfterSparse(r)[s] = "complete",
           NEW d \in Day, In(d, s)
    PROVE  ~In(d, r) /\ \E t \in Interval : row[t] = "complete" /\ In(d, t)
<1> DEFINE cut == Complete(row, r)
           parts == UNION {Parts(t, r) : t \in cut}
<1>1. AfterFailure(r)[s] = CASE s = r -> "failed"
                             [] s \in parts -> "complete"
                             [] s \in cut \ {r} -> "absent"
                             [] OTHER -> row[s]
  BY DEF AfterFailure
<1>2. AfterSparse(r)[s] = CASE s = r -> "partial"
                             [] s \in parts /\ row[s] = "absent" -> "complete"
                             [] s \in cut \ {r} -> "absent"
                             [] OTHER -> row[s]
  BY DEF AfterSparse
<1>3. CASE s \in parts
  BY <1>3, PartsAside
<1>4. CASE s \notin parts
  <2>1. s # r
    BY <1>1, <1>2, <1>4
  <2>2. row[s] = "complete" /\ s \notin cut
    BY <1>1, <1>2, <1>4, <2>1
  <2>3. ~Overlaps(s, r)
    BY <2>2 DEF Complete
  <2>4. s[1] \in Int /\ s[2] \in Int /\ r[1] \in Int /\ r[2] \in Int
    BY DayAssumption DEF Interval, Day
  <2>5. ~In(d, r)
    BY <2>3, <2>4, DayAssumption DEF Overlaps, In, Day
  <2>6. QED BY <2>2, <2>5
<1>5. QED BY <1>3, <1>4

\* What the tables become is of their type.
LEMMA CutsTyped ==
    ASSUME StatusTypeOK, NEW r \in Int \X Int, r[1] <= r[2]
    PROVE  /\ AfterFailure(r) \in [Interval -> {"absent", "complete", "partial", "failed"}]
           /\ AfterSparse(r) \in [Interval -> {"absent", "complete", "partial", "failed"}]
<1> DEFINE cut == Complete(row, r)
           parts == UNION {Parts(t, r) : t \in cut}
<1>1. ASSUME NEW s \in Interval
      PROVE  /\ AfterFailure(r)[s] \in {"absent", "complete", "partial", "failed"}
             /\ AfterSparse(r)[s] \in {"absent", "complete", "partial", "failed"}
  <2>1. s \in parts => s # r /\ s \notin cut
    BY PartsAside DEF Complete
  <2>2. row[s] \in {"absent", "complete", "partial", "failed"}
    BY DEF StatusTypeOK
  <2>3. AfterFailure(r)[s] \in {"absent", "complete", "partial", "failed"}
    BY <2>1, <2>2 DEF AfterFailure
  <2>4. AfterSparse(r)[s] \in {"absent", "complete", "partial", "failed"}
    BY <2>1, <2>2 DEF AfterSparse
  <2>5. QED BY <2>3, <2>4
<1>2. DOMAIN AfterFailure(r) = Interval /\ DOMAIN AfterSparse(r) = Interval
  BY DEF AfterFailure, AfterSparse
<1>3. AfterFailure(r) = [s \in Interval |-> AfterFailure(r)[s]]
      /\ AfterSparse(r) = [s \in Interval |-> AfterSparse(r)[s]]
  BY <1>2 DEF AfterFailure, AfterSparse
<1>4. QED BY <1>1, <1>3

-----------------------------------------------------------------------------
\* The three ways to write the tables of one stock keep what is claimed honest.

LEMMA FullKeeps ==
    ASSUME StatusInv, NEW r \in Int \X Int, r[1] <= r[2],
           NEW said \in [{d \in Session : In(d, r)} -> Claims],
           SaveFullWindow(r, said)
    PROVE  /\ row' \in [Interval -> {"absent", "complete", "partial", "failed"}]
           /\ state' \in [Day -> State] /\ latest' \in [Day -> Claims \cup {NoAnswer}]
           /\ CoverageIsHonest'
<1>1. row' \in [Interval -> {"absent", "complete", "partial", "failed"}]
  BY DEF SaveFullWindow, StatusInv, StatusTypeOK
<1>2. \A d \in Session : In(d, r) => said[d] \in Claims /\ Merged(said[d]) \in State
  BY MergedState
<1>3. "absent" \in State /\ {} \in Claims
  BY DayAssumption DEF State
<1>4. state' \in [Day -> State]
  BY <1>2, <1>3 DEF SaveFullWindow, StatusInv, StatusTypeOK
<1>5. latest' \in [Day -> Claims \cup {NoAnswer}]
  BY <1>2, <1>3 DEF SaveFullWindow, StatusInv, StatusTypeOK
<1>6. Session \subseteq Day
  BY DayAssumption DEF Day
<1>7. ASSUME NEW s \in Interval, row'[s] = "complete", NEW d \in Session, In(d, s)
      PROVE  latest'[d] # NoAnswer /\ state'[d] = Merged(latest'[d])
  <2>1. CASE In(d, r)
    <3>1. latest'[d] = said[d] /\ state'[d] = Merged(said[d])
      BY <1>6, <2>1 DEF SaveFullWindow
    <3>2. QED BY <1>2, <2>1, <3>1, NoAnswerIsNone
  <2>2. CASE ~In(d, r)
    <3>1. latest'[d] = latest[d] /\ state'[d] = state[d]
      BY <1>6, <2>2 DEF SaveFullWindow
    <3>2. row[s] = "complete"
      BY <1>7, <2>2 DEF SaveFullWindow, StatusInv, StatusTypeOK
    <3>3. QED BY <1>7, <3>1, <3>2 DEF StatusInv, CoverageIsHonest
  <2>3. QED BY <2>1, <2>2
<1>8. QED BY <1>1, <1>4, <1>5, <1>7 DEF CoverageIsHonest

LEMMA SparseKeeps ==
    ASSUME StatusInv, NEW r \in Int \X Int, r[1] <= r[2],
           NEW said \in [{d \in Session : In(d, r)} -> Claims],
           SaveSparseWindow(r, said)
    PROVE  /\ row' \in [Interval -> {"absent", "complete", "partial", "failed"}]
           /\ state' \in [Day -> State] /\ latest' \in [Day -> Claims \cup {NoAnswer}]
           /\ CoverageIsHonest'
<1>1. row' = AfterSparse(r) /\ StatusTypeOK
  BY DEF SaveSparseWindow, StatusInv
<1>2. row' \in [Interval -> {"absent", "complete", "partial", "failed"}]
  BY <1>1, CutsTyped
<1>3. \A d \in Session : In(d, r) => Merged(said[d]) \in State
  BY MergedState
<1>4. state' \in [Day -> State]
  BY <1>1, <1>3, ResolvedState DEF SaveSparseWindow, StatusTypeOK
<1>5. latest' \in [Day -> Claims \cup {NoAnswer}]
  BY <1>1 DEF SaveSparseWindow, StatusTypeOK
<1>6. Session \subseteq Day
  BY DayAssumption DEF Day
<1>7. ASSUME NEW s \in Interval, row'[s] = "complete", NEW d \in Session, In(d, s)
      PROVE  latest'[d] # NoAnswer /\ state'[d] = Merged(latest'[d])
  <2>1. ~In(d, r) /\ \E t \in Interval : row[t] = "complete" /\ In(d, t)
    BY <1>1, <1>6, <1>7, CutsAway
  <2>2. latest'[d] = latest[d] /\ state'[d] = state[d]
    BY <1>6, <2>1 DEF SaveSparseWindow
  <2>3. QED BY <2>1, <2>2 DEF StatusInv, CoverageIsHonest
<1>8. QED BY <1>2, <1>4, <1>5, <1>7 DEF CoverageIsHonest

LEMMA FailureKeeps ==
    ASSUME StatusInv, NEW r \in Int \X Int, r[1] <= r[2], RecordStatusFailure(r)
    PROVE  /\ row' \in [Interval -> {"absent", "complete", "partial", "failed"}]
           /\ state' \in [Day -> State] /\ latest' \in [Day -> Claims \cup {NoAnswer}]
           /\ CoverageIsHonest'
<1>1. row' = AfterFailure(r) /\ state' = state /\ StatusTypeOK
  BY DEF RecordStatusFailure, StatusInv
<1>2. row' \in [Interval -> {"absent", "complete", "partial", "failed"}]
  BY <1>1, CutsTyped
<1>3. state' \in [Day -> State]
  BY <1>1 DEF StatusTypeOK
<1>4. latest' \in [Day -> Claims \cup {NoAnswer}]
  BY <1>1 DEF RecordStatusFailure, StatusTypeOK
<1>5. Session \subseteq Day
  BY DayAssumption DEF Day
<1>6. ASSUME NEW s \in Interval, row'[s] = "complete", NEW d \in Session, In(d, s)
      PROVE  latest'[d] # NoAnswer /\ state'[d] = Merged(latest'[d])
  <2>1. ~In(d, r) /\ \E t \in Interval : row[t] = "complete" /\ In(d, t)
    BY <1>1, <1>5, <1>6, CutsAway
  <2>2. latest'[d] = latest[d] /\ state'[d] = state[d]
    BY <1>1, <1>5, <2>1 DEF RecordStatusFailure
  <2>3. QED BY <2>1, <2>2 DEF StatusInv, CoverageIsHonest
<1>7. QED BY <1>2, <1>3, <1>4, <1>6 DEF CoverageIsHonest

\* The ranges that are asked for are ranges, once the stock is listed.
LEMMA AskedRanges ==
    ASSUME StatusTypeOK
    PROVE  /\ Listed <= asof => /\ Required \in Int \X Int /\ Required[1] <= Required[2]
                               /\ Refreshed \in Int \X Int /\ Refreshed[1] <= Refreshed[2]
           /\ <<RefreshStart, asof>> \in Int \X Int /\ RefreshStart <= asof
<1>1. asof \in Int /\ Listed \in Int
  BY DayAssumption DEF StatusTypeOK
<1>2. Window \in Nat \ {0} /\ RefreshDays \in Nat \ {0}
  BY DayAssumption
<1>3. QED
  BY <1>1, <1>2 DEF Required, Refreshed, RequiredStart, RefreshStart, Later

\* An answer for one of these ranges keeps the invariant.
LEMMA AnsweredKeeps ==
    ASSUME StatusInv, NEW r \in Int \X Int, r[1] <= r[2], Answered(r)
    PROVE  StatusInv'
<1>1. asof' = asof /\ calendarRow' = calendarRow /\ calendar' = calendar
  BY DEF Answered, days
<1>2. CalendarIsTrue'
  BY <1>1 DEF StatusInv, CalendarIsTrue
<1>3. /\ row' \in [Interval -> {"absent", "complete", "partial", "failed"}]
      /\ state' \in [Day -> State] /\ latest' \in [Day -> Claims \cup {NoAnswer}]
      /\ CoverageIsHonest'
  BY FullKeeps, SparseKeeps, FailureKeeps DEF Answered
<1>4. QED BY <1>1, <1>2, <1>3 DEF StatusInv, StatusTypeOK

-----------------------------------------------------------------------------
\* Nothing is claimed at the start.
LEMMA StatusStart == StatusInit => StatusInv
<1> SUFFICES ASSUME StatusInit PROVE StatusInv
  OBVIOUS
<1>1. StatusTypeOK
  BY DayAssumption DEF StatusInit, StatusTypeOK, State
<1>2. CoverageIsHonest /\ CalendarIsTrue
  BY DEF StatusInit, CoverageIsHonest, CalendarIsTrue
<1>3. QED BY <1>1, <1>2 DEF StatusInv

LEMMA StatusStep == StatusInv /\ [StatusNext]_statusVars => StatusInv'
<1> SUFFICES ASSUME StatusInv, [StatusNext]_statusVars PROVE StatusInv'
  OBVIOUS
<1> USE DEF StatusInv
<1>1. CASE SaveCalendar
  <2>1. PICK gap \in Interval :
          /\ calendar' = {d \in calendar : ~In(d, gap)} \cup {d \in Session : In(d, gap)}
          /\ calendarRow' = [calendarRow EXCEPT ![gap] = "complete"]
          /\ UNCHANGED <<asof, table>>
    BY <1>1 DEF SaveCalendar
  <2>2. asof' = asof /\ row' = row /\ state' = state /\ latest' = latest
    BY <2>1 DEF table
  <2>3. Session \subseteq Day
    BY DayAssumption DEF Day
  <2>4. StatusTypeOK'
    BY <2>1, <2>2, <2>3 DEF StatusTypeOK
  <2>5. CoverageIsHonest'
    BY <2>2 DEF CoverageIsHonest
  <2>6. ASSUME NEW s \in Interval, calendarRow'[s] = "complete", NEW d \in Day, In(d, s)
        PROVE  d \in calendar' <=> d \in Session
    <3>1. CASE In(d, gap)
      BY <2>1, <3>1
    <3>2. CASE ~In(d, gap)
      <4>1. calendarRow[s] = "complete"
        BY <2>1, <2>6, <3>2 DEF StatusTypeOK
      <4>2. QED BY <2>1, <2>6, <3>2, <4>1 DEF CalendarIsTrue
    <3>3. QED BY <3>1, <3>2
  <2>7. QED BY <2>4, <2>5, <2>6 DEF CalendarIsTrue
<1>2. CASE RecordCalendarFailure
  <2>1. PICK gap \in Interval :
          /\ calendarRow' = [calendarRow EXCEPT ![gap] = "failed"]
          /\ UNCHANGED <<asof, calendar, table>>
    BY <1>2 DEF RecordCalendarFailure
  <2>2. StatusTypeOK'
    BY <2>1 DEF StatusTypeOK, table
  <2>3. CoverageIsHonest'
    BY <2>1 DEF CoverageIsHonest, table
  <2>4. \A s \in Interval : calendarRow'[s] = "complete" => calendarRow[s] = "complete"
    BY <2>1 DEF StatusTypeOK
  <2>5. CalendarIsTrue'
    BY <2>1, <2>4 DEF CalendarIsTrue
  <2>6. QED BY <2>2, <2>3, <2>5
<1>3. CASE StatusBackfill
  <2>1. Listed <= asof /\ Answered(Required)
    BY <1>3 DEF StatusBackfill, Answered
  <2>2. QED BY <2>1, AskedRanges, AnsweredKeeps
<1>4. CASE StatusRefresh
  <2>1. Listed <= asof /\ Answered(Refreshed)
    BY <1>4 DEF StatusRefresh, Answered
  <2>2. QED BY <2>1, AskedRanges, AnsweredKeeps
<1>5. CASE ListingFails
  <2> DEFINE r == <<RefreshStart, asof>>
  <2>1. RecordStatusFailure(r) /\ asof' = asof /\ calendarRow' = calendarRow
        /\ calendar' = calendar
    BY <1>5 DEF ListingFails, days
  <2>2. r \in Int \X Int /\ r[1] <= r[2]
    BY AskedRanges
  <2> HIDE DEF r
  <2>3. /\ row' \in [Interval -> {"absent", "complete", "partial", "failed"}]
        /\ state' \in [Day -> State] /\ latest' \in [Day -> Claims \cup {NoAnswer}]
        /\ CoverageIsHonest'
    BY <2>1, <2>2, FailureKeeps
  <2>4. CalendarIsTrue'
    BY <2>1 DEF CalendarIsTrue
  <2>5. QED BY <2>1, <2>3, <2>4 DEF StatusTypeOK
<1>6. CASE NextSession
  <2>1. /\ asof' \in Session
        /\ row' = row /\ state' = state /\ latest' = latest
        /\ calendarRow' = calendarRow /\ calendar' = calendar
    BY <1>6 DEF NextSession, table, days
  <2>2. StatusTypeOK' /\ CoverageIsHonest' /\ CalendarIsTrue'
    BY <2>1 DEF StatusTypeOK, CoverageIsHonest, CalendarIsTrue
  <2>3. QED BY <2>2
<1>7. CASE UNCHANGED statusVars
  <2>1. /\ asof' = asof /\ row' = row /\ state' = state /\ latest' = latest
        /\ calendarRow' = calendarRow /\ calendar' = calendar
    BY <1>7 DEF statusVars, table, days
  <2>2. QED BY <2>1 DEF StatusTypeOK, CoverageIsHonest, CalendarIsTrue
<1>8. QED BY <1>1, <1>2, <1>3, <1>4, <1>5, <1>6, <1>7 DEF StatusNext

\* The invariant holds throughout.
LEMMA StatusHolds == StatusSpec => []StatusInv
BY StatusStart, StatusStep, PTL DEF StatusSpec

\* The tables keep their types.
THEOREM StatusTyped == StatusSpec => []StatusTypeOK
<1>1. StatusInv => StatusTypeOK
  BY DEF StatusInv
<1>2. QED BY <1>1, StatusHolds, PTL

\* A complete row of session_status rests on full answers, the latest ones, for
\* any sequence of overlapping windows.  (SaveStatusWindow, RecordStatusFailure)
THEOREM CoverageIsHonestHolds == StatusSpec => []CoverageIsHonest
<1>1. StatusInv => CoverageIsHonest
  BY DEF StatusInv
<1>2. QED BY <1>1, StatusHolds, PTL

\* A session without a bar that the audit accepts was called a suspension, and
\* nothing else, by the latest full answer.  (evaluateHistory)
THEOREM GapIsNoSuspensionHolds == StatusSpec => []GapIsNoSuspension
<1>1. StatusInv => GapIsNoSuspension
  <2> SUFFICES ASSUME StatusInv, NEW bars \in SUBSET Session, AuditComplete(bars),
                      NEW d \in Session \ bars, In(d, Required)
               PROVE  latest[d] = {"suspended"}
    BY DEF GapIsNoSuspension
  <2>1. d \in Day /\ d \in Int /\ asof \in Int /\ Window \in Nat
    BY DayAssumption DEF Day, StatusInv, StatusTypeOK
  <2>2. d \in Required[1] .. Required[2] /\ d \in RequiredRange[1] .. RequiredRange[2]
    BY <2>1, DayAssumption DEF In, Required, RequiredRange, RequiredStart, Later
  <2>3. \E s \in Interval : calendarRow[s] = "complete" /\ In(d, s)
    BY <2>2 DEF AuditComplete, CalendarCovered, Covers, Complete
  <2>4. d \in ExpectedDays
    BY <2>1, <2>3 DEF StatusInv, CalendarIsTrue, ExpectedDays
  <2>5. state[d] = "suspended"
    BY <2>4 DEF AuditComplete, HistoryComplete
  <2>6. \E s \in Interval : row[s] = "complete" /\ In(d, s)
    BY <2>2 DEF AuditComplete, StatusCovered, Covers, Complete
  <2>7. latest[d] # NoAnswer /\ Merged(latest[d]) = "suspended"
    BY <2>5, <2>6 DEF StatusInv, CoverageIsHonest
  <2>8. latest[d] \in Claims
    BY <2>1, <2>7 DEF StatusInv, StatusTypeOK
  <2>9. QED BY <2>7, <2>8, MergedState
<1>2. QED BY <1>1, StatusHolds, PTL

-----------------------------------------------------------------------------
(***************************************************************************)
(* SourceFallback, for any callers, routes and threshold.                  *)
(*                                                                         *)
(* A probe is alone for two reasons. While it is on its way the breaker    *)
(* admits nobody else. And when it is admitted nobody is left from before: *)
(* an attempt that a closed breaker admitted is at least as old as the     *)
(* cooldown that has begun since (OldAttempts), and does not outlive its   *)
(* budget, which the cooldown exceeds.                                     *)
(***************************************************************************)

CallRecord == [pc : {"idle", "next", "flight", "decide"}, kind : Kind, at : Nat,
               age : 0 .. Budget, probe : BOOLEAN,
               heard : Heard \cup {"nothing"}, cancelled : BOOLEAN]

BreakerRecord == [failures : 0 .. Threshold, cooling : NotCooling .. Cooldown, probing : BOOLEAN]

\* While a probe is on its way nobody else asks that provider, and the breaker waits for it.
ProbesAlone ==
    \A p \in Provider, c \in Caller : AsksAt(c, p) /\ call[c].probe =>
        /\ health[p].probing /\ health[p].cooling = 0
        /\ \A d \in Caller : AsksAt(d, p) => d = c

\* An attempt that was admitted by a closed breaker is at least as old as the cooldown
\* that has begun since.
OldAttempts ==
    \A p \in Provider, c \in Caller : AsksAt(c, p) /\ ~call[c].probe =>
        health[p].cooling = NotCooling \/ health[p].cooling + call[c].age >= Cooldown

SourceInv == SourceTypeOK /\ ProbesAlone /\ OldAttempts

\* A route holds providers.
LEMMA RouteType ==
    ASSUME NEW k \in Kind
    PROVE  /\ Len(ProviderRoute[k]) \in Nat
           /\ \A i \in 1 .. Len(ProviderRoute[k]) : ProviderRoute[k][i] \in Provider
<1>1. ProviderRoute[k] \in Seq(Provider)
  BY SourceAssumption
<1> QED BY <1>1

\* What a call in flight asks is a provider.
LEMMA HereType ==
    ASSUME SourceTypeOK, NEW c \in Caller, call[c].pc \in {"flight", "decide"}
    PROVE  Here(c) \in Provider
BY RouteType DEF SourceTypeOK, Here

\* The counters of a breaker and the age of an attempt.
LEMMA SourceNumbers ==
    /\ Threshold \in Nat \ {0} /\ Cooldown \in Nat \ {0} /\ Budget \in Nat \ {0}
    /\ NotCooling < 0 /\ NotCooling \in Int
    /\ {NotCooling, 0, Cooldown} \subseteq NotCooling .. Cooldown
    /\ \A x \in NotCooling .. Cooldown : x > 0 => x - 1 \in NotCooling .. Cooldown
    /\ {0, Threshold} \subseteq 0 .. Threshold
    /\ \A x \in 0 .. Threshold : x < Threshold => x + 1 \in 0 .. Threshold
    /\ 0 \in 0 .. Budget
    /\ \A x \in 0 .. Budget : x < Budget => x + 1 \in 0 .. Budget
BY SourceAssumption DEF NotCooling

\* The two variables are arrays of records.
LEMMA SourceTypes ==
    ASSUME SourceTypeOK
    PROVE  /\ health \in [Provider -> BreakerRecord]
           /\ call \in [Caller -> CallRecord]
           /\ \A c \in Caller : /\ call[c].at \in 1 .. Len(ProviderRoute[call[c].kind]) + 1
                                /\ call[c].pc \in {"flight", "decide"} =>
                                       call[c].at <= Len(ProviderRoute[call[c].kind])
BY DEF SourceTypeOK, BreakerRecord, CallRecord

\* The record of a breaker keeps its type.
LEMMA BreakerType ==
    ASSUME health \in [Provider -> BreakerRecord], NEW p \in Provider
    PROVE  /\ Admitted(p) \in BreakerRecord
           /\ \A h \in Heard : AfterAnswer(p, h) \in BreakerRecord
<1>1. health[p] \in BreakerRecord
  OBVIOUS
<1>2. Admitted(p) \in BreakerRecord
  BY <1>1 DEF Admitted, BreakerRecord
<1>3. ASSUME NEW h \in Heard PROVE AfterAnswer(p, h) \in BreakerRecord
  <2> DEFINE n == IF health[p].failures < Threshold THEN health[p].failures + 1 ELSE Threshold
  <2>1. n \in 0 .. Threshold
    BY <1>1, SourceNumbers DEF BreakerRecord
  <2>2. (IF n >= Threshold THEN Cooldown ELSE health[p].cooling) \in NotCooling .. Cooldown
    BY <1>1, SourceNumbers DEF BreakerRecord
  <2>3. Sound \in BreakerRecord /\ [health[p] EXCEPT !.probing = FALSE] \in BreakerRecord
    BY <1>1, SourceNumbers DEF Sound, BreakerRecord
  <2>4. [failures |-> n, probing |-> FALSE,
         cooling |-> IF n >= Threshold THEN Cooldown ELSE health[p].cooling] \in BreakerRecord
    BY <2>1, <2>2 DEF BreakerRecord
  <2> HIDE DEF n
  <2> QED BY <2>3, <2>4 DEF AfterAnswer, n
<1> QED BY <1>2, <1>3

\* What the type of the records says of one call that changes.
LEMMA CallMoves ==
    ASSUME SourceTypeOK, health' \in [Provider -> BreakerRecord],
           NEW c \in Caller, NEW r \in CallRecord, call' = [call EXCEPT ![c] = r],
           r.at \in 1 .. Len(ProviderRoute[r.kind]) + 1,
           r.pc \in {"flight", "decide"} => r.at <= Len(ProviderRoute[r.kind])
    PROVE  /\ SourceTypeOK'
           /\ call'[c] = r
           /\ \A d \in Caller : d # c => call'[d] = call[d]
<1>1. /\ call' \in [Caller -> CallRecord]
      /\ call'[c] = r
      /\ \A d \in Caller : d # c => call'[d] = call[d]
  BY SourceTypes
<1>2. \A d \in Caller : /\ call'[d].at \in 1 .. Len(ProviderRoute[call'[d].kind]) + 1
                        /\ call'[d].pc \in {"flight", "decide"} =>
                               call'[d].at <= Len(ProviderRoute[call'[d].kind])
  BY <1>1, SourceTypes
<1> QED BY <1>1, <1>2 DEF SourceTypeOK, BreakerRecord, CallRecord

\* The record a call begins with.
LEMMA IdleType ==
    IdleCall \in CallRecord /\ IdleCall.pc = "idle" /\ IdleCall.at = 1 /\ IdleCall.kind \in Kind
<1>1. 0 \in 0 .. Budget /\ 1 \in Nat
  BY SourceAssumption
<1>2. "daily" \in Kind
  BY DEF Kind
<1> QED BY <1>1, <1>2 DEF IdleCall, CallRecord

\* The first position of a route, and the one after any of its providers.
LEMMA PositionType ==
    ASSUME NEW k \in Kind
    PROVE  /\ 1 \in 1 .. Len(ProviderRoute[k]) + 1
           /\ \A i \in 1 .. Len(ProviderRoute[k]) + 1 :
                 i <= Len(ProviderRoute[k]) => i + 1 \in 1 .. Len(ProviderRoute[k]) + 1
BY RouteType

\* Every breaker is closed and every caller idle.
LEMMA SourceInitInv == SourceInit => SourceInv
<1> SUFFICES ASSUME SourceInit PROVE SourceInv
  OBVIOUS
<1> USE SourceAssumption, RouteType DEF SourceInit
<1>1. SourceTypeOK
  BY DEF SourceTypeOK, Sound, IdleCall, NotCooling, Kind, Heard
<1>2. ProbesAlone /\ OldAttempts
  BY DEF ProbesAlone, OldAttempts, AsksAt, IdleCall
<1> QED BY <1>1, <1>2 DEF SourceInv

\* A step of one call that neither sends nor answers.
LEMMA QuietInv ==
    ASSUME SourceInv, UNCHANGED health, NEW c \in Caller, NEW r \in CallRecord,
           call' = [call EXCEPT ![c] = r],
           r.at \in 1 .. Len(ProviderRoute[r.kind]) + 1,
           \/ r.pc \in {"idle", "next"}
           \/ /\ r.pc = call[c].pc /\ r.kind = call[c].kind /\ r.at = call[c].at
              /\ r.age = call[c].age /\ r.probe = call[c].probe
    PROVE  SourceInv'
<1>1. SourceTypeOK'
  BY DEF SourceInv, SourceTypeOK, CallRecord
<1>2. \A d \in Caller, p \in Provider : AsksAt(d, p)' =>
          AsksAt(d, p) /\ call'[d].age = call[d].age /\ call'[d].probe = call[d].probe
  BY DEF SourceInv, SourceTypeOK, AsksAt, Here, CallRecord
<1>3. ProbesAlone' /\ OldAttempts'
  BY <1>2 DEF SourceInv, ProbesAlone, OldAttempts
<1> QED BY <1>1, <1>3 DEF SourceInv

\* A provider is asked, or passed over: the breaker admits a probe only when no
\* attempt of before is left, which is where the cooldown has to outlast one.
LEMMA AskInv ==
    ASSUME SourceInv, NEW c \in Caller, AskProvider(c), Cooldown > Budget
    PROVE  SourceInv'
<1> DEFINE p == Here(c)
<1>0. p \in Provider /\ call \in [Caller -> CallRecord]
  BY RouteType DEF SourceInv, SourceTypeOK, Here, AskProvider, CallRecord
<1>1. CASE ~Available(p)
  <2> DEFINE r == [call[c] EXCEPT !.at = @ + 1]
  <2>1. r \in CallRecord /\ call' = [call EXCEPT ![c] = r] /\ UNCHANGED health
    BY <1>0, <1>1 DEF AskProvider, CallRecord
  <2>2. r.pc = "next" /\ r.at \in 1 .. Len(ProviderRoute[r.kind]) + 1
    BY <1>0, RouteType DEF AskProvider, SourceInv, SourceTypeOK, CallRecord
  <2> HIDE DEF r
  <2> QED BY <2>1, <2>2, QuietInv
<1>2. CASE Available(p)
  <2> DEFINE r == [call[c] EXCEPT !.pc = "flight", !.age = 0, !.probe = health[p].cooling # NotCooling]
  <2>1. health' = [health EXCEPT ![p] = Admitted(p)] /\ call' = [call EXCEPT ![c] = r]
    BY <1>0, <1>2 DEF AskProvider
  <2>2. /\ r \in CallRecord /\ r.pc = "flight" /\ r.age = 0 /\ r.kind = call[c].kind
        /\ r.at = call[c].at /\ (r.probe <=> health[p].cooling # NotCooling)
    BY <1>0, SourceNumbers DEF CallRecord
  <2>3. health' \in [Provider -> BreakerRecord]
    BY <2>1, <1>0, BreakerType, SourceTypes DEF SourceInv
  <2>4. r.at \in 1 .. Len(ProviderRoute[r.kind]) + 1 /\ r.at <= Len(ProviderRoute[r.kind])
    BY <2>2, SourceTypes DEF SourceInv, AskProvider
  <2> HIDE DEF r
  <2>5. SourceTypeOK' /\ call'[c] = r /\ \A d \in Caller : d # c => call'[d] = call[d]
    BY <2>1, <2>2, <2>3, <2>4, CallMoves DEF SourceInv
  <2>6. \A q \in Provider, d \in Caller : AsksAt(d, q)' <=> (AsksAt(d, q) \/ (d = c /\ q = p))
    BY <2>2, <2>5 DEF AsksAt, Here, AskProvider
  <2>7. \A q \in Provider : q # p => health'[q] = health[q]
    BY <2>1, <1>0, SourceTypes DEF SourceInv
  <2>8. /\ health'[p].cooling = health[p].cooling
        /\ health'[p].probing <=> (health[p].probing \/ health[p].cooling # NotCooling)
    BY <2>1, <1>0, SourceTypes DEF SourceInv, Admitted, BreakerRecord
  <2>9. health[p].cooling = NotCooling \/ (~health[p].probing /\ health[p].cooling = 0)
    BY <1>2 DEF Available
  <2>10. ASSUME health[p].cooling = 0, NEW d \in Caller, AsksAt(d, p) PROVE FALSE
    <3>1. ~call[d].probe
      BY <1>0, <2>9, <2>10, SourceNumbers DEF SourceInv, ProbesAlone
    <3>2. health[p].cooling + call[d].age >= Cooldown
      BY <1>0, <2>10, <3>1, SourceNumbers DEF SourceInv, OldAttempts
    <3>3. call[d].age \in 0 .. Budget
      BY <1>0 DEF CallRecord
    <3> QED BY <2>10, <3>2, <3>3, SourceNumbers
  <2>11. \A q \in Provider : ~AsksAt(c, q)
    BY DEF AskProvider, AsksAt
  <2>12. ASSUME NEW q \in Provider, NEW d \in Caller, AsksAt(d, q)', call'[d].probe
         PROVE  /\ health'[q].probing /\ health'[q].cooling = 0
                /\ \A e \in Caller : AsksAt(e, q)' => e = d
    <3>1. CASE d = c /\ q = p
      BY <1>0, <2>2, <2>5, <2>6, <2>8, <2>9, <2>10, <2>12, <3>1
    <3>2. CASE AsksAt(d, q) /\ d # c
      <4>1. call[d].probe
        BY <2>5, <2>12, <3>2
      <4>2. health[q].probing /\ health[q].cooling = 0 /\ \A e \in Caller : AsksAt(e, q) => e = d
        BY <3>2, <4>1 DEF SourceInv, ProbesAlone
      <4>3. q # p
        BY <2>10, <3>2, <4>2
      <4> QED BY <4>2, <4>3, <2>6, <2>7
    <3> QED BY <2>6, <2>11, <2>12, <3>1, <3>2
  <2>13. ASSUME NEW q \in Provider, NEW d \in Caller, AsksAt(d, q)', ~call'[d].probe
         PROVE  health'[q].cooling = NotCooling \/ health'[q].cooling + call'[d].age >= Cooldown
    <3>1. CASE d = c /\ q = p
      BY <2>2, <2>5, <2>8, <2>13, <3>1
    <3>2. CASE AsksAt(d, q) /\ d # c
      BY <2>5, <2>7, <2>8, <2>13, <3>2 DEF SourceInv, OldAttempts
    <3> QED BY <2>6, <2>11, <2>13, <3>1, <3>2
  <2> QED BY <2>5, <2>12, <2>13 DEF SourceInv, ProbesAlone, OldAttempts
<1> QED BY <1>1, <1>2

\* An answer ends an attempt. The breaker it opens starts its cooldown while the
\* others that are under way go on.
LEMMA AnswerInv ==
    ASSUME SourceInv, NEW c \in Caller, NEW heard \in Heard, ProviderAnswers(c, heard)
    PROVE  SourceInv'
<1> DEFINE p == Here(c)
<1>0. p \in Provider /\ call \in [Caller -> CallRecord] /\ AsksAt(c, p)
  BY HereType DEF SourceInv, SourceTypeOK, ProviderAnswers, CallRecord, AsksAt
<1>1. PICK kept \in Heard :
        call' = [call EXCEPT ![c].pc = "decide", ![c].heard = kept, ![c].probe = FALSE, ![c].age = 0]
  BY DEF ProviderAnswers, Heard
<1>2. health' = [health EXCEPT ![p] = AfterAnswer(p, heard)]
  BY DEF ProviderAnswers
<1>3. SourceTypeOK' /\ call'[c].pc = "decide" /\ \A d \in Caller : d # c => call'[d] = call[d]
  <2> DEFINE r == [call[c] EXCEPT !.pc = "decide", !.heard = kept, !.probe = FALSE, !.age = 0]
  <2>1. health' \in [Provider -> BreakerRecord]
    BY <1>0, <1>2, BreakerType, SourceTypes DEF SourceInv
  <2>2. call' = [call EXCEPT ![c] = r]
    BY <1>0, <1>1
  <2>3. r \in CallRecord /\ r.pc = "decide" /\ r.kind = call[c].kind /\ r.at = call[c].at
    BY <1>0, SourceNumbers DEF CallRecord
  <2>4. r.at \in 1 .. Len(ProviderRoute[r.kind]) + 1 /\ r.at <= Len(ProviderRoute[r.kind])
    BY <2>3, SourceTypes DEF SourceInv, ProviderAnswers
  <2> HIDE DEF r
  <2> QED BY <2>1, <2>2, <2>3, <2>4, CallMoves DEF SourceInv
<1>4. \A q \in Provider, d \in Caller : AsksAt(d, q)' => d # c /\ AsksAt(d, q) /\ call'[d] = call[d]
  BY <1>3 DEF AsksAt, Here
<1>5. \A q \in Provider : q # p => health'[q] = health[q]
  BY <1>0, <1>2, SourceTypes DEF SourceInv
<1>6. health'[p] = AfterAnswer(p, heard)
  BY <1>0, <1>2, SourceTypes DEF SourceInv
<1>7. health'[p].cooling \in {health[p].cooling, Cooldown, NotCooling}
  <2>1. health[p] \in BreakerRecord
    BY <1>0, SourceTypes DEF SourceInv
  <2> QED BY <1>6, <2>1 DEF AfterAnswer, Sound, Heard, BreakerRecord
<1>8. ProbesAlone'
  BY <1>0, <1>4, <1>5 DEF SourceInv, ProbesAlone
<1>9. OldAttempts'
  <2> SUFFICES ASSUME NEW q \in Provider, NEW d \in Caller, AsksAt(d, q)', ~call'[d].probe,
                      health'[q].cooling # NotCooling
               PROVE  health'[q].cooling + call'[d].age >= Cooldown
    BY DEF OldAttempts
  <2>1. d # c /\ AsksAt(d, q) /\ call'[d] = call[d]
    BY <1>4
  <2>2. health[q].cooling = NotCooling \/ health[q].cooling + call[d].age >= Cooldown
    BY <2>1 DEF SourceInv, OldAttempts
  <2>3. call[d].age \in Nat
    BY <1>0, SourceNumbers DEF CallRecord
  <2> QED BY <1>0, <1>5, <1>7, <2>1, <2>2, <2>3, SourceNumbers
<1> QED BY <1>3, <1>8, <1>9 DEF SourceInv

\* Time brings the end of a cooldown and of an attempt nearer by the same amount.
LEMMA TimeInv == SourceInv /\ TimePasses => SourceInv'
<1> SUFFICES ASSUME SourceInv, TimePasses PROVE SourceInv'
  OBVIOUS
<1>1. \A p \in Provider : /\ health'[p].cooling = (IF health[p].cooling > 0 THEN health[p].cooling - 1 ELSE health[p].cooling)
                           /\ health'[p].probing = health[p].probing
                           /\ health'[p].failures = health[p].failures
  BY DEF TimePasses, SourceInv, SourceTypeOK
<1>2. \A c \in Caller : /\ call'[c].age = (IF call[c].pc = "flight" THEN call[c].age + 1 ELSE call[c].age)
                         /\ call'[c].pc = call[c].pc /\ call'[c].kind = call[c].kind
                         /\ call'[c].at = call[c].at /\ call'[c].probe = call[c].probe
  BY DEF TimePasses, SourceInv, SourceTypeOK
<1>3. SourceTypeOK'
  <2>1. health' \in [Provider -> BreakerRecord]
    <3>1. \A p \in Provider : [health[p] EXCEPT !.cooling = IF @ > 0 THEN @ - 1 ELSE @] \in BreakerRecord
      BY SourceTypes, SourceNumbers DEF SourceInv, BreakerRecord
    <3> QED BY <3>1 DEF TimePasses
  <2>2. call' \in [Caller -> CallRecord]
    <3>1. \A c \in Caller :
             [call[c] EXCEPT !.age = IF call[c].pc = "flight" THEN @ + 1 ELSE @] \in CallRecord
      BY SourceTypes, SourceNumbers DEF SourceInv, CallRecord, TimePasses
    <3> QED BY <3>1 DEF TimePasses
  <2> QED BY <2>1, <2>2, <1>2 DEF SourceInv, SourceTypeOK, CallRecord, BreakerRecord
<1>4. \A c \in Caller, p \in Provider : AsksAt(c, p)' <=> AsksAt(c, p)
  BY <1>2 DEF AsksAt, Here
<1>5. ProbesAlone'
  BY <1>1, <1>2, <1>4 DEF SourceInv, ProbesAlone
<1>6. OldAttempts'
  <2> SUFFICES ASSUME NEW p \in Provider, NEW c \in Caller, AsksAt(c, p), ~call[c].probe,
                      health'[p].cooling # NotCooling
               PROVE  health'[p].cooling + call'[c].age >= Cooldown
    BY <1>2, <1>4 DEF OldAttempts
  <2>1. health[p].cooling \in NotCooling .. Cooldown /\ call[c].age \in Nat /\ call[c].pc = "flight"
    BY DEF SourceInv, SourceTypeOK, AsksAt
  <2>2. health[p].cooling = NotCooling \/ health[p].cooling + call[c].age >= Cooldown
    BY DEF SourceInv, OldAttempts
  <2> QED BY <1>1, <1>2, <2>1, <2>2, SourceAssumption DEF NotCooling
<1> QED BY <1>3, <1>5, <1>6 DEF SourceInv

\* Every step keeps the invariant.
LEMMA SourceStepInv ==
    ASSUME SourceInv, [SourceNext]_sourceVars, Cooldown > Budget
    PROVE  SourceInv'
<1>0. call \in [Caller -> CallRecord]
  BY DEF SourceInv, SourceTypeOK, CallRecord
<1>1. ASSUME NEW c \in Caller, NEW k \in Kind, BeginCall(c, k) PROVE SourceInv'
  <2> DEFINE r == [IdleCall EXCEPT !.pc = "next", !.kind = k]
  <2>1. r \in CallRecord /\ r.pc = "next" /\ r.at = 1 /\ r.kind = k
    BY IdleType DEF CallRecord
  <2>2. call' = [call EXCEPT ![c] = r] /\ UNCHANGED health
    BY <1>1 DEF BeginCall
  <2>3. r.at \in 1 .. Len(ProviderRoute[r.kind]) + 1
    BY <2>1, PositionType
  <2> HIDE DEF r
  <2> QED BY <2>1, <2>2, <2>3, QuietInv
<1>2. ASSUME NEW c \in Caller, CancelCall(c) PROVE SourceInv'
  <2> DEFINE r == [call[c] EXCEPT !.cancelled = TRUE]
  <2>1. /\ r \in CallRecord /\ r.pc = call[c].pc /\ r.kind = call[c].kind /\ r.at = call[c].at
        /\ r.age = call[c].age /\ r.probe = call[c].probe
    BY <1>0 DEF CallRecord
  <2>2. call' = [call EXCEPT ![c] = r] /\ UNCHANGED health
    BY <1>2 DEF CancelCall
  <2>3. r.at \in 1 .. Len(ProviderRoute[r.kind]) + 1
    BY <2>1 DEF SourceInv, SourceTypeOK
  <2> HIDE DEF r
  <2> QED BY <2>1, <2>2, <2>3, QuietInv
<1>3. ASSUME NEW c \in Caller, DecideNext(c) PROVE SourceInv'
  <2> DEFINE more == [call[c] EXCEPT !.pc = "next", !.at = @ + 1, !.heard = "nothing"]
  <2>1. more \in CallRecord /\ IdleCall \in CallRecord
    <3>1. call[c].at + 1 \in Nat /\ "nothing" \in Heard \cup {"nothing"}
      BY <1>0 DEF CallRecord
    <3>2. more \in CallRecord
      BY <1>0, <3>1 DEF CallRecord
    <3> QED BY <3>2, IdleType
  <2>2. PICK r \in {more, IdleCall} : call' = [call EXCEPT ![c] = r] /\ UNCHANGED health
    BY <1>3 DEF DecideNext, ReturnCall
  <2>3. r.pc \in {"idle", "next"} /\ r \in CallRecord
    <3>1. more.pc = "next"
      BY <1>0 DEF CallRecord
    <3> HIDE DEF more
    <3> QED BY <2>1, <3>1, IdleType
  <2>4. r.at \in 1 .. Len(ProviderRoute[r.kind]) + 1
    <3>1. more.kind = call[c].kind /\ more.at = call[c].at + 1
      BY <1>0 DEF CallRecord
    <3>2. call[c].pc = "decide" /\ call[c].at <= Len(ProviderRoute[call[c].kind])
      BY <1>3 DEF DecideNext, SourceInv, SourceTypeOK
    <3>3. IdleCall.at = 1 /\ IdleCall.kind \in Kind
      BY IdleType
    <3>4. call[c].at \in Nat /\ call[c].kind \in Kind
      BY <1>0 DEF CallRecord
    <3>5. CASE r = more
      BY <3>1, <3>2, <3>4, <3>5, PositionType DEF SourceInv, SourceTypeOK
    <3>6. CASE r = IdleCall
      BY <3>3, <3>6, IdleType, PositionType
    <3> QED BY <3>5, <3>6
  <2> HIDE DEF more
  <2> QED BY <2>2, <2>3, <2>4, QuietInv
<1>4. ASSUME NEW c \in Caller, EndOfRoute(c) PROVE SourceInv'
  <2>1. IdleCall.at \in 1 .. Len(ProviderRoute[IdleCall.kind]) + 1
    BY IdleType, PositionType
  <2>2. call' = [call EXCEPT ![c] = IdleCall] /\ UNCHANGED health
    BY <1>4 DEF EndOfRoute, ReturnCall
  <2> QED BY <2>1, <2>2, IdleType, QuietInv
<1>5. CASE UNCHANGED sourceVars
  BY <1>5 DEF sourceVars, SourceInv, SourceTypeOK, ProbesAlone, OldAttempts, AsksAt, Here
<1> QED BY <1>1, <1>2, <1>3, <1>4, <1>5, AskInv, AnswerInv, TimeInv DEF SourceNext

\* The invariant holds throughout, if a cooldown outlasts an attempt.
LEMMA SourceInvariance ==
    ASSUME Cooldown > Budget
    PROVE  SourceSpec => []SourceInv
<1>1. SourceInv /\ [SourceNext]_sourceVars => SourceInv'
  BY SourceStepInv
<1> QED BY <1>1, SourceInitInv, PTL DEF SourceSpec

\* Two callers never probe one provider together, if failure_cooldown is longer than
\* attempt_timeout, as in the defaults (5m and 60s); Validate of internal/config does
\* not ask for that. (resilience.go available)
THEOREM OneProbeHolds ==
    ASSUME Cooldown > Budget
    PROVE  SourceSpec => []OneProbe
<1>1. SourceInv => OneProbe
  BY DEF SourceInv, ProbesAlone, OneProbe
<1> QED BY <1>1, SourceInvariance, PTL

-----------------------------------------------------------------------------
(***************************************************************************)
(* LogFiles, for any number of lines and rotations.                        *)
(*                                                                         *)
(* The invariant says what a rotation leaves of its own file: the plain    *)
(* file until the compressed one is whole, both with the same lines before *)
(* the first is removed. A crash between two steps therefore leaves each   *)
(* line in one of them.                                                    *)
(***************************************************************************)

\* The files of the rotations, and what a rotation under way has left of its own.
LogInv ==
    /\ seq \in Nat
    /\ backup = [i \in 1 .. seq |-> backup[i]]
    /\ \A i \in 1 .. seq : DOMAIN backup[i] \subseteq Forms
    /\ step \in {"open", "zip"} => seq # 0 /\ DOMAIN backup[seq] = {"log"}
    /\ step = "remove" => /\ seq # 0 /\ DOMAIN backup[seq] = Forms
                          /\ backup[seq]["gz"].lines = backup[seq]["log"].lines

\* Where a kept line is.
Stored(line) == \/ line \in active
                \/ \E i \in 1 .. seq : \E f \in DOMAIN backup[i] : line \in backup[i][f].lines

\* What is kept is in the active file or in one of a rotation.
LEMMA KeptIsStored == LogInv => \A line : line \in Kept <=> Stored(line)
<1> SUFFICES ASSUME LogInv PROVE \A line : line \in Kept <=> Stored(line)
  OBVIOUS
<1>1. \A line : (\E n \in Names : line \in LinesOf(n)) <=>
          \E i \in 1 .. seq : \E f \in DOMAIN backup[i] : line \in backup[i][f].lines
  <2>1. ASSUME NEW line, NEW n \in Names, line \in LinesOf(n)
        PROVE  \E i \in 1 .. seq : \E f \in DOMAIN backup[i] : line \in backup[i][f].lines
    BY <2>1 DEF Names, LinesOf, FileOf
  <2>2. ASSUME NEW line, NEW i \in 1 .. seq, NEW f \in DOMAIN backup[i], line \in backup[i][f].lines
        PROVE  \E n \in Names : line \in LinesOf(n)
    <3>1. <<i, f>> \in Names
      BY DEF Names, LogInv
    <3> QED BY <2>2, <3>1 DEF LinesOf, FileOf
  <2> QED BY <2>1, <2>2
<1> QED BY <1>1 DEF Kept, Stored

\* Nothing has been rotated.
LEMMA LogInitInv == LogInit => LogInv
BY DEF LogInit, LogInv

\* Dropping names leaves the other files as they are.
LEMMA DropFacts ==
    ASSUME LogInv, NEW names, backup' = Drop(names), seq' = seq
    PROVE  /\ backup' = [i \in 1 .. seq |-> backup'[i]]
           /\ \A i \in 1 .. seq : /\ DOMAIN backup'[i] = {g \in DOMAIN backup[i] : <<i, g>> \notin names}
                                  /\ \A f \in DOMAIN backup'[i] : backup'[i][f] = backup[i][f]
           /\ \A i \in 1 .. seq : DOMAIN backup'[i] \subseteq Forms
BY DEF LogInv, Drop

\* A rotation goes from one file to its copy and to the copy alone.
LEMMA LogStepInv == LogInv /\ [LogNext]_logVars => LogInv'
<1> SUFFICES ASSUME LogInv, [LogNext]_logVars PROVE LogInv'
  OBVIOUS
<1> USE DEF files
<1>1. CASE UNCHANGED logVars \/ WriteLine \/ AppendLine \/ CloseFile \/ CloseLogger \/ LoggerDies \/ NextDay
  <2>1. UNCHANGED <<backup, seq>> /\ (step' = step \/ step' \notin {"open", "zip", "remove"})
    BY <1>1 DEF logVars, WriteLine, AppendLine, CloseFile, CloseLogger, LoggerDies, NextDay
  <2> QED BY <2>1 DEF LogInv
<1>2. CASE StartLogger
  BY <1>2, DropFacts DEF StartLogger, LogInv
<1>3. CASE RenameFile
  BY <1>3 DEF RenameFile, LogInv, Forms
<1>4. CASE OpenNew
  BY <1>4 DEF OpenNew, LogInv
<1>5. CASE Compress
  <2>1. step = "zip" /\ seq' = seq /\ step' \in {"remove", "write"}
    BY <1>5 DEF Compress
  <2>2. CASE UNCHANGED backup /\ step' = "write"
    BY <2>1, <2>2 DEF LogInv
  <2>3. ASSUME NEW lines, backup' = [backup EXCEPT ![seq] = Zipped(lines)],
               step' = "remove" => lines = backup[seq]["log"].lines
        PROVE  LogInv'
    <3>1. backup'[seq] = Zipped(lines) /\ \A i \in 1 .. seq : i # seq => backup'[i] = backup[i]
      BY <2>1, <2>3 DEF LogInv
    <3>2. DOMAIN Zipped(lines) = Forms /\ Zipped(lines)["gz"].lines = lines /\ Zipped(lines)["log"] = backup[seq]["log"]
      BY DEF Zipped, Forms
    <3>3. backup' = [i \in 1 .. seq |-> backup'[i]]
      BY <2>1, <2>3 DEF LogInv
    <3> QED BY <2>1, <2>3, <3>1, <3>2, <3>3 DEF LogInv
  <2> QED BY <1>5, <2>2, <2>3 DEF Compress
<1>6. CASE RemoveRotated \/ PruneBackups
  <2>1. step' \in {"prune", "write"} /\ seq' = seq
    BY <1>6 DEF RemoveRotated, PruneBackups
  <2>2. CASE UNCHANGED backup
    BY <2>1, <2>2 DEF LogInv
  <2>3. ASSUME NEW names, backup' = Drop(names) PROVE LogInv'
    BY <2>1, <2>3, DropFacts DEF LogInv
  <2> QED BY <1>6, <2>2, <2>3 DEF RemoveRotated, PruneBackups
<1> QED BY <1>1, <1>2, <1>3, <1>4, <1>5, <1>6 DEF LogNext

\* The step of the property: what is stored stays stored, except in two actions.
LEMMA OnlyPruningStep ==
    ASSUME LogInv, LogInv', LogNext
    PROVE  Kept \subseteq Kept' \/ step = "prune" \/ (handle # "open" /\ handle' = "open" /\ step = "idle")
<1> USE DEF files
<1> SUFFICES ASSUME step # "prune", ~StartLogger, NEW line, Stored(line) PROVE Stored(line)'
  <2>1. StartLogger => handle # "open" /\ handle' = "open" /\ step = "idle"
    BY DEF StartLogger
  <2>2. \A line : line \in Kept <=> Stored(line)
    BY KeptIsStored
  <2>3. (\A line : line \in Kept <=> Stored(line))'
    BY KeptIsStored, PTL
  <2> QED BY <2>1, <2>2, <2>3
<1>1. CASE WriteLine \/ CloseFile \/ CloseLogger \/ LoggerDies \/ NextDay \/ OpenNew
  BY <1>1 DEF WriteLine, CloseFile, CloseLogger, LoggerDies, NextDay, OpenNew, Stored
<1>2. CASE AppendLine
  BY <1>2 DEF AppendLine, Stored
<1>3. CASE RenameFile
  <2>1. seq' = seq + 1 /\ seq \in Nat /\ \A i \in 1 .. seq : backup'[i] = backup[i]
    BY <1>3 DEF RenameFile, LogInv
  <2>2. CASE line \in active /\ active' = {}
    <3>1. "log" \in DOMAIN backup'[seq'] /\ backup'[seq']["log"].lines = active
      BY <1>3, <2>1, <2>2 DEF RenameFile
    <3> QED BY <2>1, <2>2, <3>1 DEF Stored
  <2>3. CASE line \in active /\ UNCHANGED active
    BY <2>3 DEF Stored
  <2>4. CASE line \notin active
    BY <2>1, <2>4 DEF Stored
  <2> QED BY <1>3, <2>2, <2>3, <2>4 DEF RenameFile
<1>4. CASE Compress
  <2>1. /\ step = "zip" /\ UNCHANGED <<active, seq>>
        /\ DOMAIN backup[seq] = {"log"} /\ seq \in 1 .. seq
    <3>1. step = "zip" /\ UNCHANGED <<active, seq>>
      BY <1>4 DEF Compress
    <3> QED BY <3>1 DEF LogInv
  <2>2. CASE UNCHANGED backup
    BY <2>1, <2>2 DEF Stored
  <2>3. ASSUME NEW lines, backup' = [backup EXCEPT ![seq] = Zipped(lines)] PROVE Stored(line)'
    <3>1. backup'[seq] = Zipped(lines) /\ \A i \in 1 .. seq : i # seq => backup'[i] = backup[i]
      BY <2>1, <2>3 DEF LogInv
    <3>2. "log" \in DOMAIN Zipped(lines) /\ Zipped(lines)["log"] = backup[seq]["log"]
      BY DEF Zipped, Forms
    <3> QED BY <2>1, <3>1, <3>2 DEF Stored
  <2> QED BY <1>4, <2>2, <2>3 DEF Compress
<1>5. CASE RemoveRotated
  <2>1. step = "remove" /\ UNCHANGED <<active, seq>>
    BY <1>5 DEF RemoveRotated
  <2>2. CASE UNCHANGED backup
    BY <2>1, <2>2 DEF Stored
  <2>3. CASE backup' = Drop({<<seq, "log">>})
    <3>1. /\ seq \in 1 .. seq /\ DOMAIN backup[seq] = Forms
          /\ backup[seq]["gz"].lines = backup[seq]["log"].lines
      BY <2>1 DEF LogInv
    <3>2. \A i \in 1 .. seq : \A f \in DOMAIN backup[i] : <<i, f>> # <<seq, "log">> =>
              f \in DOMAIN backup'[i] /\ backup'[i][f] = backup[i][f]
      <4>1. \A i \in 1 .. seq :
               /\ DOMAIN backup'[i] = {g \in DOMAIN backup[i] : <<i, g>> \notin {<<seq, "log">>}}
               /\ \A f \in DOMAIN backup'[i] : backup'[i][f] = backup[i][f]
        BY <2>1, <2>3, DropFacts
      <4> QED BY <4>1
    <3>3. "gz" \in DOMAIN backup'[seq] /\ backup'[seq]["gz"].lines = backup[seq]["log"].lines
      BY <3>1, <3>2 DEF Forms
    <3> QED BY <2>1, <3>1, <3>2, <3>3 DEF Stored
  <2> QED BY <1>5, <2>2, <2>3 DEF RemoveRotated
<1> QED BY <1>1, <1>2, <1>3, <1>4, <1>5 DEF LogNext, PruneBackups

\* Once stored, a line leaves the logs by pruning alone, of a running logger or of one
\* that starts; no rotation, failure or crash between its steps loses one. (rotate.go)
THEOREM OnlyPruningForgetsHolds == LogSpec => OnlyPruningForgets
<1>1. LogInv /\ LogInv' /\ [LogNext]_logVars =>
        [Kept \subseteq Kept' \/ step = "prune" \/ (handle # "open" /\ handle' = "open" /\ step = "idle")]_logVars
  BY OnlyPruningStep
<1> QED BY <1>1, LogInitInv, LogStepInv, PTL DEF LogSpec, OnlyPruningForgets

-----------------------------------------------------------------------------
(***************************************************************************)
(* IntradaySync, for any stocks and workers, trading days, sessions and    *)
(* bar length.                                                             *)
(*                                                                         *)
(* The first half is about one moment: the calendar arithmetic of          *)
(* Schedule, with a day and a slot as quotients, puts its target on a      *)
(* trading day and after every slot that a source may answer (TargetIs).   *)
(* The second half is about a round: each stock that is due is in the      *)
(* queue, with one worker or served (Shared), and no worker observes a     *)
(* stock before what its last observation left (Observed).                 *)
(***************************************************************************)

\* The clock times of a session, and the length of a bar.
LEMMA Numbers ==
    /\ OpenAt \in Nat /\ Noon \in Nat /\ Resume \in Nat /\ CloseAt \in Nat
    /\ CalibrateAt \in Nat /\ DayLen \in Nat /\ BarSlot \in Nat /\ TradingDay \subseteq Nat
    /\ 0 < OpenAt /\ OpenAt < Noon /\ Noon + BarSlot <= Resume /\ Resume < CloseAt
    /\ CloseAt < CalibrateAt /\ CalibrateAt < DayLen /\ BarSlot > 0
    /\ (Noon - OpenAt) % BarSlot = 0 /\ (CloseAt - Resume) % BarSlot = 0
    /\ 0 \in TradingDay
BY IntradayAssumption

\* A number is a multiple of another and a remainder in one way.
LEMMA Between ==
    ASSUME NEW x \in Int, NEW y \in Int, NEW n \in Nat, n > 0, x * n < y * n + n
    PROVE  x <= y
<1> SUFFICES ASSUME x >= y + 1 PROVE FALSE
  OBVIOUS
<1>1. PICK k \in Nat : x = y + 1 + k
  <2>1. x - (y + 1) \in Nat
    OBVIOUS
  <2> QED BY <2>1
<1>2. x * n = y * n + n + k * n
  BY <1>1
<1>3. k * n >= 0
  OBVIOUS
<1>4. x * n \in Int /\ y * n \in Int /\ k * n \in Int
  OBVIOUS
<1> QED BY <1>2, <1>3, <1>4

\* What a division and a remainder are.
LEMMA Divided ==
    ASSUME NEW t \in Int, NEW n \in Nat, n > 0, NEW quo, NEW rest, quo = t \div n, rest = t % n
    PROVE  quo \in Int /\ rest \in 0 .. n - 1 /\ t = quo * n + rest
<1>1. \E q \in Int, r \in 0 .. n - 1 : t = q * n + r /\ q = quo
  BY SMTT(60)
<1>2. \E p \in Int, s \in 0 .. n - 1 : t = p * n + s /\ s = rest
  BY SMTT(60)
<1>3. PICK r \in 0 .. n - 1 : t = quo * n + r /\ quo \in Int
  BY <1>1
<1>4. PICK p \in Int : t = p * n + rest /\ rest \in 0 .. n - 1
  BY <1>2
<1>5. quo * n \in Int /\ p * n \in Int
  BY <1>3
<1>6. quo * n < p * n + n /\ p * n < quo * n + n
  BY <1>3, <1>4, <1>5
<1>7. p = quo
  BY <1>3, <1>6, Between
<1> QED BY <1>3, <1>4, <1>7

\* There is one of each.
LEMMA DividedOnce ==
    ASSUME NEW t \in Int, NEW n \in Nat, n > 0, NEW q \in Int, NEW r \in 0 .. n - 1, t = q * n + r
    PROVE  t \div n = q /\ t % n = r
<1> SUFFICES ASSUME NEW p, NEW s, p = t \div n, s = t % n PROVE p = q /\ s = r
  OBVIOUS
<1>1. p \in Int /\ s \in 0 .. n - 1 /\ t = p * n + s
  BY Divided
<1>2. p * n \in Int /\ q * n \in Int
  BY <1>1
<1>3. p * n < q * n + n /\ q * n < p * n + n
  BY <1>1, <1>2
<1>4. p = q
  BY <1>1, <1>3, Between
<1> QED BY <1>1, <1>2, <1>4

\* The day and the hour of a moment.
LEMMA MomentIs ==
    ASSUME NEW t \in Nat
    PROVE  /\ DayIn(t) \in Nat /\ ClockOf(t) \in 0 .. DayLen - 1
           /\ t = DayIn(t) * DayLen + ClockOf(t)
<1> SUFFICES ASSUME NEW d, NEW m, d = DayIn(t), m = ClockOf(t)
             PROVE  d \in Nat /\ m \in 0 .. DayLen - 1 /\ t = d * DayLen + m
  OBVIOUS
<1>1. d \in Int /\ m \in 0 .. DayLen - 1 /\ t = d * DayLen + m
  BY Divided, Numbers DEF DayIn, ClockOf
<1>2. 0 * DayLen < d * DayLen + DayLen
  BY <1>1, Numbers
<1>3. 0 <= d
  BY <1>1, <1>2, Between, Numbers
<1> QED BY <1>1, <1>3

\* A moment is of one day and one time.
LEMMA MomentOf ==
    ASSUME NEW d \in Nat, NEW n \in 0 .. DayLen - 1
    PROVE  /\ d * DayLen + n \in Nat
           /\ DayIn(d * DayLen + n) = d /\ ClockOf(d * DayLen + n) = n
<1>1. d * DayLen + n \in Nat
  BY Numbers
<1> QED BY <1>1, DividedOnce, Numbers DEF DayIn, ClockOf

\* The end of a slot is on its day, and a slot after the beginning of a session.
LEMMA SlotEndIs ==
    ASSUME NEW d \in Nat, NEW e \in SlotEnds(d)
    PROVE  /\ e \in Nat /\ DayIn(e) = d /\ e = d * DayLen + ClockOf(e)
           /\ \/ /\ OpenAt + BarSlot <= ClockOf(e) /\ ClockOf(e) <= Noon
                 /\ (ClockOf(e) - OpenAt) % BarSlot = 0
              \/ /\ Resume + BarSlot <= ClockOf(e) /\ ClockOf(e) <= CloseAt
                 /\ (ClockOf(e) - Resume) % BarSlot = 0
<1>1. PICK n \in {n \in OpenAt + 1 .. Noon : (n - OpenAt) % BarSlot = 0}
                 \cup {n \in Resume + 1 .. CloseAt : (n - Resume) % BarSlot = 0} : e = d * DayLen + n
  BY DEF SlotEnds
<1>2. n \in 0 .. DayLen - 1
  BY <1>1, Numbers
<1>3. e \in Nat /\ DayIn(e) = d /\ ClockOf(e) = n
  BY <1>1, <1>2, MomentOf
<1>4. ASSUME NEW m \in Nat, m > 0, m % BarSlot = 0
      PROVE  BarSlot <= m
  <2>1. CASE m < BarSlot
    <3>1. m = 0 * BarSlot + m /\ m \in 0 .. BarSlot - 1
      BY <2>1, Numbers
    <3>2. m % BarSlot = m
      BY <3>1, DividedOnce, Numbers
    <3> QED BY <1>4, <3>2
  <2> QED BY <2>1, Numbers
<1>5. CASE n \in OpenAt + 1 .. Noon /\ (n - OpenAt) % BarSlot = 0
  <2>1. n - OpenAt \in Nat /\ n - OpenAt > 0
    BY <1>5, Numbers
  <2>2. BarSlot <= n - OpenAt
    BY <1>4, <1>5, <2>1
  <2> QED BY <1>1, <1>3, <1>5, <2>2, Numbers
<1>6. CASE n \in Resume + 1 .. CloseAt /\ (n - Resume) % BarSlot = 0
  <2>1. n - Resume \in Nat /\ n - Resume > 0
    BY <1>6, Numbers
  <2>2. BarSlot <= n - Resume
    BY <1>4, <1>6, <2>1
  <2> QED BY <1>1, <1>3, <1>6, <2>2, Numbers
<1> QED BY <1>1, <1>5, <1>6

\* A set of numbers with a bound has a greatest one.
LEMMA GreatestIn ==
    ASSUME NEW X \in SUBSET Int, X # {}, NEW n \in Int, \A x \in X : x <= n
    PROVE  \E x \in X : \A y \in X : y <= x
<1> DEFINE gaps == {n - x : x \in X}
<1>1. gaps \in SUBSET Nat /\ gaps # {}
  <2>1. \A x \in X : x \in Int /\ n - x \in Nat
    OBVIOUS
  <2> QED BY <2>1
<1>2. IsWellFoundedOn(OpToRel(<, Nat), Nat)
  BY NatLessThanWellFounded
<1>3. PICK g \in gaps : \A h \in gaps : ~(<<h, g>> \in OpToRel(<, Nat))
  BY <1>1, <1>2, WFMin
<1>4. PICK x \in X : g = n - x
  BY <1>3
<1>5. \A y \in X : y <= x
  <2> SUFFICES ASSUME NEW y \in X, ~(y <= x) PROVE FALSE
    OBVIOUS
  <2>1. n - y \in gaps /\ n - y \in Nat /\ g \in Nat /\ n - y < g
    BY <1>1, <1>4
  <2>2. <<n - y, g>> \in OpToRel(<, Nat)
    BY <2>1, Zenon DEF OpToRel
  <2> QED BY <1>3, <2>1, <2>2
<1> QED BY <1>5

\* The trading day before is the last one before.
LEMMA PreviousIs ==
    ASSUME NEW t \in Nat, DayIn(t) > 0
    PROVE  /\ PreviousDay(t) \in TradingDay /\ PreviousDay(t) < DayIn(t)
           /\ \A e \in TradingDay : e < DayIn(t) => e <= PreviousDay(t)
<1> DEFINE X == {d \in TradingDay : d < DayIn(t)}
<1>1. DayIn(t) \in Nat
  BY MomentIs
<1>2. 0 \in X /\ \A x \in X : x \in Int /\ x <= DayIn(t)
  BY <1>1, Numbers
<1> HIDE DEF X
<1>3. X \in SUBSET Int /\ X # {} /\ DayIn(t) \in Int
  BY <1>1, <1>2
<1>4. PICK d \in X : \A e \in X : e <= d
  BY <1>2, <1>3, GreatestIn
<1> QED BY <1>4 DEF PreviousDay, X

\* A slot that ends in this or the next one ends on a day up to this one.
LEMMA NotLater ==
    ASSUME NEW t \in Nat, NEW d \in Nat, NEW e \in SlotEnds(d), e <= t + BarSlot
    PROVE  d < DayIn(t) \/ (d = DayIn(t) /\ OpenAt <= ClockOf(t) /\ ClockOf(e) <= ClockOf(t) + BarSlot)
<1>1. /\ e \in Nat /\ e = d * DayLen + ClockOf(e) /\ OpenAt + BarSlot <= ClockOf(e) /\ ClockOf(e) \in Nat
  BY SlotEndIs, MomentIs, Numbers
<1>2. DayIn(t) \in Nat /\ ClockOf(t) \in 0 .. DayLen - 1 /\ t = DayIn(t) * DayLen + ClockOf(t)
  BY MomentIs
<1>3. d * DayLen \in Nat /\ DayIn(t) * DayLen \in Nat
  BY <1>2, Numbers
<1>4. d * DayLen + ClockOf(e) <= DayIn(t) * DayLen + ClockOf(t) + BarSlot
  BY <1>1, <1>2
<1>5. d * DayLen < DayIn(t) * DayLen + DayLen
  BY <1>1, <1>2, <1>3, <1>4, Numbers
<1>6. d <= DayIn(t)
  BY <1>2, <1>5, Between, Numbers
<1>7. CASE d = DayIn(t)
  <2>1. ClockOf(e) <= ClockOf(t) + BarSlot
    BY <1>1, <1>2, <1>3, <1>4, <1>7, Numbers
  <2> QED BY <1>1, <1>2, <1>7, <2>1, Numbers
<1> QED BY <1>2, <1>6, <1>7

\* In a session that began at a, the end of the slot of an hour is the last that a slot
\* may have which is not more than a slot ahead.
LEMMA SlotOf ==
    ASSUME NEW a \in Nat, NEW n \in Nat, a <= n, NEW c \in Nat, a <= c,
           (c - a) % BarSlot = 0, c <= n + BarSlot
    PROVE  c <= a + ((n - a) \div BarSlot + 1) * BarSlot
<1>1. PICK q \in Int, r \in 0 .. BarSlot - 1 : n - a = q * BarSlot + r /\ q = (n - a) \div BarSlot
  <2> SUFFICES ASSUME NEW q, NEW r, q = (n - a) \div BarSlot, r = (n - a) % BarSlot
               PROVE  q \in Int /\ r \in 0 .. BarSlot - 1 /\ n - a = q * BarSlot + r
    OBVIOUS
  <2> QED BY Divided, Numbers
<1>2. PICK k \in Int : c - a = k * BarSlot
  <2> SUFFICES ASSUME NEW k, NEW s, k = (c - a) \div BarSlot, s = (c - a) % BarSlot
               PROVE  k \in Int /\ c - a = k * BarSlot
    OBVIOUS
  <2>1. k \in Int /\ c - a = k * BarSlot + s
    BY Divided, Numbers
  <2>2. k * BarSlot \in Int /\ s = 0
    BY <2>1, Numbers
  <2> QED BY <2>1, <2>2
<1>3. k * BarSlot \in Int /\ q * BarSlot \in Int /\ (q + 1) * BarSlot = q * BarSlot + BarSlot
  BY Numbers
<1>4. k * BarSlot < (q + 1) * BarSlot + BarSlot
  BY <1>1, <1>2, <1>3, Numbers
<1>5. k <= q + 1
  BY <1>4, Between, Numbers
<1>6. k * BarSlot <= (q + 1) * BarSlot
  BY <1>5, Numbers
<1>7. c <= a + (q + 1) * BarSlot
  <2>1. c - a <= (q + 1) * BarSlot /\ (q + 1) * BarSlot \in Int
    BY <1>2, <1>3, <1>6, Numbers
  <2> QED BY <2>1
<1> QED BY <1>1, <1>7

\* The slot of an hour ends after it, and in the session.
LEMMA SlotRange ==
    ASSUME NEW a \in Nat, NEW b \in Nat, (b - a) % BarSlot = 0, NEW n \in Nat, a <= n, n < b
    PROVE  LET x == a + ((n - a) \div BarSlot + 1) * BarSlot
           IN  x \in Nat /\ n < x /\ x <= b
<1> SUFFICES ASSUME NEW q, NEW r, q = (n - a) \div BarSlot, r = (n - a) % BarSlot
             PROVE  LET x == a + (q + 1) * BarSlot IN x \in Nat /\ n < x /\ x <= b
  OBVIOUS
<1>1. q \in Int /\ r \in 0 .. BarSlot - 1 /\ n - a = q * BarSlot + r
  BY Divided, Numbers
<1>2. PICK k \in Int : b - a = k * BarSlot
  <2> SUFFICES ASSUME NEW k, NEW s, k = (b - a) \div BarSlot, s = (b - a) % BarSlot
               PROVE  k \in Int /\ b - a = k * BarSlot
    OBVIOUS
  <2>1. k \in Int /\ b - a = k * BarSlot + s
    BY Divided, Numbers
  <2>2. k * BarSlot \in Int /\ s = 0
    BY <2>1, Numbers
  <2> QED BY <2>1, <2>2
<1>3. k * BarSlot \in Int /\ q * BarSlot \in Int /\ (q + 1) * BarSlot = q * BarSlot + BarSlot
  BY <1>1, Numbers
<1>4. q * BarSlot + r = n - a /\ n - a < k * BarSlot
  BY <1>1, <1>2
<1>5. (q + 1) * BarSlot < k * BarSlot + BarSlot
  BY <1>1, <1>3, <1>4, Numbers
<1>6. q + 1 <= k
  BY <1>1, <1>5, Between, Numbers
<1>7. (q + 1) * BarSlot <= k * BarSlot
  BY <1>1, <1>6, Numbers
<1>8. a + q * BarSlot + BarSlot <= b
  BY <1>2, <1>3, <1>7, Numbers
<1> QED BY <1>1, <1>3, <1>4, <1>8, Numbers

\* The target of a moment: on its day or, before the first session of a day, on the last
\* trading day before; and no slot that may be answered then ends after it.
LEMMA TargetIs ==
    ASSUME NEW t \in Nat, OpenAt <= t
    PROVE  LET plan == Schedule(t) IN
           /\ plan.target \in Nat
           /\ DayIn(plan.target) \in TradingDay
           /\ plan.calibrate => ClockOf(plan.target) = CloseAt
           /\ \A d \in TradingDay : \A e \in SlotEnds(d) : e <= t + BarSlot => e <= plan.target
<1> DEFINE n == ClockOf(t)
           trades == DayIn(t) \in TradingDay /\ n >= OpenAt
           start == IF n < Noon THEN OpenAt ELSE Resume
           onSession == trades /\ (n < Noon \/ (n >= Resume /\ n < CloseAt))
           slot == start + ((n - start) \div BarSlot + 1) * BarSlot
           end == CASE onSession -> slot
                    [] trades /\ n >= Noon /\ n < Resume -> Noon
                    [] OTHER -> CloseAt
           day == IF trades THEN DayIn(t) ELSE PreviousDay(t)
<1>1. /\ Schedule(t).target = day * DayLen + end
      /\ Schedule(t).calibrate <=> (day < DayIn(t) \/ (end = CloseAt /\ n >= CalibrateAt))
  BY DEF Schedule
<1>2. /\ DayIn(t) \in Nat /\ n \in 0 .. DayLen - 1 /\ t = DayIn(t) * DayLen + n
  BY MomentIs
<1>3. ~trades => DayIn(t) > 0
  <2> SUFFICES ASSUME ~trades, ~(DayIn(t) > 0) PROVE FALSE
    OBVIOUS
  <2>1. DayIn(t) = 0
    BY <1>2
  <2>2. t = n
    BY <1>2, <2>1, Numbers
  <2> QED BY <2>1, <2>2, Numbers
<1>4. /\ day \in TradingDay /\ day \in Nat /\ day <= DayIn(t)
      /\ trades => day = DayIn(t)
      /\ ~trades => day < DayIn(t) /\ \A e \in TradingDay : e < DayIn(t) => e <= day
  <2>1. CASE trades
    BY <1>2, <2>1, Numbers
  <2>2. CASE ~trades
    <3>1. /\ PreviousDay(t) \in TradingDay /\ PreviousDay(t) < DayIn(t)
          /\ \A e \in TradingDay : e < DayIn(t) => e <= PreviousDay(t)
      BY <1>3, <2>2, PreviousIs
    <3>2. day = PreviousDay(t) /\ PreviousDay(t) \in Nat
      BY <2>2, <3>1, Numbers
    <3> QED BY <1>2, <2>2, <3>1, <3>2
  <2> QED BY <2>1, <2>2
<1> HIDE DEF n
<1>5. onSession => /\ start \in Nat /\ start <= n /\ slot \in Nat /\ n < slot /\ slot <= CloseAt
                   /\ n < Noon => slot <= Noon
  <2>1. CASE n < Noon
    <3>1. onSession => OpenAt <= n /\ start = OpenAt
      BY <1>2, <2>1
    <3>2. OpenAt <= n => LET x == OpenAt + ((n - OpenAt) \div BarSlot + 1) * BarSlot
                         IN  x \in Nat /\ n < x /\ x <= Noon
      <4>1. n \in Nat /\ n < Noon /\ OpenAt \in Nat /\ Noon \in Nat /\ (Noon - OpenAt) % BarSlot = 0
        BY <1>2, <2>1, Numbers
      <4> QED BY <4>1, SlotRange
    <3> QED BY <1>2, <2>1, <3>1, <3>2, Numbers
  <2>2. CASE ~(n < Noon)
    <3>1. onSession => Resume <= n /\ n < CloseAt /\ start = Resume
      BY <1>2, <2>2, Numbers
    <3>2. Resume <= n /\ n < CloseAt =>
            LET x == Resume + ((n - Resume) \div BarSlot + 1) * BarSlot
            IN  x \in Nat /\ n < x /\ x <= CloseAt
      <4>1. n \in Nat /\ Resume \in Nat /\ CloseAt \in Nat /\ (CloseAt - Resume) % BarSlot = 0
        BY <1>2, Numbers
      <4> QED BY <4>1, SlotRange
    <3> QED BY <1>2, <2>2, <3>1, <3>2, Numbers
  <2> QED BY <2>1, <2>2
<1>6. end \in Nat /\ end \in 1 .. CloseAt /\ (~trades => end = CloseAt)
  BY <1>2, <1>5, Numbers
<1> HIDE DEF slot
<1>7. end \in 0 .. DayLen - 1 /\ day * DayLen \in Nat
  BY <1>4, <1>6, Numbers
<1>8. /\ Schedule(t).target \in Nat
      /\ DayIn(Schedule(t).target) = day /\ ClockOf(Schedule(t).target) = end
  BY <1>1, <1>4, <1>7, MomentOf
<1>9. Schedule(t).calibrate => end = CloseAt
  BY <1>1, <1>2, <1>4, <1>6
<1>10. ASSUME NEW d \in TradingDay, NEW e \in SlotEnds(d), e <= t + BarSlot
       PROVE  e <= day * DayLen + end
  <2>1. /\ d \in Nat /\ e \in Nat /\ e = d * DayLen + ClockOf(e) /\ d * DayLen \in Nat
        /\ ClockOf(e) \in Nat /\ ClockOf(e) <= CloseAt
    BY SlotEndIs, MomentIs, Numbers
  <2>2. d < DayIn(t) \/ (d = DayIn(t) /\ OpenAt <= n /\ ClockOf(e) <= n + BarSlot)
    BY <1>10, <2>1, NotLater DEF n
  <2>3. CASE d < day
    <3>1. d * DayLen + DayLen <= day * DayLen
      <4>1. d + 1 <= day
        BY <1>4, <2>1, <2>3
      <4>2. (d + 1) * DayLen <= day * DayLen
        BY <1>4, <2>1, <4>1, Numbers
      <4>3. (d + 1) * DayLen = d * DayLen + DayLen
        BY <2>1, Numbers
      <4> QED BY <4>2, <4>3
    <3> HIDE DEF end, day
    <3> QED BY <1>6, <1>7, <2>1, <3>1, Numbers
  <2>4. CASE d = day
    <3> SUFFICES ClockOf(e) <= end
      <4> HIDE DEF end, day
      <4> QED BY <1>6, <1>7, <2>1, <2>4
    <3>1. CASE ~trades
      BY <1>6, <2>1, <3>1
    <3>2. CASE trades /\ n >= CloseAt
      BY <1>2, <2>1, <3>2, Numbers
    <3>3. \/ /\ OpenAt + BarSlot <= ClockOf(e) /\ ClockOf(e) <= Noon
             /\ (ClockOf(e) - OpenAt) % BarSlot = 0
          \/ /\ Resume + BarSlot <= ClockOf(e) /\ (ClockOf(e) - Resume) % BarSlot = 0
      BY <2>1, SlotEndIs
    <3>4. CASE trades /\ n < CloseAt
      <4>1. ClockOf(e) <= n + BarSlot
        BY <1>2, <1>4, <2>2, <2>4, <3>4
      <4>2. CASE n >= Noon /\ n < Resume
        BY <1>2, <2>1, <3>3, <3>4, <4>1, <4>2, Numbers
      <4>3. CASE n < Noon
        <5>1. OpenAt <= ClockOf(e) /\ (ClockOf(e) - OpenAt) % BarSlot = 0
          BY <1>2, <2>1, <3>3, <4>1, <4>3, Numbers
        <5>2. ClockOf(e) <= OpenAt + ((n - OpenAt) \div BarSlot + 1) * BarSlot
          <6>1. n \in Nat /\ OpenAt \in Nat /\ OpenAt <= n /\ ClockOf(e) \in Nat
            BY <1>2, <2>1, <3>4, Numbers
          <6> QED BY <4>1, <5>1, <6>1, SlotOf
        <5>3. end = OpenAt + ((n - OpenAt) \div BarSlot + 1) * BarSlot
          <6>1. start = OpenAt /\ end = slot
            BY <1>2, <3>4, <4>3, Numbers
          <6> HIDE DEF start, end
          <6> QED BY <6>1 DEF slot
        <5> QED BY <5>2, <5>3
      <4>4. CASE n >= Resume /\ ClockOf(e) <= Noon
        <5>1. end = slot /\ slot \in Nat /\ n < slot
          BY <1>2, <1>5, <3>4, <4>4, Numbers
        <5> QED BY <1>2, <2>1, <4>4, <5>1, Numbers
      <4>5. CASE n >= Resume /\ Resume <= ClockOf(e) /\ (ClockOf(e) - Resume) % BarSlot = 0
        <5>1. ClockOf(e) <= Resume + ((n - Resume) \div BarSlot + 1) * BarSlot
          <6>1. n \in Nat /\ Resume \in Nat /\ Resume <= n /\ ClockOf(e) \in Nat
            BY <1>2, <2>1, <4>5, Numbers
          <6> QED BY <4>1, <4>5, <6>1, SlotOf
        <5>2. end = Resume + ((n - Resume) \div BarSlot + 1) * BarSlot
          <6>1. start = Resume /\ end = slot
            BY <1>2, <3>4, <4>5, Numbers
          <6> HIDE DEF start, end
          <6> QED BY <6>1 DEF slot
        <5> QED BY <5>1, <5>2
      <4> QED BY <1>2, <2>1, <3>3, <4>2, <4>3, <4>4, <4>5, Numbers
    <3> QED BY <1>2, <3>1, <3>2, <3>4, Numbers
  <2>5. d <= day
    BY <1>4, <2>1, <2>2
  <2> QED BY <1>4, <2>1, <2>3, <2>4, <2>5
<1> HIDE DEF end, day
<1> QED BY <1>1, <1>4, <1>8, <1>9, <1>10

\* The stocks of which an outcome was sent.
Served == {results[i].of : i \in DOMAIN results}

IntradayTyped ==
    /\ wall \in Nat /\ OpenAt <= wall
    /\ DOMAIN minute = MinuteStock /\ minute = [s \in MinuteStock |-> minute[s]]
    /\ \A s \in MinuteStock :
         /\ minute[s].attempt \in Int /\ minute[s].attempt <= wall
         /\ minute[s].fetched \in Int /\ minute[s].fetched <= wall
    /\ mjob = [w \in MinuteWorker |-> mjob[w]]
    /\ \A w \in MinuteWorker : mjob[w].stage \in {"idle", "left", "fetching", "answered"}
    /\ queue \subseteq expected /\ expected \subseteq MinuteStock /\ watched \subseteq MinuteStock
    /\ halted \in BOOLEAN
    /\ results \in Seq([of : MinuteStock, is : {"ok", "fatal", "bad"}])

\* What a worker observes is later than what the last observation of its stock left, and a
\* window that was answered ends at most a slot after the request.
Observed ==
    \A w \in MinuteWorker : Busy(w) =>
        /\ mjob[w].at \in Nat /\ OpenAt <= mjob[w].at /\ mjob[w].at <= wall
        /\ mjob[w].stock \in expected /\ mjob[w].stock \notin queue
        /\ minute[mjob[w].stock].fetched <= mjob[w].at
        /\ mjob[w].stage = "answered" =>
             mjob[w].window \subseteq {e \in AllEnds : e <= mjob[w].at + BarSlot}

\* A stock that is due is in the queue, with one worker, or served, and nowhere twice; none
\* is forgotten unless the round was stopped.
Shared ==
    /\ \A v, w \in MinuteWorker : Busy(v) /\ Busy(w) /\ v # w => mjob[v].stock # mjob[w].stock
    /\ Served \subseteq expected \ queue
    /\ \A w \in MinuteWorker : Busy(w) => mjob[w].stock \notin Served
    /\ Cardinality(Served) = Len(results)
    /\ ~ halted => \A s \in expected : \/ s \in queue \/ s \in Served
                                       \/ \E w \in MinuteWorker : Busy(w) /\ mjob[w].stock = s
    /\ ~ halted => \A w \in MinuteWorker : mjob[w].stage = "left" => queue = {}

IntradayInv == IntradayTyped /\ Observed /\ Shared

\* Nobody works yet.
LEMMA IntradayInvInit == IntradayInit => IntradayInv
<1> SUFFICES ASSUME IntradayInit PROVE IntradayInv
  OBVIOUS
<1>1. \A w \in MinuteWorker : mjob[w].stage = "idle"
  BY DEF IntradayInit, Resting
<1>2. Served = {} /\ Len(results) = 0 /\ Cardinality(Served) = 0
  <2>1. results = << >>
    BY DEF IntradayInit
  <2> QED BY <2>1, FS_EmptySet DEF Served
<1>3. IntradayTyped
  <2>1. results \in Seq([of : MinuteStock, is : {"ok", "fatal", "bad"}])
    <3>1. results = << >>
      BY DEF IntradayInit
    <3> QED BY <3>1
  <2>3. wall \in Nat /\ OpenAt <= wall /\ minute = [s \in MinuteStock |-> Untried]
        /\ mjob = [w \in MinuteWorker |-> Resting] /\ queue = {} /\ expected = {}
        /\ watched \subseteq MinuteStock /\ halted = FALSE
    BY Numbers DEF IntradayInit
  <2>2. \A s \in MinuteStock : minute[s].attempt = -1 /\ minute[s].fetched = -1
    BY DEF IntradayInit, Untried, Never
  <2>4. minute = [s \in MinuteStock |-> minute[s]] /\ DOMAIN minute = MinuteStock
        /\ mjob = [w \in MinuteWorker |-> mjob[w]]
    BY <2>3
  <2>5. \A s \in MinuteStock : /\ minute[s].attempt \in Int /\ minute[s].attempt <= wall
                             /\ minute[s].fetched \in Int /\ minute[s].fetched <= wall
    BY <2>2, <2>3
  <2>6. \A w \in MinuteWorker : mjob[w].stage \in {"idle", "left", "fetching", "answered"}
    BY <1>1
  <2> QED BY <2>1, <2>3, <2>4, <2>5, <2>6 DEF IntradayTyped
<1> QED BY <1>1, <1>2, <1>3 DEF IntradayInv, Observed, Shared, Busy, IntradayInit

\* An outcome is appended.
LEMMA Sent ==
    ASSUME IntradayInv, NEW w \in MinuteWorker, Busy(w), NEW verdict, Send(w, verdict)
    PROVE  /\ Served' = Served \cup {mjob[w].stock}
           /\ Cardinality(Served') = Len(results') /\ Len(results') = Len(results) + 1
           /\ results' \in Seq([of : MinuteStock, is : {"ok", "fatal", "bad"}])
<1> DEFINE said == [of |-> mjob[w].stock, is |-> IF verdict \in {"ok", "fatal"} THEN verdict ELSE "bad"]
<1>1. results' = Append(results, said)
  BY DEF Send
<1>2. results \in Seq([of : MinuteStock, is : {"ok", "fatal", "bad"}])
  BY DEF IntradayInv, IntradayTyped
<1>3. said \in [of : MinuteStock, is : {"ok", "fatal", "bad"}] /\ said.of = mjob[w].stock
  BY DEF IntradayInv, IntradayTyped, Observed
<1> HIDE DEF said
<1>4. PICK n \in Nat : n = Len(results) /\ DOMAIN results = 1 .. n
  BY <1>2, LenProperties
<1>5. /\ results' \in Seq([of : MinuteStock, is : {"ok", "fatal", "bad"}])
      /\ Len(results') = n + 1 /\ \A i \in 1 .. n : results'[i] = results[i]
      /\ results'[n + 1] = said /\ DOMAIN results' = 1 .. n + 1
  <2>1. /\ Append(results, said) \in Seq([of : MinuteStock, is : {"ok", "fatal", "bad"}])
        /\ Len(Append(results, said)) = Len(results) + 1
        /\ \A i \in 1 .. Len(results) : Append(results, said)[i] = results[i]
        /\ Append(results, said)[Len(results) + 1] = said
    BY <1>2, <1>3, AppendProperties
  <2> QED BY <1>1, <1>4, <2>1, LenProperties
<1>6. Served' = Served \cup {mjob[w].stock}
  <2>1. \A i \in DOMAIN results' : i \in 1 .. n \/ i = n + 1
    BY <1>5
  <2>2. 1 .. n \subseteq DOMAIN results' /\ n + 1 \in DOMAIN results'
    BY <1>5
  <2>3. \A i \in 1 .. n : results'[i].of = results[i].of
    BY <1>5
  <2>4. results'[n + 1].of = mjob[w].stock
    BY <1>3, <1>5
  <2> QED BY <1>4, <2>1, <2>2, <2>3, <2>4 DEF Served
<1>7. IsFiniteSet(Served) /\ mjob[w].stock \notin Served
  <2>1. IsFiniteSet(MinuteStock) /\ Served \subseteq MinuteStock
    BY IntradayAssumption DEF IntradayInv, IntradayTyped, Shared
  <2> QED BY <2>1, FS_Subset DEF IntradayInv, Shared
<1>8. Cardinality(Served \cup {mjob[w].stock}) = Cardinality(Served) + 1
  BY <1>7, FS_AddElement
<1>9. Cardinality(Served) = n
  BY <1>4 DEF IntradayInv, Shared
<1> QED BY <1>4, <1>5, <1>6, <1>8, <1>9

\* The worker that sent its outcome holds no stock afterwards; the others keep theirs.
LEMMA SentKeeps ==
    ASSUME IntradayInv, NEW w \in MinuteWorker, Busy(w), NEW verdict, Send(w, verdict)
    PROVE  /\ \A v \in MinuteWorker : v # w => mjob'[v] = mjob[v]
           /\ mjob' = [v \in MinuteWorker |-> mjob'[v]]
           /\ mjob'[w].stage \in {"idle", "left"} /\ (mjob'[w].stage = "left" => halted')
           /\ Shared'
<1>1. /\ \A v \in MinuteWorker : v # w => mjob'[v] = mjob[v]
      /\ mjob' = [v \in MinuteWorker |-> mjob'[v]]
      /\ mjob'[w].stage = IF verdict = "fatal" THEN "left" ELSE "idle"
      /\ halted' = (halted \/ verdict = "fatal") /\ halted \in BOOLEAN
      /\ queue' = queue /\ expected' = expected
  BY DEF Send, IntradayInv, IntradayTyped, Resting
<1>2. ~ Busy(w)' /\ \A v \in MinuteWorker : v # w => (Busy(v)' <=> Busy(v))
  BY <1>1 DEF Busy
<1>3. /\ Served' = Served \cup {mjob[w].stock} /\ Cardinality(Served') = Len(results')
  BY Sent
<1>4. /\ Served' \subseteq expected \ queue
      /\ \A v \in MinuteWorker : v # w /\ Busy(v) => mjob[v].stock \notin Served'
      /\ ~ halted => \A s \in expected :
           \/ s \in queue \/ s \in Served'
           \/ \E v \in MinuteWorker : v # w /\ Busy(v) /\ mjob[v].stock = s
  BY <1>3 DEF IntradayInv, Shared, Observed
<1>5. Shared'
  <2>1. \A u, v \in MinuteWorker : Busy(u)' /\ Busy(v)' /\ u # v => mjob'[u].stock # mjob'[v].stock
    BY <1>1, <1>2 DEF IntradayInv, Shared
  <2>2. \A v \in MinuteWorker : Busy(v)' => mjob'[v].stock \notin Served'
    BY <1>1, <1>2, <1>4
  <2>3. ~ halted' => \A s \in expected' :
           \/ s \in queue' \/ s \in Served'
           \/ \E v \in MinuteWorker : Busy(v)' /\ mjob'[v].stock = s
    BY <1>1, <1>2, <1>4
  <2>4. ~ halted' => \A v \in MinuteWorker : mjob'[v].stage = "left" => queue' = {}
    BY <1>1 DEF IntradayInv, Shared
  <2> QED BY <1>1, <1>3, <1>4, <2>1, <2>2, <2>3, <2>4 DEF Shared
<1> QED BY <1>1, <1>5

\* What an outcome leaves of the other parts, when the record of the stock was kept or is the
\* worker's observation.
LEMMA SentInv ==
    ASSUME IntradayInv, NEW w \in MinuteWorker, Busy(w), NEW verdict, Send(w, verdict),
           DOMAIN minute' = MinuteStock, minute' = [s \in MinuteStock |-> minute'[s]],
           \A s \in MinuteStock : s # mjob[w].stock => minute'[s] = minute[s],
           LET m == minute'[mjob[w].stock]
           IN  m.attempt \in Int /\ m.attempt <= wall /\ m.fetched \in Int /\ m.fetched <= wall
    PROVE  IntradayInv'
<1>1. /\ \A v \in MinuteWorker : v # w => mjob'[v] = mjob[v]
      /\ mjob' = [v \in MinuteWorker |-> mjob'[v]]
      /\ mjob'[w].stage \in {"idle", "left"}
      /\ Shared'
  BY SentKeeps
<1>2. wall' = wall /\ queue' = queue /\ expected' = expected /\ watched' = watched /\ halted' \in BOOLEAN
  BY DEF Send, IntradayInv, IntradayTyped
<1>3. IntradayTyped'
  <2>1. results' \in Seq([of : MinuteStock, is : {"ok", "fatal", "bad"}])
    BY Sent
  <2>2. \A s \in MinuteStock :
         /\ minute'[s].attempt \in Int /\ minute'[s].attempt <= wall
         /\ minute'[s].fetched \in Int /\ minute'[s].fetched <= wall
    BY DEF IntradayInv, IntradayTyped
  <2>3. \A v \in MinuteWorker : mjob'[v].stage \in {"idle", "left", "fetching", "answered"}
    BY <1>1 DEF IntradayInv, IntradayTyped
  <2> QED BY <1>1, <1>2, <2>1, <2>2, <2>3 DEF IntradayInv, IntradayTyped
<1>4. Observed'
  <2> SUFFICES ASSUME NEW v \in MinuteWorker, Busy(v)'
               PROVE  /\ mjob'[v].at \in Nat /\ OpenAt <= mjob'[v].at /\ mjob'[v].at <= wall'
                      /\ mjob'[v].stock \in expected' /\ mjob'[v].stock \notin queue'
                      /\ minute'[mjob'[v].stock].fetched <= mjob'[v].at
                      /\ mjob'[v].stage = "answered" =>
                           mjob'[v].window \subseteq {e \in AllEnds : e <= mjob'[v].at + BarSlot}
    BY DEF Observed
  <2>1. v # w /\ mjob'[v] = mjob[v] /\ Busy(v)
    BY <1>1 DEF Busy
  <2>2. mjob[v].stock # mjob[w].stock /\ mjob[v].stock \in MinuteStock
    BY <2>1 DEF IntradayInv, Shared, Observed, IntradayTyped
  <2>3. minute'[mjob[v].stock] = minute[mjob[v].stock]
    BY <2>2
  <2> QED BY <1>2, <2>1, <2>3 DEF IntradayInv, Observed
<1> QED BY <1>1, <1>3, <1>4 DEF IntradayInv

\* Every step keeps the invariant.
LEMMA IntradayInvNext == IntradayInv /\ [IntradayNext]_minuteVars => IntradayInv'
<1> SUFFICES ASSUME IntradayInv, [IntradayNext]_minuteVars PROVE IntradayInv'
  OBVIOUS
<1>1. CASE StartRound
  <2>1. /\ expected' \subseteq watched /\ queue' = expected'
        /\ mjob' = [w \in MinuteWorker |-> Resting]
        /\ results' = << >> /\ halted' = FALSE
        /\ wall' = wall /\ minute' = minute /\ watched' = watched
    BY <1>1 DEF StartRound
  <2>2. \A w \in MinuteWorker : mjob'[w].stage = "idle"
    BY <2>1 DEF Resting
  <2>3. Served' = {} /\ Len(results') = 0 /\ Cardinality(Served') = 0
    BY <2>1, FS_EmptySet DEF Served
  <2>4. results' \in Seq([of : MinuteStock, is : {"ok", "fatal", "bad"}])
    BY <2>1
  <2>5. IntradayTyped'
    <3>1. mjob' = [w \in MinuteWorker |-> mjob'[w]]
      BY <2>1
    <3> QED BY <2>1, <2>2, <2>4, <3>1 DEF IntradayInv, IntradayTyped
  <2>6. Observed' /\ Shared'
    BY <2>1, <2>2, <2>3 DEF Observed, Shared, Busy
  <2> QED BY <2>5, <2>6 DEF IntradayInv
<1>2. ASSUME NEW w \in MinuteWorker, TakeJob(w) PROVE IntradayInv'
  <2>1. /\ wall' = wall /\ minute' = minute /\ watched' = watched /\ expected' = expected
        /\ results' = results /\ halted' = halted /\ Served' = Served
        /\ mjob[w].stage = "idle" /\ mjob' = [v \in MinuteWorker |-> mjob'[v]]
        /\ \A v \in MinuteWorker : v # w => mjob'[v] = mjob[v]
    BY <1>2 DEF TakeJob, Served, IntradayInv, IntradayTyped
  <2>2. \A v \in MinuteWorker : v # w => (Busy(v)' <=> Busy(v))
    BY <2>1 DEF Busy
  <2>3. CASE queue' \subseteq queue /\ mjob'[w].stage = "left" /\ (halted \/ (queue = {} /\ queue' = queue))
    <3>1. ~ Busy(w)' /\ ~ Busy(w)
      BY <2>1, <2>3 DEF Busy
    <3>2. IntradayTyped'
      BY <2>1, <2>3 DEF IntradayInv, IntradayTyped
    <3>3. Observed'
      BY <2>1, <2>2, <2>3, <3>1 DEF IntradayInv, Observed
    <3>4. Shared'
      BY <2>1, <2>2, <2>3, <3>1 DEF IntradayInv, Shared
    <3> QED BY <3>2, <3>3, <3>4 DEF IntradayInv
  <2>4. ASSUME NEW s \in queue, queue' = queue \ {s}, ~ halted,
               mjob'[w] = [stage |-> "fetching", stock |-> s, at |-> wall, count |-> WindowOf(s, wall)]
        PROVE  IntradayInv'
    <3>1. /\ mjob'[w].stage = "fetching" /\ mjob'[w].stock = s /\ mjob'[w].at = wall
          /\ Busy(w)' /\ ~ Busy(w)
      BY <2>1, <2>4 DEF Busy
    <3>2. s \in expected /\ s \in MinuteStock
      BY <2>4 DEF IntradayInv, IntradayTyped
    <3>3. IntradayTyped'
      BY <2>1, <2>4, <3>1 DEF IntradayInv, IntradayTyped
    <3>4. Observed'
      <4>1. wall \in Nat /\ OpenAt <= wall /\ minute[s].fetched <= wall
        BY <3>2 DEF IntradayInv, IntradayTyped
      <4> QED BY <2>1, <2>2, <2>4, <3>1, <3>2, <4>1 DEF IntradayInv, Observed
    <3>5. Shared'
      <4>1. \A v \in MinuteWorker : Busy(v) => mjob[v].stock # s
        BY DEF IntradayInv, Observed
      <4>2. s \notin Served
        BY DEF IntradayInv, Shared
      <4>3. \A u, v \in MinuteWorker : Busy(u)' /\ Busy(v)' /\ u # v => mjob'[u].stock # mjob'[v].stock
        BY <2>1, <2>2, <3>1, <4>1 DEF IntradayInv, Shared
      <4>4. \A v \in MinuteWorker : Busy(v)' => mjob'[v].stock \notin Served'
        BY <2>1, <2>2, <3>1, <4>2 DEF IntradayInv, Shared
      <4>5. \A x \in expected : \/ x \in queue' \/ x \in Served
                                \/ \E v \in MinuteWorker : Busy(v)' /\ mjob'[v].stock = x
        <5> SUFFICES ASSUME NEW x \in expected, x \notin queue', x \notin Served
                     PROVE  \E v \in MinuteWorker : Busy(v)' /\ mjob'[v].stock = x
          OBVIOUS
        <5>1. CASE x = s
          BY <3>1, <5>1
        <5>2. CASE x # s
          <6>1. PICK v \in MinuteWorker : Busy(v) /\ mjob[v].stock = x
            BY <2>4, <5>2 DEF IntradayInv, Shared
          <6> QED BY <2>1, <2>2, <3>1, <6>1
        <5> QED BY <5>1, <5>2
      <4>6. \A v \in MinuteWorker : mjob'[v].stage = "left" => queue' = {}
        BY <2>1, <2>4, <3>1 DEF IntradayInv, Shared
      <4> QED BY <2>1, <2>4, <4>2, <4>3, <4>4, <4>5, <4>6 DEF IntradayInv, Shared
    <3> QED BY <3>3, <3>4, <3>5 DEF IntradayInv
  <2>5. CASE queue = {} /\ mjob' = [mjob EXCEPT ![w] = [stage |-> "left"]] /\ queue' = queue
    <3>1. mjob'[w].stage = "left"
      BY <2>5 DEF IntradayInv, IntradayTyped
    <3> QED BY <2>3, <2>5, <3>1
  <2>6. ASSUME NEW s \in queue, queue' = queue \ {s},
               mjob' = [mjob EXCEPT ![w] =
                 IF halted THEN [stage |-> "left"]
                 ELSE [stage |-> "fetching", stock |-> s, at |-> wall, count |-> WindowOf(s, wall)]]
        PROVE  IntradayInv'
    <3>1. mjob'[w] = IF halted THEN [stage |-> "left"]
                     ELSE [stage |-> "fetching", stock |-> s, at |-> wall, count |-> WindowOf(s, wall)]
      BY <2>6 DEF IntradayInv, IntradayTyped
    <3>2. CASE halted
      BY <2>3, <2>6, <3>1, <3>2
    <3>3. CASE ~ halted
      BY <2>4, <2>6, <3>1, <3>3
    <3> QED BY <3>2, <3>3
  <2> QED BY <1>2, <2>5, <2>6 DEF TakeJob
<1>3. ASSUME NEW w \in MinuteWorker, EndFetch(w) PROVE IntradayInv'
  <2>1. PICK win \in Windows(mjob[w].at, mjob[w].count) \cup {{}} :
          mjob' = [mjob EXCEPT ![w] =
            [stage |-> "answered", stock |-> mjob[w].stock, at |-> mjob[w].at,
             window |-> win, cancelled |-> halted]]
    BY <1>3 DEF EndFetch
  <2>2. /\ wall' = wall /\ minute' = minute /\ watched' = watched /\ expected' = expected
        /\ results' = results /\ halted' = halted /\ Served' = Served /\ queue' = queue
        /\ mjob[w].stage = "fetching" /\ mjob' = [v \in MinuteWorker |-> mjob'[v]]
        /\ \A v \in MinuteWorker : v # w => mjob'[v] = mjob[v]
        /\ mjob'[w].stage = "answered" /\ mjob'[w].stock = mjob[w].stock
        /\ mjob'[w].at = mjob[w].at /\ mjob'[w].window = win
    BY <1>3, <2>1 DEF EndFetch, Served, IntradayInv, IntradayTyped
  <2>3. /\ \A v \in MinuteWorker : Busy(v)' <=> Busy(v)
        /\ \A v \in MinuteWorker : Busy(v) => mjob'[v].stock = mjob[v].stock /\ mjob'[v].at = mjob[v].at
        /\ \A v \in MinuteWorker : (mjob'[v].stage = "left") = (mjob[v].stage = "left")
        /\ Busy(w)
    BY <2>2 DEF Busy
  <2>4. win \subseteq {e \in AllEnds : e <= mjob[w].at + BarSlot}
    BY DEF Windows
  <2>5. IntradayTyped'
    BY <2>2 DEF IntradayInv, IntradayTyped
  <2>6. Observed'
    BY <2>2, <2>3, <2>4 DEF IntradayInv, Observed
  <2>7. Shared'
    BY <2>2, <2>3 DEF IntradayInv, Shared
  <2> QED BY <2>5, <2>6, <2>7 DEF IntradayInv
<1>4. ASSUME NEW w \in MinuteWorker, SaveMinutes(w) PROVE IntradayInv'
  <2> DEFINE s == mjob[w].stock
             t == mjob[w].at
             plan == Schedule(t)
             missed == mjob[w].window = {}
             is == IF missed THEN "failed" ELSE Verdict(mjob[w].window, t)
             calibrates == ~ missed /\ plan.calibrate /\ is = "ok" /\ LastOf(mjob[w].window) <= t
  <2>1. /\ Busy(w) /\ Send(w, is)
        /\ minute' = [minute EXCEPT ![s] =
             [target |-> plan.target, attempt |-> wall,
              fetched |-> IF missed THEN @.fetched ELSE t, status |-> is,
              calibrated |-> IF calibrates THEN DayIn(plan.target) ELSE @.calibrated]]
    BY <1>4 DEF SaveMinutes, Busy
  <2> HIDE DEF is, calibrates, plan
  <2>2. s \in MinuteStock /\ t \in Nat /\ t <= wall
    BY <2>1 DEF IntradayInv, Observed, IntradayTyped
  <2>3. /\ DOMAIN minute' = MinuteStock /\ minute' = [r \in MinuteStock |-> minute'[r]]
        /\ \A r \in MinuteStock : r # s => minute'[r] = minute[r]
        /\ minute'[s].attempt = wall
        /\ minute'[s].fetched = IF missed THEN minute[s].fetched ELSE t
    BY <2>1, <2>2 DEF IntradayInv, IntradayTyped
  <2>4. /\ minute'[s].attempt \in Int /\ minute'[s].attempt <= wall
        /\ minute'[s].fetched \in Int /\ minute'[s].fetched <= wall
    BY <2>2, <2>3 DEF IntradayInv, IntradayTyped
  <2> QED BY <2>1, <2>3, <2>4, SentInv
<1>5. ASSUME NEW w \in MinuteWorker, SaveFails(w) PROVE IntradayInv'
  <2>1. Busy(w) /\ Send(w, "fatal") /\ minute' = minute
    BY <1>5 DEF SaveFails, Busy
  <2>2. mjob[w].stock \in MinuteStock
    BY <2>1 DEF IntradayInv, Observed, IntradayTyped
  <2>3. /\ DOMAIN minute' = MinuteStock /\ minute' = [r \in MinuteStock |-> minute'[r]]
        /\ \A r \in MinuteStock : r # mjob[w].stock => minute'[r] = minute[r]
        /\ LET m == minute'[mjob[w].stock]
           IN  m.attempt \in Int /\ m.attempt <= wall /\ m.fetched \in Int /\ m.fetched <= wall
    BY <2>1, <2>2 DEF IntradayInv, IntradayTyped
  <2> QED BY <2>1, <2>3, SentInv
<1>6. CASE CollectRound
  <2>1. /\ expected' = {} /\ queue' = {}
        /\ mjob' = [w \in MinuteWorker |-> Resting]
        /\ results' = << >> /\ halted' = FALSE
        /\ wall' = wall /\ minute' = minute /\ watched' = watched
    BY <1>6 DEF CollectRound
  <2>2. \A w \in MinuteWorker : mjob'[w].stage = "idle"
    BY <2>1 DEF Resting
  <2>3. Served' = {} /\ Len(results') = 0 /\ Cardinality(Served') = 0
    BY <2>1, FS_EmptySet DEF Served
  <2>4. results' \in Seq([of : MinuteStock, is : {"ok", "fatal", "bad"}])
    BY <2>1
  <2>5. IntradayTyped'
    <3>1. mjob' = [w \in MinuteWorker |-> mjob'[w]]
      BY <2>1
    <3> QED BY <2>1, <2>2, <2>4, <3>1 DEF IntradayInv, IntradayTyped
  <2>6. Observed' /\ Shared'
    BY <2>1, <2>2, <2>3 DEF Observed, Shared, Busy
  <2> QED BY <2>5, <2>6 DEF IntradayInv
<1>7. CASE StopMonitor
  BY <1>7 DEF StopMonitor, IntradayInv, IntradayTyped, Observed, Shared, Served, Busy
<1>8. CASE ClockTicks
  <2>1. /\ wall' = wall + 1 /\ minute' = minute /\ watched' = watched /\ expected' = expected
        /\ results' = results /\ halted' = halted /\ queue' = queue /\ mjob' = mjob
    BY <1>8 DEF ClockTicks, cycleVars
  <2>2. IntradayTyped'
    <3>1. wall' \in Nat /\ wall <= wall' /\ wall \in Nat /\ OpenAt <= wall'
      BY <2>1, Numbers DEF IntradayInv, IntradayTyped
    <3>2. \A s \in MinuteStock : minute'[s].attempt <= wall' /\ minute'[s].fetched <= wall'
      BY <2>1, <3>1 DEF IntradayInv, IntradayTyped
    <3> QED BY <2>1, <3>1, <3>2 DEF IntradayInv, IntradayTyped
  <2>3. Observed'
    <3>1. \A w \in MinuteWorker : Busy(w) => mjob[w].at <= wall'
      BY <2>1 DEF IntradayInv, IntradayTyped, Observed
    <3> QED BY <2>1, <3>1 DEF IntradayInv, Observed, Busy
  <2>4. Shared'
    BY <2>1 DEF IntradayInv, Shared, Served, Busy
  <2> QED BY <2>2, <2>3, <2>4 DEF IntradayInv
<1>9. CASE UNCHANGED minuteVars
  BY <1>9 DEF minuteVars, cycleVars, IntradayInv, IntradayTyped, Observed, Shared, Served, Busy
<1> QED BY <1>1, <1>2, <1>3, <1>4, <1>5, <1>6, <1>7, <1>8, <1>9 DEF IntradayNext

\* The last bar of a window.
LEMMA LastIs ==
    ASSUME NEW win \in SUBSET Int, win # {}, NEW n \in Int, \A e \in win : e <= n
    PROVE  LastOf(win) \in win /\ \A e \in win : e <= LastOf(win)
<1>1. PICK e \in win : \A f \in win : f <= e
  BY GreatestIn
<1> QED BY <1>1 DEF LastOf

\* What SaveMinutes checks of a window holds of every window of an observation: the last bar
\* is not after the target, and the bars of a day that is calibrated are all there and over.
LEMMA WindowFits ==
    ASSUME IntradayInv, NEW w \in MinuteWorker, mjob[w].stage = "answered", mjob[w].window # {}
    PROVE  LET win == mjob[w].window
               plan == Schedule(mjob[w].at)
           IN  ~ Refused(mjob[w].stock, win, mjob[w].at,
                   plan.calibrate /\ Verdict(win, mjob[w].at) = "ok" /\ LastOf(win) <= mjob[w].at)
<1> SUFFICES ASSUME NEW win, win = mjob[w].window, NEW t, t = mjob[w].at,
                    NEW s, s = mjob[w].stock, NEW target, target = Schedule(t).target,
                    NEW calibrates,
                    calibrates = (Schedule(t).calibrate /\ Verdict(win, t) = "ok" /\ LastOf(win) <= t)
             PROVE  ~ Refused(s, win, t, calibrates)
  OBVIOUS
<1>1. /\ t \in Nat /\ OpenAt <= t /\ win # {}
      /\ \A e \in win : \E d \in TradingDay : e \in SlotEnds(d) /\ e <= t + BarSlot
      /\ s \in MinuteStock /\ minute[s].fetched \in Int /\ minute[s].fetched <= t
      /\ minute[s].attempt \in Int /\ minute[s].attempt <= wall /\ wall \in Nat
  BY DEF IntradayInv, IntradayTyped, Observed, Busy, AllEnds
<1>2. /\ target \in Nat /\ DayIn(target) \in TradingDay
      /\ Schedule(t).calibrate => ClockOf(target) = CloseAt
      /\ \A d \in TradingDay : \A e \in SlotEnds(d) : e <= t + BarSlot => e <= target
  BY <1>1, TargetIs
<1>3. \A e \in win : e \in Int /\ e <= target /\ e <= t + BarSlot /\ e \in SlotEnds(DayIn(e))
  <2> SUFFICES ASSUME NEW e \in win
               PROVE  e \in Int /\ e <= target /\ e <= t + BarSlot /\ e \in SlotEnds(DayIn(e))
    OBVIOUS
  <2>1. PICK d \in TradingDay : e \in SlotEnds(d) /\ e <= t + BarSlot
    BY <1>1
  <2>2. d \in Nat
    BY Numbers
  <2>3. e \in Nat /\ DayIn(e) = d
    BY <2>1, <2>2, SlotEndIs
  <2> QED BY <1>2, <2>1, <2>3
<1>4. LastOf(win) \in win /\ \A e \in win : e <= LastOf(win)
  <2>1. win \in SUBSET Int
    BY <1>3
  <2>2. target \in Int /\ \A e \in win : e <= target
    BY <1>2, <1>3
  <2> QED BY <1>1, <2>1, <2>2, LastIs
<1>5. ~(LastOf(win) > target)
  BY <1>2, <1>3, <1>4
<1>6. ASSUME calibrates
      PROVE  {e \in win : DayIn(e) = DayIn(target) /\ e <= t} = SlotEnds(DayIn(target))
  <2>1. Schedule(t).calibrate /\ Verdict(win, t) = "ok" /\ LastOf(win) <= t
    BY <1>6
  <2>2. CompleteDay(win, target)
    BY <2>1 DEF Verdict
  <2>3. target = DayIn(target) * DayLen + CloseAt /\ DayIn(target) \in Nat
    BY <1>2, <2>1, MomentIs
  <2>4. ASSUME NEW e \in SlotEnds(DayIn(target))
        PROVE  e \in win /\ DayIn(e) = DayIn(target) /\ e <= t
    <3>1. e \in Nat /\ DayIn(e) = DayIn(target) /\ e = DayIn(target) * DayLen + ClockOf(e)
      BY <2>3, <2>4, SlotEndIs
    <3>2. ClockOf(e) \in Int /\ ClockOf(e) <= CloseAt
      <4>1. ClockOf(e) \in 0 .. DayLen - 1
        BY <3>1, MomentIs
      <4>2. ClockOf(e) <= Noon \/ ClockOf(e) <= CloseAt
        BY <2>3, <2>4, SlotEndIs
      <4> QED BY <4>1, <4>2, Numbers
    <3>3. DayIn(target) * DayLen \in Nat
      BY <2>3, Numbers
    <3>4. e <= target
      BY <2>3, <3>1, <3>2, <3>3, Numbers
    <3>5. e \in win
      BY <2>2, <2>4, <3>4 DEF CompleteDay
    <3>6. LastOf(win) \in Int /\ e <= LastOf(win) /\ LastOf(win) <= t
      BY <1>3, <1>4, <2>1, <3>5
    <3> QED BY <1>1, <3>1, <3>5, <3>6
  <2>5. \A e \in win : DayIn(e) = DayIn(target) => e \in SlotEnds(DayIn(target))
    BY <1>3
  <2> QED BY <2>4, <2>5
<1>7. calibrates => ClockOf(target) = CloseAt
  BY <1>2
<1> QED BY <1>1, <1>5, <1>6, <1>7 DEF Refused

\* Every worker has room for its outcome, nothing it saves is refused, and a round that was
\* not stopped counts an outcome of every stock that was due.  (monitor.go Sync, syncStock;
\* storage/intraday.go SaveMinutes)
THEOREM RoundComesOutHolds == IntradaySpec => []RoundComesOut
<1>1. IntradayInit => IntradayInv
  BY IntradayInvInit
<1>2. IntradayInv /\ [IntradayNext]_minuteVars => IntradayInv'
  BY IntradayInvNext
<1>3. IntradayInv => RoundComesOut
  <2> SUFFICES ASSUME IntradayInv PROVE RoundComesOut
    OBVIOUS
  <2>1. NothingRefused
    BY WindowFits DEF NothingRefused
  <2>2. IsFiniteSet(expected)
    <3>1. IsFiniteSet(MinuteStock) /\ expected \subseteq MinuteStock
      BY IntradayAssumption DEF IntradayInv, IntradayTyped
    <3> QED BY <3>1, FS_Subset
  <2>3. ASSUME NEW w \in MinuteWorker, mjob[w].stage = "answered" PROVE Len(results) < Room
    <3>1. /\ mjob[w].stock \in expected /\ mjob[w].stock \notin Served /\ Served \subseteq expected
          /\ Cardinality(Served) = Len(results)
      BY <2>3 DEF IntradayInv, Observed, Shared, Busy
    <3>2. IsFiniteSet(Served) /\ Served \cup {mjob[w].stock} \subseteq expected
      BY <2>2, <3>1, FS_Subset
    <3>3. Cardinality(Served \cup {mjob[w].stock}) = Cardinality(Served) + 1
      BY <3>1, <3>2, FS_AddElement
    <3>4. Cardinality(Served \cup {mjob[w].stock}) <= Cardinality(expected)
      BY <2>2, <3>2, FS_Subset
    <3>5. Cardinality(Served) \in Nat /\ Cardinality(expected) \in Nat
      BY <2>2, <3>2, FS_CardinalityType
    <3> QED BY <3>1, <3>3, <3>4, <3>5 DEF Room
  <2>4. ASSUME \A w \in MinuteWorker : mjob[w].stage = "left", ~ halted
        PROVE  Served = expected /\ Len(results) = Cardinality(expected)
    <3>1. PICK w \in MinuteWorker : TRUE
      BY IntradayAssumption
    <3>2. queue = {} /\ \A v \in MinuteWorker : ~ Busy(v)
      BY <2>4, <3>1 DEF IntradayInv, Shared, Busy
    <3>3. Served \subseteq expected /\ expected \subseteq Served /\ Cardinality(Served) = Len(results)
      BY <2>4, <3>2 DEF IntradayInv, Shared
    <3>4. Served = expected
      BY <3>3
    <3> QED BY <3>3, <3>4
  <2> QED BY <2>1, <2>3, <2>4 DEF RoundComesOut, Served
<1> QED BY <1>1, <1>2, <1>3, PTL DEF IntradaySpec

-----------------------------------------------------------------------------
(***************************************************************************)
(* LegacyMigration, for any cards and channels, trading days and files of  *)
(* version 1.                                                              *)
(*                                                                         *)
(* While a date that version 1 delivered could be sent again, the ledger   *)
(* of version 2 has its cards as delivered or lacks them and has others    *)
(* (DeliveredIsKept). A date that waited is still the chain that waits for *)
(* its time (PendingIsKept), and what is queued at a start comes after it. *)
(***************************************************************************)

\* A slot of the old channel.
OnOld(c) == <<c, LegacyChannel>>
Known == {d \in Trades : NextTrade(d) # NoDay}

MigrationTyped ==
    /\ legacy \in LegacyFile
    /\ time \in Nat
    /\ version \in {1, 2} /\ saved \in Ledger /\ memory \in Ledger
    /\ stored \in [Trades -> {"none", "old", "new"}]
    /\ place \in {"down", "start", "read", "synced", "ready"}
    /\ place \in {"read", "synced", "ready"} => version = 2 /\ memory = saved
    /\ place \in {"read", "synced"} => syncing \in Trades
    /\ place = "synced" => syncing \in Known

\* The date that was delivered stands in the ledger while it could be sent again.
DeliveredIsKept ==
    version = 2 =>
        \A c \in Card : AsOf[c] = legacy.last /\ time < ExpiresAt[c] =>
            /\ saved[OnOld(c)].status \in {"absent", "delivered"}
            /\ \E d \in Card : AsOf[d] = legacy.last /\ saved[OnOld(d)].status # "absent"

\* The report that waited waits on: nothing of its chain is delivered, and its first
\* card is blocked or not due before its time.
Waits(p) ==
    /\ \E d \in Card : AsOf[d] = p.asof /\ saved[OnOld(d)].status # "absent"
    /\ \A c \in Card : AsOf[c] = p.asof =>
         /\ saved[OnOld(c)].status # "delivered"
         /\ DependsOn[c] = NoCard =>
              \/ saved[OnOld(c)].status \in {"absent", "blocked"}
              \/ /\ ~p.blocked /\ saved[OnOld(c)].status = "pending"
                 /\ saved[OnOld(c)].next = p.next

PendingIsKept ==
    version = 2 /\ legacy.pending # NoPending /\ (legacy.pending.blocked \/ time < legacy.pending.next)
        => Waits(legacy.pending)

MigrationInv == MigrationTyped /\ DeliveredIsKept /\ PendingIsKept

\* The latest of the sessions of a stretch of days is one of them.
LEMMA LatestIn ==
    ASSUME NEW X \in SUBSET Int, X # {}, NEW n \in Int, \A d \in X : d <= n
    PROVE  Latest(X) \in X
<1>1. PICK d \in X : \A e \in X : e <= d
  BY GreatestIn
<1> QED BY <1>1 DEF Latest

\* The session that is completed is a session of the calendar.
LEMMA CompletedIn ==
    ASSUME NEW t \in Nat, CompletedAt(t) # NoDay
    PROVE  CompletedAt(t) \in Trades
<1> DEFINE from == IF t < CloseOf(DayOf(t)) THEN DayOf(t) - 1 ELSE DayOf(t)
           earlier == {e \in Trades : from - Reach < e /\ e <= from}
<1>1. CompletedAt(t) = Latest(earlier) /\ earlier # {}
  BY DEF CompletedAt
<1>2. from \in Int
  BY DEF DayOf, CloseOf, PartsOfDay
<1>3. earlier \in SUBSET Int /\ earlier \subseteq Trades /\ \A d \in earlier : d <= from
  <2>1. Trades \subseteq Int
    BY CoverageAssumption
  <2> QED BY <2>1
<1> HIDE DEF from, earlier
<1> QED BY <1>1, <1>2, <1>3, LatestIn

\* A card may be sent until the opening of the day after its date.
LEMMA Opens ==
    ASSUME NEW c \in Card, NEW t \in Nat
    PROVE  /\ ExpiresAt[c] \in Nat /\ AsOf[c] \in Nat
           /\ (t < ExpiresAt[c] /\ NextTrade(AsOf[c]) # NoDay) <=> ~TooLate(NextTrade(AsOf[c]), t)
<1>1. ExpiresAt[c] = OpeningOf(NextTrade(AsOf[c])) /\ ExpiresAt[c] \in Nat /\ AsOf[c] \in Nat
  BY CardAssumption, MigrationAssumption
<1>2. ExpiresAt[c] <= t <=> ~(t < ExpiresAt[c])
  BY <1>1
<1> QED BY <1>1, <1>2 DEF TooLate

\* The file of the version before is as that version left it.
LEMMA MigrationInitInv == MigrationInit => MigrationInv
<1> SUFFICES ASSUME MigrationInit PROVE MigrationInv
  OBVIOUS
<1>1. NewLedger \in Ledger
  BY BoundAssumption DEF NewLedger, Absent, Ledger, ChannelState, Status
<1>2. legacy.left \in Nat
  BY LegacyAssumption DEF MigrationInit
<1>3. stored \in [Trades -> {"none", "old", "new"}]
  BY DEF MigrationInit
<1> QED BY <1>1, <1>2, <1>3 DEF MigrationInit, MigrationInv, MigrationTyped, DeliveredIsKept, PendingIsKept

\* Nothing of the file changes, and time may pass.
LEMMA AsideInv ==
    ASSUME MigrationInv, UNCHANGED fileVars, time' \in Nat, time <= time', MigrationTyped'
    PROVE  MigrationInv'
<1>1. legacy' = legacy /\ version' = version /\ saved' = saved
  BY DEF fileVars
<1>2. DeliveredIsKept'
  <2> SUFFICES ASSUME version' = 2, NEW c \in Card, AsOf[c] = legacy'.last, time' < ExpiresAt[c]
               PROVE  /\ saved'[OnOld(c)].status \in {"absent", "delivered"}
                      /\ \E d \in Card : AsOf[d] = legacy'.last /\ saved'[OnOld(d)].status # "absent"
    BY DEF DeliveredIsKept
  <2>1. time < ExpiresAt[c]
    BY Opens DEF MigrationInv, MigrationTyped
  <2> QED BY <1>1, <2>1 DEF MigrationInv, DeliveredIsKept
<1>3. PendingIsKept'
  <2> SUFFICES ASSUME version' = 2, legacy'.pending # NoPending,
                      legacy'.pending.blocked \/ time' < legacy'.pending.next
               PROVE  Waits(legacy.pending)'
    BY DEF PendingIsKept
  <2>1. legacy.pending.next \in Nat
    BY <1>1 , LegacyAssumption DEF MigrationInv, MigrationTyped
  <2>2. Waits(legacy.pending)
    BY <1>1, <2>1 DEF MigrationInv, MigrationTyped, PendingIsKept
  <2> QED BY <1>1, <2>2 DEF Waits
<1> QED BY <1>2, <1>3 DEF MigrationInv

\* The cards of a report are of its date, and there are some.
LEMMA CardsOf ==
    ASSUME NEW d \in Known, NEW id \in {"old", "new"}
    PROVE  /\ \A c \in ReportCards[d][id] : c \in Card /\ AsOf[c] = d
           /\ \E c \in Card : c \in ReportCards[d][id] /\ AsOf[c] = d
           /\ \A c \in Card, ch \in Channel :
                 <<c, ch>> \in SlotsOf(d, id) <=> c \in ReportCards[d][id] /\ ch = LegacyChannel
           /\ \A c \in Card : OnOld(c) \in Slot
<1>1. /\ \A c \in ReportCards[d][id] : c \in Card /\ AsOf[c] = d
      /\ \E c \in Card : c \in ReportCards[d][id] /\ AsOf[c] = d
  BY MigrationAssumption DEF Known
<1>2. \A c \in Card, ch \in Channel :
        <<c, ch>> \in SlotsOf(d, id) <=> c \in ReportCards[d][id] /\ ch = LegacyChannel
  BY DEF SlotsOf
<1>3. \A c \in Card : OnOld(c) \in Slot
  BY MigrationAssumption DEF OnOld, Slot
<1> QED BY <1>1, <1>2, <1>3

\* What migrateLegacy writes of the date that was delivered.
LEMMA DeliveredWritten ==
    ASSUME NEW l \in Ledger, NEW d \in Known, NEW id \in {"old", "new"}
    PROVE  LET m == DeliveredLedger(l, d, id) IN
           /\ m \in Ledger
           /\ \A c \in Card : IF c \in ReportCards[d][id] THEN m[OnOld(c)].status = "delivered"
                              ELSE m[OnOld(c)] = l[OnOld(c)]
<1> DEFINE e == [Fresh EXCEPT !.status = "delivered"]
<1>1. e \in ChannelState /\ e.status = "delivered"
  <2>1. Fresh \in ChannelState
    BY BoundAssumption DEF Fresh, ChannelState, Status, Open
  <2> QED BY <2>1 DEF ChannelState, Status, Terminal
<1> HIDE DEF e
<1>2. DeliveredLedger(l, d, id) = [s \in Slot |-> IF s \in SlotsOf(d, id) THEN e ELSE l[s]]
  BY DEF DeliveredLedger, e
<1>3. DeliveredLedger(l, d, id) \in Ledger
  BY <1>1, <1>2 DEF Ledger
<1>4. \A c \in Card : OnOld(c) \in Slot /\ (OnOld(c) \in SlotsOf(d, id) <=> c \in ReportCards[d][id])
  BY CardsOf, MigrationAssumption DEF OnOld
<1> QED BY <1>1, <1>2, <1>3, <1>4

\* And of the report that waited.
LEMMA PendingWritten ==
    ASSUME NEW l \in Ledger, NEW p, p.asof \in Known, p.attempts \in 0 .. MaxAttempts,
           p.next \in Nat, p.blocked \in BOOLEAN,
           \A c \in Card : AsOf[c] = p.asof => l[OnOld(c)].status = "absent"
    PROVE  LET m == PendingLedger(l, p) IN
           /\ m \in Ledger
           /\ \A c \in Card : AsOf[c] # p.asof => m[OnOld(c)] = l[OnOld(c)]
           /\ \E d \in Card : AsOf[d] = p.asof /\ m[OnOld(d)].status # "absent"
           /\ \A c \in Card : AsOf[c] = p.asof =>
                /\ m[OnOld(c)].status # "delivered"
                /\ DependsOn[c] = NoCard =>
                     \/ m[OnOld(c)].status \in {"absent", "blocked"}
                     \/ /\ ~p.blocked /\ m[OnOld(c)].status = "pending"
                        /\ m[OnOld(c)].next = p.next
<1> DEFINE slots == SlotsOf(p.asof, "old")
           queued == Enqueue(l, slots)
           Root(e) == [e EXCEPT !.attempts = p.attempts, !.next = p.next,
                                !.status = IF p.blocked THEN "blocked" ELSE @]
<1>1. PendingLedger(l, p) = [s \in Slot |-> IF s \in slots /\ ~Dependent(s) THEN Root(queued[s]) ELSE queued[s]]
  BY DEF PendingLedger
<1>2. /\ queued \in Ledger
      /\ \A s \in Slot : queued[s] = IF s \in slots /\ l[s].status = "absent" THEN Fresh ELSE l[s]
  BY BoundAssumption DEF Enqueue, Ledger, Fresh, ChannelState, Status, Open
<1>3. ASSUME NEW e \in ChannelState
      PROVE  /\ Root(e) \in ChannelState
             /\ Root(e).next = p.next
             /\ Root(e).status = IF p.blocked THEN "blocked" ELSE e.status
  BY DEF ChannelState, Status, Terminal
<1>4. \A c \in Card : /\ OnOld(c) \in Slot /\ (OnOld(c) \in slots <=> c \in ReportCards[p.asof]["old"])
                      /\ Dependent(OnOld(c)) <=> DependsOn[c] # NoCard
  BY CardsOf, MigrationAssumption DEF OnOld, Dependent
<1>5. /\ \A c \in ReportCards[p.asof]["old"] : c \in Card /\ AsOf[c] = p.asof
      /\ \E c \in Card : c \in ReportCards[p.asof]["old"]
  BY CardsOf
<1> HIDE DEF Root, queued, slots
<1>6. PendingLedger(l, p) \in Ledger
  BY <1>1, <1>2, <1>3 DEF Ledger
<1>7. \A c \in Card : AsOf[c] # p.asof => PendingLedger(l, p)[OnOld(c)] = l[OnOld(c)]
  BY <1>1, <1>2, <1>4, <1>5
<1>8. ASSUME NEW c \in Card, AsOf[c] = p.asof
      PROVE  LET q == PendingLedger(l, p)[OnOld(c)] IN
             /\ q.status # "delivered"
             /\ c \in ReportCards[p.asof]["old"] => q.status # "absent"
             /\ DependsOn[c] = NoCard =>
                  \/ q.status \in {"absent", "blocked"}
                  \/ ~p.blocked /\ q.status = "pending" /\ q.next = p.next
  <2>1. l[OnOld(c)].status = "absent" /\ Fresh.status = "pending" /\ queued[OnOld(c)] \in ChannelState
    BY <1>2, <1>4, <1>8 DEF Fresh, Ledger
  <2>2. CASE OnOld(c) \in slots /\ DependsOn[c] = NoCard
    <3>1. PendingLedger(l, p)[OnOld(c)] = Root(queued[OnOld(c)]) /\ queued[OnOld(c)] = Fresh
      BY <1>1, <1>2, <1>4, <2>1, <2>2
    <3>2. /\ Root(queued[OnOld(c)]).next = p.next
          /\ Root(queued[OnOld(c)]).status = IF p.blocked THEN "blocked" ELSE "pending"
      BY <1>3, <2>1, <3>1
    <3> QED BY <3>1, <3>2
  <2>3. CASE OnOld(c) \in slots /\ DependsOn[c] # NoCard
    BY <1>1, <1>2, <1>4, <2>1, <2>3
  <2>4. CASE OnOld(c) \notin slots
    BY <1>1, <1>2, <1>4, <2>1, <2>4
  <2> QED BY <2>2, <2>3, <2>4
<1> QED BY <1>5, <1>6, <1>7, <1>8

\* A file of version 1 is taken over with what it delivered and what waits; one of
\* version 2 is read as it is.
LEMMA ReadStateInv == MigrationInv /\ ReadState => MigrationInv'
<1> SUFFICES ASSUME MigrationInv, ReadState PROVE MigrationInv'
  OBVIOUS
<1>1. /\ CompletedAt(time) \in Trades /\ syncing' = CompletedAt(time) /\ place' = "read"
      /\ UNCHANGED <<time, stored, enabled, deaths, told>>
  BY CompletedIn DEF ReadState, MigrationInv, MigrationTyped
<1>2. CASE version = 2 /\ memory' = saved /\ UNCHANGED fileVars
  <2>1. MigrationTyped'
    BY <1>1, <1>2 DEF MigrationInv, MigrationTyped, fileVars
  <2> QED BY <1>1, <1>2, <2>1, AsideInv DEF MigrationInv, MigrationTyped
<1>3. CASE version = 1 /\ Migrates(time) /\ memory' = Migrated(time) /\ saved' = memory'
           /\ version' = 2 /\ UNCHANGED legacy
  <2> DEFINE p == legacy.pending
             l == IF KeepsDelivered(time)
                  THEN DeliveredLedger(NewLedger, legacy.last, stored[legacy.last]) ELSE NewLedger
  <2>1. saved' = IF p = NoPending THEN l ELSE PendingLedger(l, p)
    BY <1>3 DEF Migrated
  <2>2. NewLedger \in Ledger /\ \A c \in Card : NewLedger[OnOld(c)].status = "absent"
    BY BoundAssumption, MigrationAssumption
    DEF NewLedger, Absent, Ledger, ChannelState, Status, OnOld, Slot
  <2>3. KeepsDelivered(time) => legacy.last \in Known /\ stored[legacy.last] \in {"old", "new"}
    BY <1>3, LegacyAssumption DEF Migrates, KeepsDelivered, Known, MigrationInv, MigrationTyped
  <2>4. /\ l \in Ledger
        /\ \A c \in Card : AsOf[c] # legacy.last => l[OnOld(c)].status = "absent"
        /\ \A c \in Card : l[OnOld(c)].status \in {"absent", "delivered"}
        /\ KeepsDelivered(time) => \E d \in Card : AsOf[d] = legacy.last /\ l[OnOld(d)].status # "absent"
    <3>1. CASE KeepsDelivered(time)
      <4> DEFINE d == legacy.last
                 id == stored[legacy.last]
      <4>1. d \in Known /\ id \in {"old", "new"} /\ l = DeliveredLedger(NewLedger, d, id)
        BY <2>3, <3>1
      <4> HIDE DEF d, id, l
      <4>2. /\ l \in Ledger
            /\ \A c \in Card : IF c \in ReportCards[d][id] THEN l[OnOld(c)].status = "delivered"
                               ELSE l[OnOld(c)] = NewLedger[OnOld(c)]
        BY <2>2, <4>1, DeliveredWritten
      <4>3. /\ \A c \in ReportCards[d][id] : c \in Card /\ AsOf[c] = d
            /\ \E c \in Card : c \in ReportCards[d][id] /\ AsOf[c] = d
        BY <4>1, CardsOf
      <4>4. d = legacy.last
        BY DEF d
      <4> QED BY <2>2, <4>2, <4>3, <4>4
    <3>2. CASE ~KeepsDelivered(time)
      BY <2>2, <3>2
    <3> QED BY <3>1, <3>2
  <2>5. p # NoPending => /\ p.asof \in Known /\ p.asof # legacy.last /\ p.attempts \in 0 .. MaxAttempts
                         /\ p.next \in Nat /\ p.blocked \in BOOLEAN
    BY <1>3, LegacyAssumption DEF Migrates, Known, MigrationInv, MigrationTyped
  <2> HIDE DEF l
  <2>6. p # NoPending =>
          /\ saved' \in Ledger
          /\ \A c \in Card : AsOf[c] # p.asof => saved'[OnOld(c)] = l[OnOld(c)]
          /\ Waits(p)'
    <3> SUFFICES ASSUME p # NoPending
                 PROVE  /\ saved' \in Ledger
                        /\ \A c \in Card : AsOf[c] # p.asof => saved'[OnOld(c)] = l[OnOld(c)]
                        /\ Waits(p)'
      OBVIOUS
    <3>1. saved' = PendingLedger(l, p)
      BY <2>1
    <3>2. \A c \in Card : AsOf[c] = p.asof => l[OnOld(c)].status = "absent"
      BY <2>4, <2>5
    <3>3. Waits(p)' <=>
           /\ \E d \in Card : AsOf[d] = p.asof /\ saved'[OnOld(d)].status # "absent"
           /\ \A c \in Card : AsOf[c] = p.asof =>
                /\ saved'[OnOld(c)].status # "delivered"
                /\ DependsOn[c] = NoCard =>
                     \/ saved'[OnOld(c)].status \in {"absent", "blocked"}
                     \/ /\ ~p.blocked /\ saved'[OnOld(c)].status = "pending"
                        /\ saved'[OnOld(c)].next = p.next
      BY <1>3 DEF Waits
    <3> HIDE DEF p
    <3> QED BY <2>4, <2>5, <3>1, <3>2, <3>3, PendingWritten
  <2>7. MigrationTyped'
    BY <1>1, <1>3, <2>1, <2>4, <2>6 DEF MigrationInv, MigrationTyped
  <2>8. DeliveredIsKept'
    <3> SUFFICES ASSUME NEW c \in Card, AsOf[c] = legacy.last, time < ExpiresAt[c]
                 PROVE  /\ saved'[OnOld(c)].status \in {"absent", "delivered"}
                        /\ \E d \in Card : AsOf[d] = legacy.last /\ saved'[OnOld(d)].status # "absent"
      BY <1>1, <1>3 DEF DeliveredIsKept
    <3>1. KeepsDelivered(time)
      <4>1. AsOf[c] # NoDay
        BY Opens DEF NoDay, MigrationInv, MigrationTyped
      <4>2. NextTrade(legacy.last) # NoDay
        BY <1>3, <4>1 DEF Migrates
      <4> QED BY <4>1, <4>2, Opens DEF KeepsDelivered, MigrationInv, MigrationTyped
    <3> QED BY <2>1, <2>4, <2>5, <2>6, <3>1
  <2>9. PendingIsKept'
    BY <1>3, <2>6 DEF PendingIsKept
  <2> QED BY <2>7, <2>8, <2>9 DEF MigrationInv
<1> QED BY <1>2, <1>3 DEF ReadState

\* A start may add the report of the latest date, never of one that was reported.
LEMMA EnqueueStartupInv == MigrationInv /\ EnqueueStartup => MigrationInv'
<1> SUFFICES ASSUME MigrationInv, EnqueueStartup PROVE MigrationInv'
  OBVIOUS
<1>1. /\ place' = "ready" /\ UNCHANGED <<time, legacy, version, stored, syncing, enabled, deaths, told>>
      /\ version = 2 /\ memory = saved /\ syncing \in Known /\ saved \in Ledger
  BY DEF EnqueueStartup, MigrationInv, MigrationTyped
<1>2. CASE UNCHANGED <<memory, saved>>
  <2>1. MigrationTyped'
    BY <1>1, <1>2 DEF MigrationInv, MigrationTyped
  <2> QED BY <1>1, <1>2, <2>1, AsideInv DEF MigrationInv, MigrationTyped, fileVars
<1>3. CASE /\ saved' = Enqueue(saved, ReportCards[syncing]["new"] \X Unrecorded(syncing))
           /\ memory' = saved'
  <2> DEFINE slots == ReportCards[syncing]["new"] \X Unrecorded(syncing)
  <2>1. \A c \in Card : /\ OnOld(c) \in Slot
                        /\ OnOld(c) \in slots <=> /\ c \in ReportCards[syncing]["new"]
                                                  /\ LegacyChannel \in Unrecorded(syncing)
    BY MigrationAssumption DEF OnOld, Slot
  <2>2. \A c \in ReportCards[syncing]["new"] : c \in Card /\ AsOf[c] = syncing
    BY <1>1, CardsOf
  <2>3. /\ saved' \in Ledger
        /\ \A s \in Slot : saved'[s] = IF s \in slots /\ saved[s].status = "absent" THEN Fresh ELSE saved[s]
    BY <1>1, <1>3, BoundAssumption DEF Enqueue, Ledger, Fresh, ChannelState, Status, Open
  \* A date that the old channel has anything of stays as it is there.
  <2>4. ASSUME NEW d, \E c \in Card : AsOf[c] = d /\ saved[OnOld(c)].status # "absent"
        PROVE  \A c \in Card : AsOf[c] = d => saved'[OnOld(c)] = saved[OnOld(c)]
    <3>1. syncing = d => LegacyChannel \notin Unrecorded(syncing)
      BY <1>1, <2>4 DEF Unrecorded, OnOld
    <3> QED BY <2>1, <2>2, <2>3, <3>1
  <2> HIDE DEF slots
  <2>5. MigrationTyped'
    BY <1>1, <1>3, <2>3 DEF MigrationInv, MigrationTyped
  <2>6. DeliveredIsKept'
    BY <1>1, <2>4 DEF MigrationInv, DeliveredIsKept
  <2>7. PendingIsKept'
    <3> SUFFICES ASSUME Waits(legacy.pending) PROVE Waits(legacy.pending)'
      BY <1>1 DEF MigrationInv, PendingIsKept
    <3> QED BY <1>1, <2>4 DEF Waits
  <2> QED BY <2>5, <2>6, <2>7 DEF MigrationInv
<1> QED BY <1>1, <1>2, <1>3 DEF EnqueueStartup

\* What is sent was not delivered, and what it follows was.
LEMMA SendDueInv ==
    ASSUME NEW s \in Slot, MigrationInv, SendDue(s)
    PROVE  /\ MigrationInv'
           /\ s[2] = LegacyChannel =>
                /\ AsOf[s[1]] # legacy.last
                /\ (legacy.pending # NoPending /\ AsOf[s[1]] = legacy.pending.asof) =>
                      ~legacy.pending.blocked /\ legacy.pending.next <= time
<1>1. /\ UNCHANGED <<time, legacy, version, stored, place, syncing, enabled, deaths>>
      /\ version = 2 /\ memory = saved /\ saved \in Ledger /\ place = "ready" /\ time \in Nat
      /\ memory' = saved'
  BY DEF SendDue, MigrationInv, MigrationTyped
<1>2. /\ time < ExpiresAt[s[1]] /\ saved[s].status \in {"pending", "unknown"} /\ saved[s].next <= time
      /\ Dependent(s) => saved[Before(s)].status = "delivered"
  BY <1>1 DEF SendDue, Due, CanDeliver
<1>3. PICK e \in ChannelState : saved' = [saved EXCEPT ![s] = e] /\ e.status # "absent"
  <2>1. saved[s] \in ChannelState
    BY <1>1 DEF Ledger
  <2>2. \A n \in 0 .. MaxAttempts : Attempted(n) \in 0 .. MaxAttempts /\ Backoff[Attempted(n)] \in Nat
    BY BoundAssumption DEF Attempted
  <2>3. CASE memory' = MarkDelivered(memory, s)
    <3> DEFINE e == [saved[s] EXCEPT !.status = "delivered", !.next = 0]
    <3>1. e \in ChannelState /\ e.status # "absent"
      BY <2>1 DEF ChannelState, Status, Terminal
    <3>2. saved' = [saved EXCEPT ![s] = e]
      BY <1>1, <2>3 DEF MarkDelivered, Ledger
    <3> QED BY <3>1, <3>2
  <2>4. CASE memory' = MarkPermanent(memory, s)
    <3> DEFINE n == Attempted(saved[s].attempts)
               e == [saved[s] EXCEPT !.status = "blocked", !.attempts = n, !.next = 0]
    <3>1. n \in 0 .. MaxAttempts
      BY <2>1, <2>2 DEF ChannelState
    <3>2. saved' = [saved EXCEPT ![s] = e]
      BY <1>1, <2>4 DEF MarkPermanent, Ledger
    <3> HIDE DEF n
    <3>3. e \in ChannelState /\ e.status # "absent"
      BY <2>1, <3>1 DEF ChannelState, Status, Terminal
    <3> QED BY <3>2, <3>3
  <2>5. CASE memory' = MarkRetryable(memory, s, 0, time)
    <3> DEFINE n == Attempted(saved[s].attempts)
               at == time + (IF 0 > Backoff[n] THEN 0 ELSE Backoff[n])
               e == [saved[s] EXCEPT !.status = "pending", !.attempts = n, !.next = at]
    <3>1. n \in 0 .. MaxAttempts /\ Backoff[n] \in Nat
      BY <2>1, <2>2 DEF ChannelState
    <3>2. at \in Nat
      BY <1>1, <3>1
    <3>3. saved' = [saved EXCEPT ![s] = e]
      BY <1>1, <2>5 DEF MarkRetryable, Ledger
    <3> HIDE DEF n, at
    <3>4. e \in ChannelState /\ e.status # "absent"
      BY <2>1, <3>1, <3>2 DEF ChannelState, Status, Open
    <3> QED BY <3>3, <3>4
  <2> QED BY <2>3, <2>4, <2>5 DEF SendDue
<1>4. \A c \in Card : OnOld(c) \in Slot
  BY MigrationAssumption DEF OnOld, Slot
<1>5. s[1] \in Card /\ s[2] \in Channel /\ (s[2] = LegacyChannel => s = OnOld(s[1]))
  BY DEF Slot, OnOld
<1>6. /\ saved' \in Ledger
      /\ \A r \in Slot : r # s => saved'[r] = saved[r]
      /\ \A r \in Slot : saved[r].status # "absent" => saved'[r].status # "absent"
  BY <1>1, <1>3 DEF Ledger
<1>7. s[2] = LegacyChannel => AsOf[s[1]] # legacy.last
  <2> SUFFICES ASSUME s[2] = LegacyChannel, AsOf[s[1]] = legacy.last PROVE FALSE
    OBVIOUS
  <2>1. saved[OnOld(s[1])].status \in {"absent", "delivered"}
    BY <1>1, <1>2, <1>5 DEF MigrationInv, DeliveredIsKept
  <2> QED BY <1>2, <1>5, <2>1
<1>8. s[2] = LegacyChannel /\ legacy.pending # NoPending /\ AsOf[s[1]] = legacy.pending.asof =>
        ~legacy.pending.blocked /\ legacy.pending.next <= time
  <2> SUFFICES ASSUME s[2] = LegacyChannel, legacy.pending # NoPending, AsOf[s[1]] = legacy.pending.asof,
                      ~(~legacy.pending.blocked /\ legacy.pending.next <= time)
               PROVE  FALSE
    OBVIOUS
  <2>1. legacy.pending.next \in Nat
    BY LegacyAssumption DEF MigrationInv, MigrationTyped
  <2>2. Waits(legacy.pending)
    BY <1>1, <2>1 DEF MigrationInv, PendingIsKept
  <2>3. CASE Dependent(s)
    <3>1. DependsOn[s[1]] \in Card /\ AsOf[DependsOn[s[1]]] = legacy.pending.asof
          /\ Before(s) = OnOld(DependsOn[s[1]])
      BY <1>5, <2>3, CardAssumption, ChainAssumption DEF Dependent, Before, OnOld
    <3> QED BY <1>2, <2>2, <2>3, <3>1 DEF Waits
  <2>4. CASE ~Dependent(s)
    <3>1. DependsOn[s[1]] = NoCard
      BY <2>4 DEF Dependent
    <3>2. ~legacy.pending.blocked /\ saved[s].next = legacy.pending.next
      BY <1>2, <1>5, <2>2, <3>1 DEF Waits
    <3> QED BY <1>2, <3>2
  <2> QED BY <2>3, <2>4
<1>9. MigrationTyped'
  BY <1>1, <1>6 DEF MigrationInv, MigrationTyped
<1>10. DeliveredIsKept'
  <2> SUFFICES ASSUME NEW c \in Card, AsOf[c] = legacy.last, time < ExpiresAt[c]
               PROVE  /\ saved'[OnOld(c)].status \in {"absent", "delivered"}
                      /\ \E d \in Card : AsOf[d] = legacy.last /\ saved'[OnOld(d)].status # "absent"
    BY <1>1 DEF DeliveredIsKept
  <2>1. OnOld(c) # s
    BY <1>7 DEF OnOld
  <2> QED BY <1>1, <1>4, <1>6, <2>1 DEF MigrationInv, DeliveredIsKept
<1>11. PendingIsKept'
  <2> SUFFICES ASSUME legacy.pending # NoPending, legacy.pending.blocked \/ time < legacy.pending.next
               PROVE  Waits(legacy.pending)'
    BY <1>1 DEF PendingIsKept
  <2>1. legacy.pending.next \in Nat
    BY LegacyAssumption DEF MigrationInv, MigrationTyped
  <2>2. Waits(legacy.pending)
    BY <1>1 DEF MigrationInv, PendingIsKept
  <2>3. \A c \in Card : AsOf[c] = legacy.pending.asof => OnOld(c) # s
    BY <1>1, <1>8, <2>1 DEF OnOld
  <2> QED BY <1>1, <1>4, <1>6, <2>2, <2>3 DEF Waits
<1> QED BY <1>7, <1>8, <1>9, <1>10, <1>11 DEF MigrationInv

\* The synchronization stores a report, or fails.
LEMMA SyncStartupInv == MigrationInv /\ SyncStartup => MigrationInv'
<1> SUFFICES ASSUME MigrationInv, SyncStartup PROVE MigrationInv'
  OBVIOUS
<1>1. UNCHANGED <<time, fileVars, memory, syncing, enabled, deaths, told>>
  BY DEF SyncStartup
<1>2. MigrationTyped'
  BY <1>1 DEF SyncStartup, MigrationInv, MigrationTyped, fileVars, Known
<1> QED BY <1>1, <1>2, AsideInv DEF MigrationInv, MigrationTyped

\* Every step keeps the invariant.
LEMMA MigrationStepInv == MigrationInv /\ [MigrationNext]_migrationVars => MigrationInv'
<1> SUFFICES ASSUME MigrationInv, [MigrationNext]_migrationVars PROVE MigrationInv'
  OBVIOUS
<1>1. CASE StartMonitor
  <2>1. MigrationTyped'
    BY <1>1 DEF StartMonitor, MigrationInv, MigrationTyped, fileVars
  <2> QED BY <1>1, <2>1, AsideInv DEF StartMonitor, MigrationInv, MigrationTyped
<1>2. CASE MonitorDies
  <2>1. NewLedger \in Ledger
    BY BoundAssumption DEF NewLedger, Absent, Ledger, ChannelState, Status
  <2>2. MigrationTyped'
    BY <1>2, <2>1 DEF MonitorDies, MigrationInv, MigrationTyped, fileVars
  <2> QED BY <1>2, <2>2, AsideInv DEF MonitorDies, MigrationInv, MigrationTyped
<1>3. CASE TimeFlies
  <2>1. MigrationTyped'
    BY <1>3 DEF TimeFlies, MigrationInv, MigrationTyped, fileVars
  <2>2. time' \in Nat /\ time <= time'
    BY <1>3 DEF TimeFlies, MigrationInv, MigrationTyped
  <2> QED BY <1>3, <2>1, <2>2, AsideInv DEF TimeFlies
<1>4. CASE UNCHANGED migrationVars
  <2>1. MigrationTyped'
    BY <1>4 DEF migrationVars, MigrationInv, MigrationTyped, fileVars
  <2> QED BY <1>4, <2>1, AsideInv DEF migrationVars, MigrationInv, MigrationTyped
<1> QED BY <1>1, <1>2, <1>3, <1>4, ReadStateInv, SyncStartupInv, EnqueueStartupInv, SendDueInv
        DEF MigrationNext

\* What version 1 knew is kept on its channel: what it delivered is not sent again, and what
\* waited is sent in its time or not at all (migrateLegacy).
THEOREM LegacyIsKeptHolds == MigrationSpec => LegacyIsKept
<1>1. MigrationInit => MigrationInv
  BY MigrationInitInv
<1>2. MigrationInv /\ [MigrationNext]_migrationVars => MigrationInv'
  BY MigrationStepInv
<1>3. MigrationInv /\ [MigrationNext]_migrationVars =>
        [\A s \in told' \ told : s[2] = LegacyChannel =>
            LET date == AsOf[s[1]]
                p == legacy.pending
            IN  /\ date # legacy.last
                /\ (p # NoPending /\ date = p.asof) => ~p.blocked /\ p.next <= time]_migrationVars
  <2> SUFFICES ASSUME MigrationInv, MigrationNext, NEW s \in told' \ told, s[2] = LegacyChannel
               PROVE  /\ AsOf[s[1]] # legacy.last
                      /\ (legacy.pending # NoPending /\ AsOf[s[1]] = legacy.pending.asof) =>
                            ~legacy.pending.blocked /\ legacy.pending.next <= time
    OBVIOUS
  <2>1. PICK r \in Slot : SendDue(r)
    BY DEF MigrationNext, StartMonitor, ReadState, SyncStartup, EnqueueStartup, MonitorDies, TimeFlies
  <2>2. r = s
    BY <2>1 DEF SendDue
  <2> QED BY <2>1, <2>2, SendDueInv
<1> QED BY <1>1, <1>2, <1>3, PTL DEF MigrationSpec, LegacyIsKept

-----------------------------------------------------------------------------
(***************************************************************************)
(* CalendarCache, for any users, ranges, opinions of providers and         *)
(* windows.                                                                *)
(*                                                                         *)
(* Coverage merges the spans of the windows one after the other and then   *)
(* sweeps them: two recursive functions. Each is defined for all spans,    *)
(* and no day is covered that is in no window, since there is no least     *)
(* counterexample (MergesAll, SweepsAll, MergesFaithfully,                 *)
(* SweepsFaithfully). The invariant says that whatever was handed out by   *)
(* the cache or a provider still has a window behind each of its days      *)
(* (Backed); a frozen range loads all of these, and they agree.            *)
(***************************************************************************)

\* A set of natural numbers has a least one.
LEMMA LeastIn ==
    ASSUME NEW X \in SUBSET Nat, X # {}
    PROVE  \E x \in X : \A y \in X : x <= y
<1>1. IsWellFoundedOn(OpToRel(<, Nat), Nat)
  BY NatLessThanWellFounded
<1>2. PICK x \in X : \A y \in X : ~(<<y, x>> \in OpToRel(<, Nat))
  BY <1>1, WFMin
<1>3. \A y \in X : x <= y
  <2> SUFFICES ASSUME NEW y \in X, ~(x <= y) PROVE FALSE
    OBVIOUS
  <2>1. x \in Nat /\ y \in Nat /\ y < x
    OBVIOUS
  <2>2. <<y, x>> \in OpToRel(<, Nat)
    BY <2>1, Zenon DEF OpToRel
  <2> QED BY <1>2, <2>2
<1> QED BY <1>3

\* Spans of days.
DaySpan == Int \X Int

Spanned(d, spans) == \E s \in spans : s[1] <= d /\ d <= s[2]

\* No day of a span is in none of the others.
Faithful(list, spans) ==
    /\ list \in Seq(DaySpan)
    /\ \A i \in 1 .. Len(list) : \A d \in list[i][1] .. list[i][2] : Spanned(d, spans)

\* A span that is merged adds its own days only.
LEMMA MergeIsFaithful ==
    ASSUME NEW spans \in SUBSET DaySpan, NEW list, Faithful(list, spans), NEW span \in spans
    PROVE  Faithful(MergeSpan(list, span), spans)
<1> DEFINE n == Len(list)
           m == list[n]
<1>1. list \in Seq(DaySpan) /\ span \in DaySpan /\ n \in Nat
  BY DEF Faithful
<1>2. \A d \in span[1] .. span[2] : Spanned(d, spans)
  BY DEF Spanned, DaySpan
<1>3. CASE list = << >> \/ span[1] > m[2] + 1
  <2>1. MergeSpan(list, span) = Append(list, span)
    BY <1>3 DEF MergeSpan, Last
  <2>2. /\ Append(list, span) \in Seq(DaySpan)
        /\ Len(Append(list, span)) = n + 1
        /\ \A i \in 1 .. n : Append(list, span)[i] = list[i]
        /\ Append(list, span)[n + 1] = span
    BY <1>1
  <2>3. \A i \in 1 .. n + 1 : i \in 1 .. n \/ i = n + 1
    BY <1>1
  <2> QED BY <1>2, <2>1, <2>2, <2>3 DEF Faithful
<1>4. CASE list # << >> /\ ~(span[1] > m[2] + 1) /\ span[2] > m[2]
  <2> DEFINE longer == <<m[1], span[2]>>
             new == [list EXCEPT ![n] = longer]
  <2>1. n \in 1 .. n /\ m \in DaySpan /\ n \in DOMAIN list
    BY <1>1, <1>4
  <2>2. MergeSpan(list, span) = new
    BY <1>4 DEF MergeSpan, Last
  <2>3. longer \in DaySpan /\ longer[1] = m[1] /\ longer[2] = span[2]
    BY <1>1, <2>1 DEF DaySpan
  <2>4. /\ new \in Seq(DaySpan) /\ Len(new) = n /\ new[n] = longer
        /\ \A i \in 1 .. n : i # n => new[i] = list[i]
    <3> HIDE DEF longer
    <3> QED BY <1>1, <2>1, <2>3
  <2>5. \A d \in m[1] .. span[2] : Spanned(d, spans)
    <3> SUFFICES ASSUME NEW d \in m[1] .. span[2] PROVE Spanned(d, spans)
      OBVIOUS
    <3>1. /\ m[1] \in Int /\ m[2] \in Int /\ span[1] \in Int /\ span[2] \in Int
      BY <1>1, <2>1 DEF DaySpan
    <3>2. d \in m[1] .. m[2] \/ d \in span[1] .. span[2]
      BY <1>4, <3>1
    <3>3. \A e \in m[1] .. m[2] : Spanned(e, spans)
      BY <2>1 DEF Faithful
    <3> QED BY <1>2, <3>2, <3>3
  <2> HIDE DEF new, longer
  <2> QED BY <2>2, <2>3, <2>4, <2>5 DEF Faithful
<1>5. CASE list # << >> /\ ~(span[1] > m[2] + 1) /\ ~(span[2] > m[2])
  BY <1>5 DEF MergeSpan, Last
<1> QED BY <1>3, <1>4, <1>5

\* Within bounds, the order of spans has a last one among any, and no other.
LEMMA LastSpanIs ==
    ASSUME NEW a \in Int, NEW b \in Int, NEW some \in SUBSET ((a .. b) \X (a .. b)), some # {}
    PROVE  /\ LastSpan(some) \in some
           /\ \A t \in some : t = LastSpan(some) \/ Sooner(t, LastSpan(some))
           /\ \A s \in some : (\A t \in some : t = s \/ Sooner(t, s)) => s = LastSpan(some)
<1>1. \A s \in some : s[1] \in a .. b /\ s[2] \in a .. b /\ s = <<s[1], s[2]>>
  OBVIOUS
<1> DEFINE Starts == {s[1] : s \in some}
<1>2. Starts \in SUBSET Int /\ Starts # {} /\ \A x \in Starts : x <= b
  BY <1>1
<1>3. PICK x \in Starts : \A y \in Starts : y <= x
  <2> HIDE DEF Starts
  <2> QED BY <1>2, GreatestIn
<1> DEFINE Ends == {s[2] : s \in {t \in some : t[1] = x}}
<1>4. Ends \in SUBSET Int /\ Ends # {} /\ \A y \in Ends : y <= b
  BY <1>1, <1>3
<1>5. PICK e \in Ends : \A y \in Ends : y <= e
  <2> HIDE DEF Ends
  <2> QED BY <1>4, GreatestIn
<1>6. PICK s \in some : s[1] = x /\ s[2] = e
  BY <1>5
<1>7. \A t \in some : t = s \/ Sooner(t, s)
  <2> SUFFICES ASSUME NEW t \in some PROVE t = s \/ Sooner(t, s)
    OBVIOUS
  <2>1. t[1] \in Starts /\ t[1] <= x
    BY <1>3
  <2>2. t[1] = x => t[2] <= e
    BY <1>5
  <2> QED BY <1>1, <1>6, <2>1, <2>2 DEF Sooner
<1>8. LastSpan(some) \in some /\ \A t \in some : t = LastSpan(some) \/ Sooner(t, LastSpan(some))
  BY <1>7, Zenon DEF LastSpan
<1>9. \A u, v \in some : ~(Sooner(u, v) /\ Sooner(v, u))
  BY <1>1 DEF Sooner
<1> QED BY <1>8, <1>9

\* What merging some spans is, from what merging fewer is.
Merging(f, some) == IF some = {} THEN << >> ELSE MergeSpan(f[some \ {LastSpan(some)}], LastSpan(some))
Merges(f, spans) == f = [some \in SUBSET spans |-> Merging(f, some)]

\* Taking the last span away leaves fewer.
LEMMA OneLess ==
    ASSUME NEW a \in Int, NEW b \in Int, NEW some \in SUBSET ((a .. b) \X (a .. b)), some # {}
    PROVE  LET rest == some \ {LastSpan(some)} IN
           /\ IsFiniteSet(some) /\ Cardinality(some) \in Nat /\ Cardinality(some) > 0
           /\ Cardinality(rest) \in Nat /\ Cardinality(rest) < Cardinality(some)
<1>1. IsFiniteSet(a .. b)
  BY FS_Interval
<1>2. IsFiniteSet((a .. b) \X (a .. b))
  BY <1>1, FS_Product
<1>3. IsFiniteSet(some)
  BY <1>2, FS_Subset
<1>4. LastSpan(some) \in some
  BY LastSpanIs
<1>5. /\ IsFiniteSet(some \ {LastSpan(some)})
      /\ Cardinality(some \ {LastSpan(some)}) = Cardinality(some) - 1
  BY <1>3, <1>4, FS_RemoveElement
<1>6. Cardinality(some) \in Nat /\ Cardinality(some \ {LastSpan(some)}) \in Nat
  BY <1>3, <1>5, FS_CardinalityType
<1> QED BY <1>3, <1>5, <1>6

\* If merging is defined without the last span it is defined with it.
LEMMA MergesMore ==
    ASSUME NEW a \in Int, NEW b \in Int, NEW some \in SUBSET ((a .. b) \X (a .. b)), some # {},
           NEW g, Merges(g, some \ {LastSpan(some)})
    PROVE  \E f : Merges(f, some)
<1> DEFINE last == LastSpan(some)
           rest == some \ {last}
           f == [part \in SUBSET some |-> IF last \in part THEN MergeSpan(g[part \ {last}], last) ELSE g[part]]
<1>1. last \in some /\ \A t \in some : t = last \/ Sooner(t, last)
  BY LastSpanIs
<1>2. \A part \in SUBSET rest : g[part] = Merging(g, part) /\ f[part] = g[part]
  <2>1. \A part \in SUBSET rest : part \in SUBSET some /\ last \notin part
    OBVIOUS
  <2>2. g = [part \in SUBSET rest |-> Merging(g, part)]
    BY DEF Merges
  <2> HIDE DEF last, rest
  <2> QED BY <2>1, <2>2
<1>3. ASSUME NEW part \in SUBSET some PROVE f[part] = Merging(f, part)
  <2>1. CASE part = {}
    <3>1. part \in SUBSET rest
      BY <2>1
    <3>2. g[part] = << >>
      BY <1>2, <2>1, <3>1 DEF Merging
    <3> HIDE DEF f, rest
    <3> QED BY <1>2, <2>1, <3>1, <3>2 DEF Merging
  <2>2. CASE part # {} /\ last \notin part
    <3>1. LastSpan(part) \in part /\ part \in SUBSET rest
      BY <2>2, LastSpanIs
    <3>2. part \ {LastSpan(part)} \in SUBSET rest
      BY <3>1
    <3>3. Merging(f, part) = Merging(g, part)
      <4> HIDE DEF f, rest, last
      <4> QED BY <1>2, <3>2 DEF Merging
    <3> HIDE DEF f, rest, last
    <3> QED BY <1>2, <3>1, <3>3
  <2>3. CASE last \in part
    <3>1. part # {} /\ part \in SUBSET ((a .. b) \X (a .. b)) /\ \A t \in part : t = last \/ Sooner(t, last)
      BY <1>1, <2>3
    <3>2. last = LastSpan(part)
      <4> HIDE DEF last
      <4> QED BY <2>3, <3>1, LastSpanIs
    <3>3. part \ {last} \in SUBSET rest
      OBVIOUS
    <3>4. f[part] = MergeSpan(g[part \ {last}], last)
      BY <2>3
    <3>5. f[part \ {last}] = g[part \ {last}]
      <4> HIDE DEF f, last, rest
      <4> QED BY <1>2, <3>3
    <3> HIDE DEF f, last, rest
    <3> QED BY <3>1, <3>2, <3>4, <3>5 DEF Merging
  <2> QED BY <2>1, <2>2, <2>3
<1>4. f = [part \in SUBSET some |-> f[part]]
  OBVIOUS
<1>5. Merges(f, some)
  <2> HIDE DEF f
  <2> QED BY <1>3, <1>4 DEF Merges
<1> QED BY <1>5

\* The recursion is well founded: merging is defined for all spans within bounds.
LEMMA MergesAll ==
    ASSUME NEW a \in Int, NEW b \in Int
    PROVE  \A some \in SUBSET ((a .. b) \X (a .. b)) : \E f : Merges(f, some)
<1> DEFINE Undefined == {some \in SUBSET ((a .. b) \X (a .. b)) : ~\E f : Merges(f, some)}
           Sizes == {Cardinality(some) : some \in Undefined}
<1>1. \A some \in Undefined : some # {}
  <2>1. SUBSET {} = {{}}
    OBVIOUS
  <2> DEFINE f == [some \in SUBSET {} |-> << >>]
  <2>2. f = [some \in SUBSET {} |-> Merging(f, some)]
    BY <2>1 DEF Merging
  <2>3. Merges(f, {})
    BY <2>2 DEF Merges
  <2> QED BY <2>3
<1>2. Sizes \in SUBSET Nat
  BY <1>1, OneLess
<1>3. SUFFICES ASSUME Undefined # {} PROVE FALSE
  OBVIOUS
<1>4. PICK n \in Sizes : \A m \in Sizes : n <= m
  <2>1. Sizes # {}
    BY <1>3
  <2> HIDE DEF Sizes
  <2> QED BY <1>2, <2>1, LeastIn
<1>5. PICK some \in Undefined : n = Cardinality(some)
  BY <1>4
<1> DEFINE rest == some \ {LastSpan(some)}
<1>6. some # {} /\ some \in SUBSET ((a .. b) \X (a .. b)) /\ rest \in SUBSET ((a .. b) \X (a .. b))
  BY <1>1, <1>5
<1>7. Cardinality(rest) \in Nat /\ Cardinality(rest) < n /\ n \in Nat
  BY <1>5, <1>6, OneLess
<1>8. rest \notin Undefined
  <2> HIDE DEF rest
  <2>1. rest \in Undefined => Cardinality(rest) \in Sizes
    OBVIOUS
  <2> QED BY <1>4, <1>7, <2>1
<1>9. PICK g : Merges(g, rest)
  BY <1>6, <1>8
<1>10. \E f : Merges(f, some)
  BY <1>6, <1>9, MergesMore
<1> QED BY <1>5, <1>10

\* However spans are merged, no day is added.
LEMMA MergesFaithfully ==
    ASSUME NEW a \in Int, NEW b \in Int, NEW spans \in SUBSET ((a .. b) \X (a .. b)),
           NEW f, Merges(f, spans)
    PROVE  \A some \in SUBSET spans : Faithful(f[some], spans)
<1> DEFINE Bad == {some \in SUBSET spans : ~Faithful(f[some], spans)}
           Sizes == {Cardinality(some) : some \in Bad}
<1>1. \A some \in SUBSET spans : f[some] = Merging(f, some)
  BY DEF Merges
<1>2. \A some \in Bad : some # {}
  <2>1. f[{}] = << >>
    BY <1>1 DEF Merging
  <2>2. Faithful(f[{}], spans)
    BY <2>1 DEF Faithful
  <2> QED BY <2>2
<1>3. Sizes \in SUBSET Nat
  BY <1>2, OneLess
<1>4. SUFFICES ASSUME Bad # {} PROVE FALSE
  OBVIOUS
<1>5. PICK n \in Sizes : \A m \in Sizes : n <= m
  <2>1. Sizes # {}
    BY <1>4
  <2> HIDE DEF Sizes
  <2> QED BY <1>3, <2>1, LeastIn
<1>6. PICK some \in Bad : n = Cardinality(some)
  BY <1>5
<1> DEFINE rest == some \ {LastSpan(some)}
<1>7. /\ some # {} /\ some \in SUBSET spans /\ rest \in SUBSET spans
      /\ some \in SUBSET ((a .. b) \X (a .. b))
  BY <1>2, <1>6
<1>8. Cardinality(rest) \in Nat /\ Cardinality(rest) < n /\ n \in Nat /\ LastSpan(some) \in spans
  BY <1>6, <1>7, OneLess, LastSpanIs
<1>9. Faithful(f[rest], spans)
  <2> HIDE DEF rest
  <2>1. rest \in Bad => Cardinality(rest) \in Sizes
    OBVIOUS
  <2> QED BY <1>5, <1>7, <1>8, <2>1
<1>10. spans \in SUBSET DaySpan
  BY DEF DaySpan
<1>11. f[some] = MergeSpan(f[rest], LastSpan(some))
  BY <1>1, <1>7 DEF Merging
<1>12. Faithful(f[some], spans)
  BY <1>8, <1>9, <1>10, <1>11, MergeIsFaithful
<1> QED BY <1>6, <1>12

\* What the merged spans cover is covered.
LEMMA MergedAreFaithful ==
    ASSUME NEW a \in Int, NEW b \in Int, NEW spans \in SUBSET ((a .. b) \X (a .. b))
    PROVE  Faithful(MergedSpans(spans), spans)
<1> DEFINE f == CHOOSE g : Merges(g, spans)
<1>1. \E g : Merges(g, spans)
  BY MergesAll
<1>2. Merges(f, spans)
  BY <1>1
<1>3. MergedSpans(spans) = f[spans]
  BY DEF MergedSpans, Merges, Merging
<1> HIDE DEF f
<1>4. Faithful(f[spans], spans)
  BY <1>2, MergesFaithfully
<1> QED BY <1>3, <1>4

\* What the sweep has after one more span, and what it is for n of them.
Sweeping(f, first, merged, n) ==
    IF n = 0 THEN [cursor |-> first, missing |-> << >>] ELSE PassSpan(f[n - 1], merged[n])
Sweeps(f, first, merged, n) == f = [k \in 0 .. n |-> Sweeping(f, first, merged, k)]

\* If the sweep is defined for n spans it is defined for one more.
LEMMA SweepsMore ==
    ASSUME NEW first, NEW merged, NEW n \in Nat, NEW g, Sweeps(g, first, merged, n)
    PROVE  \E f : Sweeps(f, first, merged, n + 1)
<1> DEFINE f == [k \in 0 .. n + 1 |-> IF k = n + 1 THEN PassSpan(g[n], merged[n + 1]) ELSE g[k]]
<1>1. \A k \in 0 .. n : g[k] = Sweeping(g, first, merged, k) /\ f[k] = g[k]
  <2>1. g = [k \in 0 .. n |-> Sweeping(g, first, merged, k)]
    BY DEF Sweeps
  <2>2. \A k \in 0 .. n : k \in 0 .. n + 1 /\ k # n + 1
    OBVIOUS
  <2> QED BY <2>1, <2>2
<1>2. f[n + 1] = PassSpan(g[n], merged[n + 1])
  OBVIOUS
<1>3. f = [k \in 0 .. n + 1 |-> f[k]]
  OBVIOUS
<1> HIDE DEF f
<1>4. ASSUME NEW k \in 0 .. n + 1 PROVE f[k] = Sweeping(f, first, merged, k)
  <2>1. CASE k = n + 1
    <3>1. f[n] = g[n] /\ k # 0 /\ k - 1 = n
      BY <1>1, <2>1
    <3> QED BY <1>2, <2>1, <3>1 DEF Sweeping
  <2>2. CASE k # n + 1 /\ k # 0
    <3>1. k \in 0 .. n /\ k - 1 \in 0 .. n
      BY <2>2
    <3>2. f[k] = Sweeping(g, first, merged, k) /\ f[k - 1] = g[k - 1]
      BY <1>1, <3>1
    <3> QED BY <2>2, <3>2 DEF Sweeping
  <2>3. CASE k = 0
    <3>1. f[k] = Sweeping(g, first, merged, k)
      BY <1>1, <2>3
    <3> QED BY <2>3, <3>1 DEF Sweeping
  <2> QED BY <2>1, <2>2, <2>3
<1> QED BY <1>3, <1>4 DEF Sweeps

\* The sweep is defined for any number of spans.
LEMMA SweepsAll ==
    ASSUME NEW first, NEW merged
    PROVE  \A n \in Nat : \E f : Sweeps(f, first, merged, n)
<1> DEFINE Undefined == {n \in Nat : ~\E f : Sweeps(f, first, merged, n)}
<1>1. SUFFICES ASSUME Undefined # {} PROVE FALSE
  OBVIOUS
<1>2. PICK n \in Undefined : \A m \in Undefined : n <= m
  <2>1. Undefined \in SUBSET Nat
    OBVIOUS
  <2> HIDE DEF Undefined
  <2> QED BY <1>1, <2>1, LeastIn
<1>3. CASE n = 0
  <2> DEFINE f == [k \in 0 .. 0 |-> [cursor |-> first, missing |-> << >>]]
  <2>1. f = [k \in 0 .. 0 |-> Sweeping(f, first, merged, k)]
    BY DEF Sweeping
  <2>2. Sweeps(f, first, merged, 0)
    BY <2>1 DEF Sweeps
  <2> QED BY <1>2, <1>3, <2>2
<1>4. CASE n # 0
  <2>1. n - 1 \in Nat /\ n - 1 \notin Undefined /\ (n - 1) + 1 = n
    BY <1>2, <1>4
  <2>2. PICK g : Sweeps(g, first, merged, n - 1)
    BY <2>1
  <2>3. \E f : Sweeps(f, first, merged, (n - 1) + 1)
    BY <2>1, <2>2, SweepsMore
  <2> QED BY <1>2, <2>1, <2>3
<1> QED BY <1>3, <1>4

\* As long as nothing is missing, every day before the cursor is covered.
UpToHere(sweep, first, spans) ==
    /\ sweep.cursor \in Int
    /\ sweep.missing \in Seq(DaySpan)
    /\ sweep.missing = << >> => \A d \in first .. sweep.cursor - 1 : Spanned(d, spans)

\* A covered span that is passed leaves no day out.
LEMMA PassOne ==
    ASSUME NEW first \in Int, NEW spans, NEW sweep, UpToHere(sweep, first, spans), NEW span \in DaySpan,
           \A d \in span[1] .. span[2] : Spanned(d, spans)
    PROVE  UpToHere(PassSpan(sweep, span), first, spans)
<1> DEFINE gap == <<sweep.cursor, span[1] - 1>>
           new == PassSpan(sweep, span)
<1>1. span[1] \in Int /\ span[2] \in Int /\ gap \in DaySpan
  BY DEF DaySpan, UpToHere
<1>2. new.cursor = span[2] + 1
  BY DEF PassSpan
<1>3. new.missing = IF span[1] > sweep.cursor THEN Append(sweep.missing, gap) ELSE sweep.missing
  BY DEF PassSpan
<1>4. Append(sweep.missing, gap) \in Seq(DaySpan) /\ Append(sweep.missing, gap) # << >>
  <2>1. sweep.missing \in Seq(DaySpan)
    BY DEF UpToHere
  <2> HIDE DEF gap
  <2> QED BY <1>1, <2>1
<1>5. ASSUME new.missing = << >>, NEW d \in first .. new.cursor - 1 PROVE Spanned(d, spans)
  <2>1. ~(span[1] > sweep.cursor) /\ sweep.missing = << >>
    BY <1>3, <1>4, <1>5
  <2>2. d \in first .. sweep.cursor - 1 \/ d \in span[1] .. span[2]
    BY <1>1, <1>2, <1>5, <2>1 DEF UpToHere
  <2> QED BY <2>1, <2>2 DEF UpToHere
<1> HIDE DEF new
<1>6. new.missing \in Seq(DaySpan) /\ new.cursor \in Int
  BY <1>1, <1>2, <1>3, <1>4 DEF UpToHere
<1>7. UpToHere(new, first, spans)
  BY <1>5, <1>6 DEF UpToHere
<1> QED BY <1>7 DEF new

\* So does the whole sweep.
LEMMA SweepsFaithfully ==
    ASSUME NEW first \in Int, NEW spans, NEW merged, Faithful(merged, spans),
           NEW f, Sweeps(f, first, merged, Len(merged))
    PROVE  \A n \in 0 .. Len(merged) : UpToHere(f[n], first, spans)
<1> DEFINE Bad == {n \in 0 .. Len(merged) : ~UpToHere(f[n], first, spans)}
<1>1. Len(merged) \in Nat /\ merged \in Seq(DaySpan)
  BY DEF Faithful
<1>2. \A n \in 0 .. Len(merged) : f[n] = Sweeping(f, first, merged, n)
  BY DEF Sweeps
<1>3. SUFFICES ASSUME Bad # {} PROVE FALSE
  OBVIOUS
<1>4. PICK n \in Bad : \A m \in Bad : n <= m
  <2>1. Bad \in SUBSET Nat
    BY <1>1
  <2> HIDE DEF Bad
  <2> QED BY <1>3, <2>1, LeastIn
<1>5. n \in 0 .. Len(merged) /\ f[n] = Sweeping(f, first, merged, n)
  BY <1>2, <1>4
<1>6. CASE n = 0
  <2>1. f[n] = [cursor |-> first, missing |-> << >>]
    BY <1>5, <1>6 DEF Sweeping
  <2>2. f[n].cursor = first /\ f[n].missing = << >> /\ << >> \in Seq(DaySpan)
    BY <2>1
  <2>3. UpToHere(f[n], first, spans)
    BY <2>2 DEF UpToHere
  <2> QED BY <1>4, <2>3
<1>7. CASE n # 0
  <2>1. n - 1 \in 0 .. Len(merged) /\ n \in 1 .. Len(merged) /\ n - 1 < n /\ ~(n <= n - 1)
    BY <1>1, <1>5, <1>7
  <2>2. UpToHere(f[n - 1], first, spans)
    BY <1>4, <2>1
  <2>3. f[n] = PassSpan(f[n - 1], merged[n])
    BY <1>5, <1>7 DEF Sweeping
  <2>4. merged[n] \in DaySpan /\ \A d \in merged[n][1] .. merged[n][2] : Spanned(d, spans)
    BY <1>1, <2>1 DEF Faithful
  <2>5. UpToHere(f[n], first, spans)
    BY <2>2, <2>3, <2>4, PassOne
  <2> QED BY <1>4, <2>5
<1> QED BY <1>6, <1>7

\* The windows that a range loads overlap it, and their spans lie in it.
WellFormed(w) ==
    w.from \in Nat /\ w.through \in Nat /\ w.from <= w.through /\ w.days \subseteq w.from .. w.through

LEMMA SpansLieWithin ==
    ASSUME NEW r \in Nat \X Nat, r[1] <= r[2], \A w \in windows : WellFormed(w)
    PROVE  /\ Spans(Loaded(r), r) \in SUBSET ((r[1] .. r[2]) \X (r[1] .. r[2]))
           /\ \A d \in r[1] .. r[2] : Spanned(d, Spans(Loaded(r), r)) =>
                 \E w \in Loaded(r) : d \in w.from .. w.through
<1> DEFINE Clip(w) == <<IF w.from < r[1] THEN r[1] ELSE w.from,
                        IF w.through > r[2] THEN r[2] ELSE w.through>>
<1>1. r[1] \in Nat /\ r[2] \in Nat
  OBVIOUS
<1>2. Spans(Loaded(r), r) = {Clip(w) : w \in Loaded(r)}
  BY DEF Spans
<1>3. ASSUME NEW w \in Loaded(r)
      PROVE  /\ Clip(w)[1] \in r[1] .. r[2] /\ Clip(w)[2] \in r[1] .. r[2]
             /\ \A d \in Int : Clip(w)[1] <= d /\ d <= Clip(w)[2] => d \in w.from .. w.through
  <2>1. /\ w.from \in Nat /\ w.through \in Nat /\ w.from <= w.through
        /\ w.from <= r[2] /\ w.through >= r[1]
    BY <1>3 DEF Loaded, WellFormed
  <2> DEFINE x == IF w.from < r[1] THEN r[1] ELSE w.from
             y == IF w.through > r[2] THEN r[2] ELSE w.through
  <2>2. r[1] <= r[2] => x \in r[1] .. r[2] /\ y \in r[1] .. r[2]
    BY <1>1, <2>1
  <2> QED BY <1>1, <2>1, <2>2
<1> QED BY <1>2, <1>3 DEF Spanned

\* A range in which no span is missing is covered by windows, day by day.
LEMMA SweepIsSound ==
    ASSUME NEW r \in Nat \X Nat, r[1] <= r[2], \A w \in windows : WellFormed(w),
           MissingSpans(Loaded(r), r) = << >>
    PROVE  \A d \in r[1] .. r[2] : \E w \in Loaded(r) : d \in w.from .. w.through
<1> DEFINE spans == Spans(Loaded(r), r)
           merged == MergedSpans(spans)
           f == CHOOSE g : Sweeps(g, r[1], merged, Len(merged))
           swept == f[Len(merged)]
<1>1. r[1] \in Int /\ r[2] \in Int /\ spans \in SUBSET ((r[1] .. r[2]) \X (r[1] .. r[2]))
  BY SpansLieWithin
<1>2. Faithful(merged, spans)
  <2> HIDE DEF spans
  <2> QED BY <1>1, MergedAreFaithful
<1>3. Len(merged) \in Nat
  BY <1>2 DEF Faithful
<1>4. Sweeps(f, r[1], merged, Len(merged))
  <2> HIDE DEF merged
  <2>1. \E g : Sweeps(g, r[1], merged, Len(merged))
    BY <1>3, SweepsAll
  <2> QED BY <2>1
<1>5. MissingSpans(Loaded(r), r) =
        IF swept.cursor <= r[2] THEN Append(swept.missing, <<swept.cursor, r[2]>>) ELSE swept.missing
  BY DEF MissingSpans, Sweeps, Sweeping
<1> HIDE DEF merged, f
<1>6. UpToHere(swept, r[1], spans)
  <2>1. Len(merged) \in 0 .. Len(merged)
    BY <1>3
  <2> HIDE DEF spans
  <2> QED BY <1>1, <1>2, <1>4, <2>1, SweepsFaithfully
<1> HIDE DEF swept, spans
<1>7. swept.missing \in Seq(DaySpan) /\ swept.cursor \in Int
  BY <1>6 DEF UpToHere
<1>8. ~(swept.cursor <= r[2]) /\ swept.missing = << >>
  <2>1. <<swept.cursor, r[2]>> \in DaySpan
    BY <1>1, <1>7 DEF DaySpan
  <2>2. Append(swept.missing, <<swept.cursor, r[2]>>) # << >>
    BY <1>7, <2>1
  <2> QED BY <1>5, <2>2
<1>9. \A d \in r[1] .. r[2] : Spanned(d, spans)
  BY <1>1, <1>6, <1>7, <1>8 DEF UpToHere
<1> QED BY <1>9, SpansLieWithin DEF spans

\* What was taken from windows or appended as one still has a window behind each day.
Backed(g, kept) ==
    \A d \in g.range[1] .. g.range[2] :
        \E w \in kept : d \in w.from .. w.through /\ ((d \in w.days) = (d \in g.days))

CacheTyped ==
    /\ \A w \in windows : WellFormed(w)
    /\ \A u \in CacheUser : user[u].at # "idle" => user[u].range \in Asked
    /\ given \in Seq([range : Asked, days : SUBSET Nat, via : {"cache", "provider", "configured"}])

CacheInv ==
    /\ CacheTyped
    /\ \A i \in 1 .. Len(given) : given[i].via # "configured" => Backed(given[i], windows)
    /\ FrozenIsProven

\* Windows are only added, so what was backed stays backed.
LEMMA StaysBacked ==
    ASSUME NEW g, windows \subseteq windows', Backed(g, windows)
    PROVE  Backed(g, windows')
BY DEF Backed

\* What was handed out before is as good as it was.
LEMMA NothingHanded ==
    ASSUME CacheInv, given' = given, windows \subseteq windows', CacheTyped'
    PROVE  CacheInv'
<1>1. \A i \in 1 .. Len(given) : given[i].via # "configured" => Backed(given[i], windows')
  BY StaysBacked DEF CacheInv
<1>2. FrozenIsProven'
  BY DEF CacheInv, FrozenIsProven
<1>3. \A i \in 1 .. Len(given') : given'[i].via # "configured" => Backed(given'[i], windows')
  BY <1>1
<1> QED BY <1>2, <1>3 DEF CacheInv, Backed

Given == [range : Asked, days : SUBSET Nat, via : {"cache", "provider", "configured"}]

\* One more is handed out: with windows behind it, if it is not of the configuration,
\* and in agreement with the ones before, if it is of the cache.
LEMMA OneHanded ==
    ASSUME CacheInv, CacheTyped', windows \subseteq windows', NEW g \in Given, given' = Append(given, g),
           g.via # "configured" => Backed(g, windows'),
           g.via = "cache" =>
             \A i \in 1 .. Len(given) : \A d \in g.range[1] .. g.range[2] :
                 (given[i].via # "configured" /\ Inside(d, given[i].range)) =>
                     ((d \in given[i].days) = (d \in g.days))
    PROVE  CacheInv'
<1> DEFINE n == Len(given)
<1>1. given \in Seq(Given) /\ n \in Nat
  BY DEF CacheInv, CacheTyped, Given
<1>2. /\ Len(given') = n + 1 /\ given'[n + 1] = g
      /\ \A i \in 1 .. n : given'[i] = given[i]
  BY <1>1
<1>3. \A i \in 1 .. n + 1 : i \in 1 .. n \/ i = n + 1
  BY <1>1
<1>4. \A i \in 1 .. n : given[i].via # "configured" => Backed(given[i], windows')
  BY StaysBacked DEF CacheInv
<1>5. ASSUME NEW i \in 1 .. n + 1, given'[i].via # "configured" PROVE Backed(given'[i], windows')
  <2>1. CASE i \in 1 .. n
    BY <1>2, <1>4, <1>5, <2>1
  <2>2. CASE i = n + 1
    BY <1>2, <1>5, <2>2
  <2> QED BY <1>3, <2>1, <2>2
<1>6. ASSUME NEW j \in 1 .. n + 1, given'[j].via = "cache",
             NEW d \in given'[j].range[1] .. given'[j].range[2]
      PROVE  /\ \E w \in windows' : /\ d \in w.from .. w.through
                                    /\ (d \in w.days) = (d \in given'[j].days)
             /\ \A i \in 1 .. j - 1 :
                  (given'[i].via # "configured" /\ Inside(d, given'[i].range)) =>
                      ((d \in given'[i].days) = (d \in given'[j].days))
  <2>1. CASE j \in 1 .. n
    <3>1. given'[j] = given[j] /\ \A i \in 1 .. j - 1 : i \in 1 .. n /\ given'[i] = given[i]
      BY <1>1, <1>2, <2>1
    <3>2. /\ \E w \in windows : /\ d \in w.from .. w.through
                                /\ (d \in w.days) = (d \in given[j].days)
          /\ \A i \in 1 .. j - 1 :
               (given[i].via # "configured" /\ Inside(d, given[i].range)) =>
                   ((d \in given[i].days) = (d \in given[j].days))
      BY <1>6, <2>1, <3>1 DEF CacheInv, FrozenIsProven
    <3> QED BY <3>1, <3>2
  <2>2. CASE j = n + 1
    <3>1. given'[j] = g /\ \A i \in 1 .. j - 1 : i \in 1 .. n /\ given'[i] = given[i]
      BY <1>1, <1>2, <2>2
    <3>2. \E w \in windows' : /\ d \in w.from .. w.through
                              /\ (d \in w.days) = (d \in g.days)
      BY <1>6, <3>1 DEF Backed
    <3>3. \A i \in 1 .. n : (given[i].via # "configured" /\ Inside(d, given[i].range)) =>
                               ((d \in given[i].days) = (d \in g.days))
      BY <1>6, <3>1
    <3> QED BY <3>1, <3>2, <3>3
  <2> QED BY <1>3, <2>1, <2>2
<1>7. FrozenIsProven'
  BY <1>2, <1>6 DEF FrozenIsProven
<1>8. \A i \in 1 .. Len(given') : given'[i].via # "configured" => Backed(given'[i], windows')
  BY <1>2, <1>5
<1> QED BY <1>7, <1>8 DEF CacheInv, Backed

\* The ranges are of days.
LEMMA RangeIs ==
    ASSUME NEW r \in Asked
    PROVE  r \in Nat \X Nat /\ r[1] \in Nat /\ r[2] \in Nat /\ r[1] <= r[2]
<1>1. r \in Nat \X Nat /\ r[1] <= r[2]
  BY CacheAssumption
<1> QED BY <1>1

\* A frozen range is backed by its windows, which agree with all that were behind what
\* was handed out before.
LEMMA FrozenIs ==
    ASSUME CacheInv, NEW r \in Asked, Frozen(r) = "frozen",
           NEW g, g = [range |-> r, days |-> TradingDays(Loaded(r), r), via |-> "cache"]
    PROVE  /\ g \in Given /\ Backed(g, windows)
           /\ \A i \in 1 .. Len(given) : \A d \in r[1] .. r[2] :
                (given[i].via # "configured" /\ Inside(d, given[i].range)) =>
                    ((d \in given[i].days) = (d \in g.days))
<1>1. r \in Nat \X Nat /\ r[1] \in Nat /\ r[2] \in Nat /\ r[1] <= r[2]
  BY RangeIs
<1>2. \A w \in windows : WellFormed(w)
  BY DEF CacheInv, CacheTyped
<1>3. Consistent(Loaded(r)) /\ MissingSpans(Loaded(r), r) = << >>
  BY DEF Frozen
<1>4. \A d \in r[1] .. r[2] : \E w \in Loaded(r) : d \in w.from .. w.through
  BY <1>1, <1>2, <1>3, SweepIsSound
<1>5. \A w \in Loaded(r) : w \in windows /\ WellFormed(w)
  BY <1>2 DEF Loaded
<1>6. ASSUME NEW d \in r[1] .. r[2], NEW w \in Loaded(r), d \in w.from .. w.through
      PROVE  (d \in w.days) = (d \in g.days)
  <2>1. d \in g.days <=> \E v \in Loaded(r) : d \in v.days
    BY <1>1, <1>6 DEF TradingDays, Inside
  <2>2. ASSUME NEW v \in Loaded(r), d \in v.days PROVE d \in w.days
    <3>1. d \in v.from .. v.through
      BY <1>5, <2>2 DEF WellFormed
    <3>2. ~Disagree(v, w)
      BY <1>3 DEF Consistent
    <3> QED BY <1>6, <2>2, <3>1, <3>2 DEF Disagree
  <2> QED BY <2>1, <2>2
<1>7. Backed(g, windows)
  <2> SUFFICES ASSUME NEW d \in r[1] .. r[2]
               PROVE  \E w \in windows : d \in w.from .. w.through /\ ((d \in w.days) = (d \in g.days))
    BY DEF Backed
  <2>1. PICK w \in Loaded(r) : d \in w.from .. w.through
    BY <1>4
  <2> QED BY <1>5, <1>6, <2>1
<1>8. g.days \in SUBSET Nat
  <2>1. \A w \in Loaded(r) : w.days \subseteq Nat
    BY <1>5 DEF WellFormed
  <2> QED BY <2>1 DEF TradingDays
<1>9. ASSUME NEW i \in 1 .. Len(given), NEW d \in r[1] .. r[2], given[i].via # "configured",
             Inside(d, given[i].range)
      PROVE  (d \in given[i].days) = (d \in g.days)
  <2>1. Backed(given[i], windows)
    BY <1>9 DEF CacheInv
  <2>2. d \in Nat /\ given[i].range \in Asked
    <3>1. given \in Seq(Given)
      BY DEF CacheInv, CacheTyped, Given
    <3>2. given[i] \in Given
      BY <3>1
    <3> QED BY <1>1, <3>2 DEF Given
  <2>3. d \in given[i].range[1] .. given[i].range[2]
    BY <1>9, <2>2, RangeIs DEF Inside
  <2>4. PICK w \in windows : d \in w.from .. w.through /\ ((d \in w.days) = (d \in given[i].days))
    BY <2>1, <2>3 DEF Backed
  <2>5. w \in Loaded(r)
    BY <1>1, <1>2, <2>2, <2>4 DEF Loaded, WellFormed
  <2> QED BY <1>6, <2>4, <2>5
<1> QED BY <1>7, <1>8, <1>9 DEF Given

\* There are no windows.
LEMMA CacheInitInv == CalendarInit => CacheInv
BY DEF CalendarInit, CacheInv, CacheTyped, FrozenIsProven, Idle

\* A record of what is handed out keeps the sequence one of such records.
LEMMA GivenGrows ==
    ASSUME CacheInv, NEW g \in Given
    PROVE  Append(given, g) \in Seq(Given)
<1>1. given \in Seq(Given)
  BY DEF CacheInv, CacheTyped, Given
<1> QED BY <1>1

\* A user that goes on or stops keeps the range it was asked for.
LEMMA UserMoves ==
    ASSUME CacheInv, NEW u \in CacheUser, NEW next,
           next.at # "idle" => next.range \in Asked,
           user' = [user EXCEPT ![u] = next]
    PROVE  \A v \in CacheUser : user'[v].at # "idle" => user'[v].range \in Asked
BY DEF CacheInv, CacheTyped

\* Every step keeps the invariant.
LEMMA CacheStepInv == CacheInv /\ [CalendarNext]_calendarVars => CacheInv'
<1> SUFFICES ASSUME CacheInv, [CalendarNext]_calendarVars PROVE CacheInv'
  OBVIOUS
<1>0. /\ \A w \in windows : WellFormed(w)
      /\ \A v \in CacheUser : user[v].at # "idle" => user[v].range \in Asked
      /\ given \in Seq(Given)
  BY DEF CacheInv, CacheTyped, Given
<1>1. ASSUME NEW u \in CacheUser, NEW r \in Asked, BeginSnapshot(u, r) PROVE CacheInv'
  <2>1. windows' = windows
    BY <1>1 DEF BeginSnapshot
  <2>2. CASE user' = user /\ Hand(r, Configured.days, "configured")
    <3> DEFINE g == [range |-> r, days |-> Configured.days, via |-> "configured"]
    <3>1. g \in Given /\ given' = Append(given, g) /\ g.via = "configured"
      BY <2>2, CacheAssumption DEF Given, Hand
    <3> HIDE DEF g
    <3>2. CacheTyped'
      BY <1>0, <2>1, <2>2, <3>1, GivenGrows DEF CacheTyped, Given
    <3> QED BY <2>1, <3>1, <3>2, OneHanded
  <2>3. CASE At(u, "freeze", r) /\ given' = given
    <3>1. \A v \in CacheUser : user'[v].at # "idle" => user'[v].range \in Asked
      BY <2>3, UserMoves DEF At
    <3>2. CacheTyped'
      BY <1>0, <2>1, <2>3, <3>1 DEF CacheTyped, Given
    <3> QED BY <2>1, <2>3, <3>2, NothingHanded
  <2> QED BY <1>1, <2>2, <2>3 DEF BeginSnapshot
<1>2. ASSUME NEW u \in CacheUser, FreezeSnapshot(u) PROVE CacheInv'
  <2> DEFINE r == user[u].range
             g == [range |-> r, days |-> TradingDays(Loaded(r), r), via |-> "cache"]
  <2>1. windows' = windows /\ r \in Asked
    BY <1>0, <1>2 DEF FreezeSnapshot
  <2>2. \A v \in CacheUser : user'[v].at # "idle" => user'[v].range \in Asked
    <3>1. user' = [user EXCEPT ![u] = Idle] \/ user' = [user EXCEPT ![u] = [at |-> "fetch", range |-> r]]
      BY <1>2 DEF FreezeSnapshot, Done, At
    <3>2. Idle.at = "idle" /\ [at |-> "fetch", range |-> r].range \in Asked
      BY <2>1 DEF Idle
    <3> QED BY <3>1, <3>2, UserMoves
  <2>3. CASE Frozen(r) = "frozen" /\ given' = Append(given, g)
    <3>1. /\ g \in Given /\ Backed(g, windows) /\ g.range = r
          /\ \A i \in 1 .. Len(given) : \A d \in r[1] .. r[2] :
                (given[i].via # "configured" /\ Inside(d, given[i].range)) =>
                    ((d \in given[i].days) = (d \in g.days))
      <4>1. r \in Asked
        BY <2>1
      <4> HIDE DEF r
      <4> QED BY <2>3, <4>1, FrozenIs
    <3> HIDE DEF g, r
    <3>2. CacheTyped'
      BY <1>0, <2>1, <2>2, <2>3, <3>1, GivenGrows DEF CacheTyped, Given
    <3> QED BY <2>1, <2>3, <3>1, <3>2, OneHanded
  <2>4. CASE given' = given
    <3>1. CacheTyped'
      BY <1>0, <2>1, <2>2, <2>4 DEF CacheTyped, Given
    <3> QED BY <2>1, <2>4, <3>1, NothingHanded
  <2> QED BY <1>2, <2>3, <2>4 DEF FreezeSnapshot, Hand
<1>3. ASSUME NEW u \in CacheUser, FetchCalendar(u) \/ SaveWindowFails(u) \/ UserDies(u) PROVE CacheInv'
  <2>1. /\ windows' = windows /\ given' = given /\ user[u].at # "idle"
        /\ \/ user' = [user EXCEPT ![u] = Idle]
           \/ user' = [user EXCEPT ![u] = [at |-> "save", range |-> user[u].range]]
    BY <1>3 DEF FetchCalendar, SaveWindowFails, UserDies, Done, At
  <2>2. Idle.at = "idle" /\ [at |-> "save", range |-> user[u].range].range \in Asked
    BY <1>0, <2>1 DEF Idle
  <2>3. \A v \in CacheUser : user'[v].at # "idle" => user'[v].range \in Asked
    BY <2>1, <2>2, UserMoves
  <2>4. CacheTyped'
    BY <1>0, <2>1, <2>3 DEF CacheTyped, Given
  <2> QED BY <2>1, <2>4, NothingHanded
<1>4. ASSUME NEW u \in CacheUser, SaveWindow(u) PROVE CacheInv'
  <2> DEFINE r == user[u].range
  <2>1. r \in Asked /\ user' = [user EXCEPT ![u] = Idle]
    BY <1>0, <1>4 DEF SaveWindow, Done
  <2>2. PICK t \in Told :
          LET said == {d \in t : Inside(d, r)} IN
          /\ windows' = windows \cup {[from |-> r[1], through |-> r[2], days |-> said]}
          /\ Hand(r, said, "provider") \/ UNCHANGED given
    BY <1>4 DEF SaveWindow
  <2> DEFINE said == {d \in t : Inside(d, r)}
             w == [from |-> r[1], through |-> r[2], days |-> said]
             g == [range |-> r, days |-> said, via |-> "provider"]
  <2>3. /\ said \in SUBSET Nat /\ said \subseteq r[1] .. r[2]
        /\ r[1] \in Nat /\ r[2] \in Nat /\ r[1] <= r[2]
    <3>1. t \subseteq Nat
      BY CacheAssumption
    <3>2. r[1] \in Nat /\ r[2] \in Nat /\ r[1] <= r[2]
      BY <2>1, RangeIs
    <3>3. \A d \in said : d \in Nat /\ r[1] <= d /\ d <= r[2]
      BY <3>1 DEF Inside
    <3> HIDE DEF said, r
    <3> QED BY <3>2, <3>3
  <2>4. WellFormed(w) /\ windows' = windows \cup {w} /\ w.days = said /\ w.from = r[1] /\ w.through = r[2]
    BY <2>2, <2>3 DEF WellFormed
  <2>5. \A v \in CacheUser : user'[v].at # "idle" => user'[v].range \in Asked
    BY <2>1, UserMoves DEF Idle
  <2>6. CASE given' = given
    <3>1. CacheTyped'
      BY <1>0, <2>4, <2>5, <2>6 DEF CacheTyped, Given
    <3> QED BY <2>4, <2>6, <3>1, NothingHanded
  <2>7. CASE given' = Append(given, g)
    <3>1. g \in Given /\ g.via = "provider" /\ g.days = said /\ g.range = r
      BY <2>1, <2>3 DEF Given
    <3> HIDE DEF g, w, r, said
    <3>2. CacheTyped'
      BY <1>0, <2>4, <2>5, <2>7, <3>1, GivenGrows DEF CacheTyped, Given
    <3>3. Backed(g, windows')
      BY <2>4, <3>1 DEF Backed
    <3> QED BY <2>4, <2>7, <3>1, <3>2, <3>3, OneHanded
  <2> QED BY <2>2, <2>6, <2>7 DEF Hand
<1>5. ASSUME NEW u \in CacheUser, NEW r \in Asked, Review(u, r) PROVE CacheInv'
  <2> DEFINE g == [range |-> r, days |-> TradingDays(Loaded(r), r), via |-> "cache"]
             h == [range |-> r, days |-> {d \in Configured.days : Inside(d, r)}, via |-> "configured"]
  <2>1. windows' = windows /\ user' = user
    BY <1>5 DEF Review
  <2>2. CASE Frozen(r) = "frozen" /\ given' = Append(given, g)
    <3>1. /\ g \in Given /\ Backed(g, windows) /\ g.range = r
          /\ \A i \in 1 .. Len(given) : \A d \in r[1] .. r[2] :
                (given[i].via # "configured" /\ Inside(d, given[i].range)) =>
                    ((d \in given[i].days) = (d \in g.days))
      BY <2>2, FrozenIs
    <3> HIDE DEF g
    <3>2. CacheTyped'
      BY <1>0, <2>1, <2>2, <3>1, GivenGrows DEF CacheTyped, Given
    <3> QED BY <2>1, <2>2, <3>1, <3>2, OneHanded
  <2>3. CASE given' = Append(given, h)
    <3>1. h \in Given /\ h.via = "configured"
      BY CacheAssumption DEF Given
    <3> HIDE DEF h
    <3>2. CacheTyped'
      BY <1>0, <2>1, <2>3, <3>1, GivenGrows DEF CacheTyped, Given
    <3> QED BY <2>1, <2>3, <3>1, <3>2, OneHanded
  <2> QED BY <1>5, <2>2, <2>3 DEF Review, Hand
<1>6. CASE UNCHANGED calendarVars
  <2>1. CacheTyped'
    BY <1>0, <1>6 DEF CacheTyped, Given, calendarVars
  <2> QED BY <1>6, <2>1, NothingHanded DEF calendarVars
<1> QED BY <1>1, <1>2, <1>3, <1>4, <1>5, <1>6 DEF CalendarNext

\* The trading days frozen from the cache are proven by stored windows, and agree with
\* every calendar of the cache or of a provider that was handed out before, whatever
\* windows the commands append and however these overlap. (Dataset.Freeze)
THEOREM FrozenIsProvenHolds == CalendarSpec => []FrozenIsProven
<1>1. CalendarSpec => []CacheInv
  <2>1. CacheInv /\ [CalendarNext]_calendarVars => CacheInv'
    BY CacheStepInv
  <2> QED BY <2>1, CacheInitInv, PTL DEF CalendarSpec
<1>2. CacheInv => FrozenIsProven
  BY DEF CacheInv
<1> QED BY <1>1, <1>2, PTL

-----------------------------------------------------------------------------
(***************************************************************************)
(* Chanlun, for any bars, however prices move and whatever a stroke spans. *)
(*                                                                         *)
(* Merging and the search for fractals go through the bars one after the   *)
(* other, so an answer with one more bar is one more step of each          *)
(* recursion: two of them over the same bars are the same (BarsMergeAlike, *)
(* FindsAlike). The bar that is combined lies on the same side of the one  *)
(* before it (CombinedGoesOn), and a fractal that is found is added or     *)
(* takes the place of a less extreme one (AppendStays).                    *)
(***************************************************************************)

PriceBar == [high : Int, low : Int, time : Int]
Fractal == [mark : {"top", "bottom"}, at : Int, time : Int, high : Int, low : Int]

\* What merging has after n bars: the merged ones, of which there are some if n > 0.
MergedAfter(merging, n) ==
    /\ merging \in [out : Seq(PriceBar), direction : Int]
    /\ n > 0 => merging.out # << >>

\* A bar went on: it is a new one at the end, or the last one was combined with it
\* and lies as far from the one before it as the last one did.
Extends(longer, merged) ==
    LET n == Len(merged) IN
    \/ /\ Len(longer) = n + 1
       /\ \A i \in 1 .. n : longer[i] = merged[i]
    \/ /\ Len(longer) = n /\ n >= 2
       /\ \A i \in 1 .. n - 1 : longer[i] = merged[i]
       /\ Below(merged[n], merged[n - 1]) => Below(longer[n], merged[n - 1])
       /\ Below(merged[n - 1], merged[n]) => Below(merged[n - 1], longer[n])

\* Where the last bar ended a fall the combined one falls no less, and where it
\* ended a rise it rises no less.
LEMMA CombinedGoesOn ==
    ASSUME NEW a \in PriceBar, NEW b \in PriceBar, NEW bar \in PriceBar, NEW fallback \in Int
    PROVE  LET direction == InclusionDirection(a, b, fallback)
               c == Combined(b, bar, direction)
           IN  /\ direction \in Int /\ c \in PriceBar
               /\ Below(b, a) => Below(c, a)
               /\ Below(a, b) => Below(a, c)
<1> DEFINE direction == InclusionDirection(a, b, fallback)
           c == Combined(b, bar, direction)
<1>1. direction \in Int
  BY DEF InclusionDirection
<1>2. /\ a.high \in Int /\ a.low \in Int /\ b.high \in Int /\ b.low \in Int /\ b.time \in Int
      /\ bar.high \in Int /\ bar.low \in Int /\ bar.time \in Int
  BY DEF PriceBar
<1>3. Below(b, a) => direction = -1
  BY <1>2 DEF InclusionDirection, Below
<1>4. Below(a, b) => direction = 1
  BY <1>2 DEF InclusionDirection, Below
<1> HIDE DEF direction
<1>5. c \in PriceBar
  BY <1>1, <1>2 DEF Combined, Larger, Smaller, PriceBar
<1>6. direction = -1 => c.high <= b.high /\ c.low <= b.low
  BY <1>2 DEF Combined, Larger, Smaller
<1>7. direction = 1 => c.high >= b.high /\ c.low >= b.low
  BY <1>2 DEF Combined, Larger, Smaller
<1>8. c.high \in Int /\ c.low \in Int
  BY <1>5 DEF PriceBar
<1> HIDE DEF c
<1>9. (Below(b, a) => Below(c, a)) /\ (Below(a, b) => Below(a, c))
  BY <1>2, <1>3, <1>4, <1>6, <1>7, <1>8 DEF Below
<1> QED BY <1>1, <1>5, <1>9 DEF direction, c

\* A bar is added or combined, and there are merged bars.
LEMMA MergeBarExtends ==
    ASSUME NEW m, NEW n \in Nat, MergedAfter(m, n), NEW bar \in PriceBar
    PROVE  /\ MergedAfter(MergeBar(m, bar), n + 1)
           /\ n > 0 => Extends(MergeBar(m, bar).out, m.out)
<1> DEFINE out == m.out
           k == Len(out)
           direction == InclusionDirection(out[k - 1], out[k], m.direction)
           c == Combined(out[k], bar, direction)
           longer == Append(out, bar)
<1>1. out \in Seq(PriceBar) /\ k \in Nat /\ m.direction \in Int /\ m = [out |-> out, direction |-> m.direction]
  BY DEF MergedAfter
<1>2. /\ longer \in Seq(PriceBar) /\ Len(longer) = k + 1 /\ longer # << >>
      /\ \A i \in 1 .. k : longer[i] = out[i]
  BY <1>1
<1>3. Extends(longer, out)
  <2> HIDE DEF longer, out
  <2> QED BY <1>2 DEF Extends
<1>4. CASE k < 2
  <2>1. MergeBar(m, bar) = [out |-> longer, direction |-> m.direction]
    BY <1>1, <1>4 DEF MergeBar
  <2> HIDE DEF longer, out
  <2> QED BY <1>1, <1>2, <1>3, <2>1 DEF MergedAfter, out
<1>5. CASE ~(k < 2)
  <2>1. k - 1 \in 1 .. k /\ k \in 1 .. k /\ out[k - 1] \in PriceBar /\ out[k] \in PriceBar
    BY <1>1, <1>5
  <2>2. /\ direction \in Int /\ c \in PriceBar
        /\ Below(out[k], out[k - 1]) => Below(c, out[k - 1])
        /\ Below(out[k - 1], out[k]) => Below(out[k - 1], c)
    <3> HIDE DEF out, k
    <3> QED BY <1>1, <2>1, CombinedGoesOn
  <2>3. CASE ~(Includes(out[k], bar) \/ Includes(bar, out[k]))
    <3>1. MergeBar(m, bar) = [out |-> longer, direction |-> direction]
      BY <1>5, <2>3 DEF MergeBar
    <3> HIDE DEF longer, out, direction
    <3> QED BY <1>1, <1>2, <1>3, <2>2, <3>1 DEF MergedAfter, out
  <2>4. CASE Includes(out[k], bar) \/ Includes(bar, out[k])
    <3> DEFINE new == [out EXCEPT ![k] = c]
    <3>1. MergeBar(m, bar) = [out |-> new, direction |-> direction]
      BY <1>5, <2>4 DEF MergeBar
    <3>2. /\ new \in Seq(PriceBar) /\ Len(new) = k /\ new[k] = c
          /\ \A i \in 1 .. k - 1 : new[i] = out[i]
      <4> HIDE DEF c, out
      <4> QED BY <1>1, <2>1, <2>2, ExceptSeq
    <3>3. new # << >>
      BY <1>5, <3>2
    <3>4. Extends(new, out)
      <4> HIDE DEF new, out, c
      <4> QED BY <1>1, <1>5, <2>2, <3>2 DEF Extends
    <3> HIDE DEF new, out, direction
    <3> QED BY <1>1, <2>2, <3>1, <3>2, <3>3, <3>4 DEF MergedAfter, out
  <2> QED BY <2>3, <2>4
<1> QED BY <1>4, <1>5

\* What merging has after n bars, and what it has after each of m.
BarMerging(f, bars, n) == IF n = 0 THEN [out |-> << >>, direction |-> 0] ELSE MergeBar(f[n - 1], bars[n])
BarsMerge(f, bars, m) == f = [n \in 0 .. m |-> BarMerging(f, bars, n)]

\* The recursion is well founded.
LEMMA BarsMergeEvery ==
    ASSUME NEW bars
    PROVE  \A m \in Nat : \E f : BarsMerge(f, bars, m)
<1> DEFINE Undefined == {m \in Nat : ~\E f : BarsMerge(f, bars, m)}
<1> SUFFICES ASSUME Undefined # {} PROVE FALSE
  OBVIOUS
<1>1. PICK m \in Nat : m \in Undefined /\ \A k \in Undefined : m <= k
  <2>1. Undefined \in SUBSET Nat
    OBVIOUS
  <2> HIDE DEF Undefined
  <2> QED BY <2>1, LeastIn
<1>2. m # 0
  <2> DEFINE f == [n \in 0 .. 0 |-> [out |-> << >>, direction |-> 0]]
  <2>1. f = [n \in 0 .. 0 |-> BarMerging(f, bars, n)]
    BY DEF BarMerging
  <2>2. BarsMerge(f, bars, 0)
    BY <2>1 DEF BarsMerge
  <2> QED BY <2>2
<1>3. m \in Nat /\ m - 1 \in Nat /\ m - 1 \notin Undefined
  <2>1. m \in Nat
    BY <1>1
  <2> HIDE DEF Undefined
  <2>2. m - 1 \in Nat /\ ~(m <= m - 1)
    BY <1>2, <2>1
  <2>3. m - 1 \notin Undefined
    BY <1>1, <2>2
  <2> QED BY <2>1, <2>2, <2>3
<1>4. PICK g : BarsMerge(g, bars, m - 1)
  BY <1>3
<1>5. PICK f : f = [n \in 0 .. m |-> IF n = m THEN MergeBar(g[m - 1], bars[m]) ELSE g[n]]
  OBVIOUS
<1>6. /\ \A n \in 0 .. m - 1 : g[n] = BarMerging(g, bars, n) /\ f[n] = g[n]
      /\ f[m] = MergeBar(g[m - 1], bars[m])
  <2>1. \A n \in 0 .. m - 1 : g[n] = BarMerging(g, bars, n)
    <3>1. g = [n \in 0 .. m - 1 |-> BarMerging(g, bars, n)]
      BY <1>4, Zenon DEF BarsMerge
    <3> HIDE DEF BarMerging
    <3> QED BY <3>1, Zenon
  <2>2. \A n \in 0 .. m - 1 : n \in 0 .. m /\ n # m
    BY <1>3
  <2>3. \A n \in 0 .. m - 1 : f[n] = g[n]
    BY <1>5, <2>2, Zenon
  <2>4. f[m] = MergeBar(g[m - 1], bars[m])
    <3>1. m \in 0 .. m
      BY <1>3
    <3> QED BY <1>5, <3>1, Zenon
  <2> QED BY <2>1, <2>3, <2>4
<1>7. ASSUME NEW n \in 0 .. m PROVE f[n] = BarMerging(f, bars, n)
  <2>1. CASE n = m
    <3>1. f[m - 1] = g[m - 1]
      BY <1>3, <1>6
    <3> QED BY <1>2, <1>6, <2>1, <3>1 DEF BarMerging
  <2>2. CASE n # m
    <3>1. n \in 0 .. m - 1 /\ (n # 0 => n - 1 \in 0 .. m - 1)
      BY <1>3, <2>2
    <3> QED BY <1>6, <3>1 DEF BarMerging
  <2> QED BY <2>1, <2>2
<1>8. f = [n \in 0 .. m |-> f[n]]
  <2>1. \A n \in 0 .. m : f[n] = IF n = m THEN MergeBar(g[m - 1], bars[m]) ELSE g[n]
    BY <1>5, Zenon
  <2> QED BY <1>5, <2>1, Zenon
<1>9. BarsMerge(f, bars, m)
  <2>1. [n \in 0 .. m |-> f[n]] = [n \in 0 .. m |-> BarMerging(f, bars, n)]
    BY <1>7, Zenon
  <2> QED BY <1>8, <2>1, Zenon DEF BarsMerge
<1> QED
  <2>1. \E h : BarsMerge(h, bars, m)
    BY <1>9, Zenon
  <2> HIDE DEF BarsMerge
  <2> QED BY <1>1, <2>1

\* Over the bars they have in common two mergings are the same.
LEMMA BarsMergeAlike ==
    ASSUME NEW bars, NEW others, NEW m \in Nat, NEW k \in Nat, m <= k,
           \A i \in 1 .. m : bars[i] = others[i],
           NEW f, BarsMerge(f, bars, m), NEW g, BarsMerge(g, others, k)
    PROVE  \A n \in 0 .. m : f[n] = g[n]
<1> DEFINE Differ == {n \in 0 .. m : f[n] # g[n]}
<1> SUFFICES ASSUME Differ # {} PROVE FALSE
  OBVIOUS
<1>1. Differ \in SUBSET Nat
  OBVIOUS
<1>2. PICK n \in Differ : \A j \in Differ : n <= j
  <2> HIDE DEF Differ
  <2> QED BY <1>1, LeastIn
<1>3. n \in 0 .. m /\ n \in 0 .. k
  BY <1>2
<1>4. f[n] = BarMerging(f, bars, n) /\ g[n] = BarMerging(g, others, n)
  BY <1>3 DEF BarsMerge
<1>5. CASE n = 0
  BY <1>2, <1>4, <1>5 DEF BarMerging
<1>6. CASE n # 0
  <2>1. n - 1 \in 0 .. m /\ n - 1 \notin Differ /\ n \in 1 .. m
    BY <1>2, <1>3, <1>6
  <2>2. f[n - 1] = g[n - 1] /\ bars[n] = others[n]
    BY <2>1
  <2> QED BY <1>2, <1>4, <1>6, <2>2 DEF BarMerging
<1> QED BY <1>5, <1>6

\* What is merged after each bar are bars.
LEMMA BarsMergeTyped ==
    ASSUME NEW bars \in Seq(PriceBar), NEW m \in 0 .. Len(bars), NEW f, BarsMerge(f, bars, m)
    PROVE  \A n \in 0 .. m : MergedAfter(f[n], n)
<1> DEFINE Bad == {n \in 0 .. m : ~MergedAfter(f[n], n)}
<1> SUFFICES ASSUME Bad # {} PROVE FALSE
  OBVIOUS
<1>1. Bad \in SUBSET Nat
  OBVIOUS
<1>2. PICK n \in Bad : \A j \in Bad : n <= j
  <2> HIDE DEF Bad
  <2> QED BY <1>1, LeastIn
<1>3. n \in 0 .. m /\ f[n] = BarMerging(f, bars, n)
  BY <1>2 DEF BarsMerge
<1>4. CASE n = 0
  <2>1. f[n] = [out |-> << >>, direction |-> 0] /\ << >> \in Seq(PriceBar)
    BY <1>3, <1>4 DEF BarMerging
  <2>2. MergedAfter(f[n], n)
    BY <1>4, <2>1 DEF MergedAfter
  <2> QED BY <1>2, <2>2
<1>5. CASE n # 0
  <2>1. n - 1 \in 0 .. m /\ n - 1 \in Nat /\ n - 1 \notin Bad /\ n \in 1 .. Len(bars)
    BY <1>2, <1>3, <1>5
  <2>2. MergedAfter(f[n - 1], n - 1) /\ bars[n] \in PriceBar
    BY <2>1
  <2>3. MergedAfter(MergeBar(f[n - 1], bars[n]), n - 1 + 1)
    BY <2>1, <2>2, MergeBarExtends
  <2>4. n - 1 + 1 = n
    BY <2>1
  <2> QED BY <1>2, <1>3, <1>5, <2>3, <2>4 DEF BarMerging
<1> QED BY <1>4, <1>5

\* What MergedBars computes is the recursion at its end.
LEMMA MergedBarsAre ==
    ASSUME NEW bars \in Seq(PriceBar)
    PROVE  \E f : BarsMerge(f, bars, Len(bars)) /\ MergedBars(bars) = f[Len(bars)].out
<1> DEFINE f == CHOOSE g : BarsMerge(g, bars, Len(bars))
<1>1. \E g : BarsMerge(g, bars, Len(bars))
  BY BarsMergeEvery
<1>2. BarsMerge(f, bars, Len(bars))
  BY <1>1
<1>3. MergedBars(bars) = f[Len(bars)].out
  BY DEF MergedBars, BarsMerge, BarMerging
<1> QED BY <1>2, <1>3

\* One more bar is added to the merged ones or combined with the last of them.
LEMMA MergedExtend ==
    ASSUME NEW bars \in Seq(PriceBar), bars # << >>, NEW bar \in PriceBar
    PROVE  /\ MergedBars(bars) \in Seq(PriceBar) /\ MergedBars(bars) # << >>
           /\ MergedBars(Append(bars, bar)) \in Seq(PriceBar)
           /\ Extends(MergedBars(Append(bars, bar)), MergedBars(bars))
<1> DEFINE n == Len(bars)
           more == Append(bars, bar)
<1>1. /\ n \in Nat /\ n > 0 /\ more \in Seq(PriceBar) /\ Len(more) = n + 1 /\ more[n + 1] = bar
      /\ \A i \in 1 .. n : bars[i] = more[i]
  OBVIOUS
<1>2. PICK f : BarsMerge(f, bars, n) /\ MergedBars(bars) = f[n].out
  BY MergedBarsAre
<1> HIDE DEF more
<1>3. PICK g : BarsMerge(g, more, n + 1) /\ MergedBars(more) = g[n + 1].out
  BY <1>1, MergedBarsAre
<1>4. f[n] = g[n]
  <2>1. n <= n + 1 /\ n + 1 \in Nat /\ n \in 0 .. n
    BY <1>1
  <2>2. \A i \in 0 .. n : f[i] = g[i]
    <3> HIDE DEF n
    <3> QED BY <1>1, <1>2, <1>3, <2>1, BarsMergeAlike
  <2> QED BY <2>1, <2>2
<1>5. g[n + 1] = MergeBar(g[n], bar)
  <2>1. n + 1 \in 0 .. n + 1 /\ n + 1 # 0 /\ n + 1 - 1 = n
    BY <1>1
  <2>2. g[n + 1] = BarMerging(g, more, n + 1)
    BY <1>3, <2>1 DEF BarsMerge
  <2> QED BY <1>1, <2>1, <2>2 DEF BarMerging
<1>6. MergedAfter(f[n], n)
  BY <1>1, <1>2, BarsMergeTyped
<1>7. MergedAfter(g[n + 1], n + 1) /\ Extends(g[n + 1].out, f[n].out)
  BY <1>1, <1>4, <1>5, <1>6, MergeBarExtends
<1>8. n + 1 > 0
  BY <1>1
<1> QED BY <1>1, <1>2, <1>3, <1>6, <1>7, <1>8 DEF MergedAfter, more
\* What was found after bar i, and what was after each one up to m.
Finding(f, merged, i) == IF i = 1 THEN << >> ELSE Considered(f[i - 1], merged, i)
Finds(f, merged, m) == f = [i \in 1 .. m |-> Finding(f, merged, i)]

\* What FractalsStay says of one answer and a later one.
Stays(before, after) ==
    LET n == Len(before) IN
    n > 0 => /\ Len(after) >= n
             /\ SubSeq(after, 1, n - 1) = SubSeq(before, 1, n - 1)
             /\ \/ after[n] = before[n]
                \/ after[n].mark = before[n].mark /\ MoreExtreme(after[n], before[n])

\* What is the same up to the last fractal and ends with it or a more extreme one.
LEMMA StaysIf ==
    ASSUME NEW before \in Seq(Fractal), NEW after \in Seq(Fractal),
           Len(after) >= Len(before),
           \A i \in 1 .. Len(before) - 1 : after[i] = before[i],
           Len(before) > 0 => LET n == Len(before) IN
               \/ after[n] = before[n]
               \/ after[n].mark = before[n].mark /\ MoreExtreme(after[n], before[n])
    PROVE  Stays(before, after)
<1> SUFFICES ASSUME Len(before) > 0 PROVE Stays(before, after)
  BY DEF Stays
<1> DEFINE n == Len(before)
<1>1. n \in Nat /\ n > 0 /\ n - 1 \in Int /\ n - 1 - 1 + 1 = n - 1
  OBVIOUS
<1>2. \A i \in 1 .. n - 1 : after[i] \in Fractal /\ before[i] \in Fractal /\ 1 + i - 1 = i
  OBVIOUS
<1>3. SubSeq(after, 1, n - 1) = SubSeq(before, 1, n - 1)
  <2>1. /\ SubSeq(after, 1, n - 1) \in Seq(Fractal)
        /\ Len(SubSeq(after, 1, n - 1)) = n - 1
        /\ \A i \in 1 .. n - 1 : SubSeq(after, 1, n - 1)[i] = after[i]
    BY <1>1, <1>2, SubSeqProperties
  <2>2. /\ SubSeq(before, 1, n - 1) \in Seq(Fractal)
        /\ Len(SubSeq(before, 1, n - 1)) = n - 1
        /\ \A i \in 1 .. n - 1 : SubSeq(before, 1, n - 1)[i] = before[i]
    BY <1>1, <1>2, SubSeqProperties
  <2> QED BY <2>1, <2>2, SeqEqual
<1> QED BY <1>3 DEF Stays

\* A fractal that is considered takes none away.
LEMMA AppendStays ==
    ASSUME NEW found \in Seq(Fractal), NEW f \in Fractal
    PROVE  AppendFractal(found, f) \in Seq(Fractal) /\ Stays(found, AppendFractal(found, f))
<1> DEFINE n == Len(found)
<1>1. n \in Nat /\ Last(found) = found[n]
  BY DEF Last
<1>2. CASE found = << >> \/ Last(found).mark # f.mark
  <2>1. AppendFractal(found, f) = Append(found, f)
    BY <1>2 DEF AppendFractal
  <2>2. /\ Append(found, f) \in Seq(Fractal) /\ Len(Append(found, f)) >= n
        /\ \A i \in 1 .. n : Append(found, f)[i] = found[i]
    OBVIOUS
  <2>4. \A new \in Seq(Fractal) :
          Len(new) >= n /\ (\A i \in 1 .. n : new[i] = found[i]) => Stays(found, new)
    <3> SUFFICES ASSUME NEW new \in Seq(Fractal), Len(new) >= n, \A i \in 1 .. n : new[i] = found[i]
                 PROVE  Stays(found, new)
      OBVIOUS
    <3>1. (\A i \in 1 .. n - 1 : new[i] = found[i]) /\ (n > 0 => new[n] = found[n])
      BY <1>1
    <3> QED BY <3>1, StaysIf
  <2> QED BY <2>1, <2>2, <2>4
<1>3. CASE ~(found = << >> \/ Last(found).mark # f.mark) /\ MoreExtreme(f, Last(found))
  <2> DEFINE new == [found EXCEPT ![n] = f]
  <2>1. AppendFractal(found, f) = new
    BY <1>3 DEF AppendFractal
  <2>2. n \in 1 .. n
    BY <1>1, <1>3
  <2>3. new \in Seq(Fractal) /\ Len(new) = n /\ new[n] = f /\ \A i \in 1 .. n - 1 : new[i] = found[i]
    BY <2>2, ExceptSeq
  <2>4. new[n].mark = found[n].mark /\ MoreExtreme(new[n], found[n])
    BY <1>1, <1>3, <2>3
  <2> HIDE DEF new
  <2> QED BY <1>1, <2>1, <2>3, <2>4, StaysIf
<1>4. CASE ~(found = << >> \/ Last(found).mark # f.mark) /\ ~MoreExtreme(f, Last(found))
  <2>1. AppendFractal(found, f) = found
    BY <1>4 DEF AppendFractal
  <2>2. Stays(found, found)
    BY <1>1, StaysIf
  <2> QED BY <2>1, <2>2
<1> QED BY <1>2, <1>3, <1>4

\* So does a bar that is considered.
LEMMA ConsideredStays ==
    ASSUME NEW found \in Seq(Fractal), NEW merged \in Seq(PriceBar), NEW i \in 2 .. Len(merged) - 1
    PROVE  /\ Considered(found, merged, i) \in Seq(Fractal)
           /\ Stays(found, Considered(found, merged, i))
<1> DEFINE F == FractalAt(merged, i)
<1>1. \A f \in F : f \in Fractal
  <2>1. i \in 1 .. Len(merged) /\ merged[i] \in PriceBar /\ i \in Int
    OBVIOUS
  <2>2. \A f \in F : \E mark \in {"top", "bottom"} :
          f = [mark |-> mark, at |-> i, time |-> merged[i].time, high |-> merged[i].high, low |-> merged[i].low]
    BY DEF FractalAt
  <2> QED BY <2>1, <2>2 DEF Fractal, PriceBar
<1>2. CASE F = {}
  <2>1. Considered(found, merged, i) = found
    BY <1>2 DEF Considered
  <2>2. Stays(found, found)
    BY StaysIf
  <2> QED BY <2>1, <2>2
<1>3. CASE F # {}
  <2> DEFINE f == CHOOSE g \in F : TRUE
  <2>1. f \in Fractal
    BY <1>1, <1>3
  <2>2. Considered(found, merged, i) = AppendFractal(found, f)
    BY <1>3 DEF Considered
  <2> HIDE DEF f
  <2> QED BY <2>1, <2>2, AppendStays
<1> QED BY <1>2, <1>3

\* This recursion is well founded too.
LEMMA FindsEvery ==
    ASSUME NEW merged
    PROVE  \A m \in Nat \ {0} : \E f : Finds(f, merged, m)
<1> DEFINE Undefined == {m \in Nat \ {0} : ~\E f : Finds(f, merged, m)}
<1> SUFFICES ASSUME Undefined # {} PROVE FALSE
  OBVIOUS
<1>1. PICK m \in Undefined : \A k \in Undefined : m <= k
  BY LeastIn
<1>2. m # 1
  <2> DEFINE f == [i \in 1 .. 1 |-> << >>]
  <2>1. f = [i \in 1 .. 1 |-> Finding(f, merged, i)]
    BY DEF Finding
  <2>2. Finds(f, merged, 1)
    BY <2>1 DEF Finds
  <2> QED BY <2>2
<1>3. m \in Nat /\ m - 1 \in Nat \ {0} /\ m - 1 \notin Undefined
  BY <1>1, <1>2
<1>4. PICK g : Finds(g, merged, m - 1)
  BY <1>3
<1> DEFINE f == [i \in 1 .. m |-> IF i = m THEN Considered(g[m - 1], merged, m) ELSE g[i]]
<1>5. \A i \in 1 .. m - 1 : g[i] = Finding(g, merged, i) /\ f[i] = g[i]
  <2>1. \A i \in 1 .. m - 1 : i \in 1 .. m /\ i # m
    BY <1>3
  <2>2. \A i \in 1 .. m - 1 : g[i] = Finding(g, merged, i)
    BY <1>4 DEF Finds
  <2> QED BY <2>1, <2>2
<1>6. ASSUME NEW i \in 1 .. m PROVE f[i] = Finding(f, merged, i)
  <2>1. CASE i = m
    <3>1. f[m] = Considered(g[m - 1], merged, m)
      BY <1>3
    <3>2. f[m - 1] = g[m - 1]
      BY <1>3, <1>5
    <3> HIDE DEF f
    <3> QED BY <1>2, <2>1, <3>1, <3>2 DEF Finding
  <2>2. CASE i # m
    <3>1. i \in 1 .. m - 1 /\ (i # 1 => i - 1 \in 1 .. m - 1)
      BY <1>3, <2>2
    <3> HIDE DEF f
    <3> QED BY <1>5, <3>1 DEF Finding
  <2> QED BY <2>1, <2>2
<1>7. f = [i \in 1 .. m |-> f[i]]
  OBVIOUS
<1>8. Finds(f, merged, m)
  <2> HIDE DEF f
  <2> QED BY <1>6, <1>7 DEF Finds
<1> QED BY <1>8

\* Two sequences begin with the same n elements.
Alike(some, others, n) == \A i \in 1 .. n : some[i] = others[i]

\* What is found up to a bar depends on the bars up to the next one.
LEMMA FindsAlike ==
    ASSUME NEW merged, NEW longer, NEW a \in Nat, NEW b \in Nat,
           NEW f, Finds(f, merged, a), NEW g, Finds(g, longer, b)
    PROVE  \A m \in Nat : m <= a /\ m <= b /\ Alike(merged, longer, m + 1) => Alike(f, g, m)
<1> SUFFICES ASSUME NEW m \in Nat, m <= a, m <= b, \A i \in 1 .. m + 1 : merged[i] = longer[i]
             PROVE  \A i \in 1 .. m : f[i] = g[i]
  BY DEF Alike
<1> DEFINE Differ == {i \in 1 .. m : f[i] # g[i]}
<1> SUFFICES ASSUME Differ # {} PROVE FALSE
  OBVIOUS
<1>1. Differ \in SUBSET Nat
  OBVIOUS
<1>2. PICK i \in Differ : \A j \in Differ : i <= j
  <2> HIDE DEF Differ
  <2> QED BY <1>1, LeastIn
<1>3. i \in 1 .. m /\ i \in 1 .. a /\ i \in 1 .. b
  BY <1>2
<1>4. f[i] = Finding(f, merged, i) /\ g[i] = Finding(g, longer, i)
  BY <1>3 DEF Finds
<1>5. CASE i = 1
  BY <1>2, <1>4, <1>5 DEF Finding
<1>6. CASE i # 1
  <2>1. i - 1 \in 1 .. m /\ i - 1 \notin Differ /\ i \in 1 .. m + 1 /\ i - 1 \in 1 .. m + 1 /\ i + 1 \in 1 .. m + 1
    BY <1>2, <1>3, <1>6
  <2>2. f[i - 1] = g[i - 1]
    BY <2>1
  <2>3. merged[i] = longer[i] /\ merged[i - 1] = longer[i - 1] /\ merged[i + 1] = longer[i + 1]
    BY <2>1
  <2>4. FractalAt(merged, i) = FractalAt(longer, i)
    BY <2>3, Zenon DEF FractalAt
  <2>5. Considered(f[i - 1], merged, i) = Considered(g[i - 1], longer, i)
    BY <2>2, <2>4 DEF Considered
  <2> QED BY <1>2, <1>4, <1>6, <2>5 DEF Finding
<1> QED BY <1>5, <1>6

\* What is found up to each bar are fractals.
LEMMA FindsTyped ==
    ASSUME NEW merged \in Seq(PriceBar), NEW m \in Nat, m = 1 \/ m <= Len(merged) - 1,
           NEW f, Finds(f, merged, m)
    PROVE  \A i \in 1 .. m : f[i] \in Seq(Fractal)
<1> DEFINE Bad == {i \in 1 .. m : ~(f[i] \in Seq(Fractal))}
<1> SUFFICES ASSUME Bad # {} PROVE FALSE
  OBVIOUS
<1>1. Bad \in SUBSET Nat
  OBVIOUS
<1>2. PICK i \in Bad : \A j \in Bad : i <= j
  <2> HIDE DEF Bad
  <2> QED BY <1>1, LeastIn
<1>3. i \in 1 .. m /\ f[i] = Finding(f, merged, i)
  BY <1>2 DEF Finds
<1>4. CASE i = 1
  <2>1. << >> \in Seq(Fractal)
    OBVIOUS
  <2> QED BY <1>2, <1>3, <1>4, <2>1 DEF Finding
<1>5. CASE i # 1
  <2>1. i - 1 \in 1 .. m /\ i - 1 \notin Bad /\ i \in 2 .. Len(merged) - 1
    BY <1>2, <1>3, <1>5
  <2>2. f[i - 1] \in Seq(Fractal)
    BY <2>1
  <2>3. Considered(f[i - 1], merged, i) \in Seq(Fractal)
    BY <2>1, <2>2, ConsideredStays
  <2> QED BY <1>2, <1>3, <1>5, <2>3 DEF Finding
<1> QED BY <1>4, <1>5

\* What Fractals computes is the recursion at its end.
LEMMA FractalsAre ==
    ASSUME NEW merged \in Seq(PriceBar), NEW m \in Nat \ {0}, m = Larger(1, Len(merged) - 1)
    PROVE  \E f : Finds(f, merged, m) /\ Fractals(merged) = f[m]
<1> DEFINE f == CHOOSE g : Finds(g, merged, m)
<1>1. \E g : Finds(g, merged, m)
  BY FindsEvery
<1>2. Finds(f, merged, m)
  BY <1>1
<1>3. Fractals(merged) = f[m]
  BY DEF Fractals, Finds, Finding
<1> QED BY <1>2, <1>3

\* A bar that is added or combined with the last one takes no fractal away: where
\* the bar before the last one was a fractal it stays one.
LEMMA ExtendedStays ==
    ASSUME NEW merged \in Seq(PriceBar), NEW longer \in Seq(PriceBar), merged # << >>,
           Extends(longer, merged)
    PROVE  Stays(Fractals(merged), Fractals(longer))
<1> DEFINE n == Len(merged)
           l == Len(longer)
           m == Larger(1, n - 1)
           k == Larger(1, l - 1)
<1>1. n \in Nat /\ n > 0 /\ l \in Nat /\ (l = n \/ l = n + 1)
  BY DEF Extends
<1>2. m \in Nat \ {0} /\ k \in Nat \ {0} /\ m <= k /\ (m = 1 \/ m = n - 1) /\ (k = 1 \/ k = l - 1)
  <2>1. m = IF 1 > n - 1 THEN 1 ELSE n - 1
    BY DEF Larger
  <2>2. k = IF 1 > l - 1 THEN 1 ELSE l - 1
    BY DEF Larger
  <2> HIDE DEF n, l, m, k
  <2> QED BY <1>1, <2>1, <2>2
<1>3. PICK f : Finds(f, merged, m) /\ Fractals(merged) = f[m]
  BY <1>2, FractalsAre
<1>4. PICK g : Finds(g, longer, k) /\ Fractals(longer) = g[k]
  BY <1>2, FractalsAre
<1> HIDE DEF m, k
<1>5. \A i \in 1 .. m : f[i] \in Seq(Fractal)
  BY <1>2, <1>3, FindsTyped
<1>6. \A c \in Nat : c <= m /\ c <= k /\ Alike(merged, longer, c + 1) => Alike(f, g, c)
  <2>1. m \in Nat /\ k \in Nat
    BY <1>2
  <2> QED BY <1>3, <1>4, <2>1, FindsAlike
<1>7. f[m] \in Seq(Fractal) /\ Stays(f[m], f[m])
  BY <1>2, <1>5, StaysIf
<1>8. n = 1 => f[m] = << >>
  <2>1. n = 1 => m = 1 /\ 1 \in 1 .. m
    BY <1>1, <1>2 DEF m, Larger
  <2> QED BY <1>3, <2>1 DEF Finds, Finding
<1>9. n = 1 => Stays(f[m], g[k])
  BY <1>8 DEF Stays
<1> SUFFICES ASSUME n # 1 PROVE Stays(f[m], g[k])
  BY <1>3, <1>4, <1>9
<1>10. CASE n # 1 /\ l = n + 1
  <2>1. m = n - 1 /\ k = n /\ n - 1 \in 1 .. n - 1 /\ n \in 1 .. k /\ n \in 2 .. Len(longer) - 1 /\ n - 1 + 1 = n
    <3>1. l - 1 = n /\ n > 1 /\ n \in Nat
      <4> HIDE DEF n, l
      <4> QED BY <1>1, <1>10
    <3> HIDE DEF n
    <3>2. m = n - 1
      BY <3>1 DEF m, Larger
    <3>3. k = n
      BY <3>1 DEF k, Larger
    <3> QED BY <3>1, <3>2, <3>3
  <2>2. Alike(merged, longer, n - 1 + 1)
    BY <1>1, <1>10 DEF Extends, Alike
  <2>3. f[m] = g[m]
    <3>1. n - 1 \in Nat /\ n - 1 <= m /\ n - 1 <= k /\ m \in Nat /\ k \in Nat
      BY <1>1, <1>2, <2>1
    <3>2. Alike(f, g, n - 1)
      BY <1>6, <2>2, <3>1
    <3> QED BY <2>1, <3>2 DEF Alike
  <2>4. g[k] = Considered(g[m], longer, n)
    BY <1>4, <1>10, <2>1 DEF Finds, Finding
  <2> QED BY <1>7, <2>1, <2>3, <2>4, ConsideredStays
<1>11. CASE n # 1 /\ l = n
  <2>1. m = n - 1 /\ k = m /\ n - 2 \in Nat /\ n - 2 <= m
    BY <1>1, <1>11 DEF m, k, Larger
  <2>2. \A i \in 1 .. n - 1 : merged[i] = longer[i]
    BY <1>1, <1>11 DEF Extends
  <2>3. CASE n = 2
    <3>1. f[m] = << >>
      BY <1>3, <2>1, <2>3 DEF Finds, Finding
    <3>2. Len(f[m]) = 0
      BY <3>1
    <3> QED BY <3>2 DEF Stays
  <2>4. CASE n # 2
    <3>1. /\ n - 2 \in 1 .. n - 2 /\ n - 2 + 1 = n - 1 /\ m \in 1 .. m /\ m # 1 /\ m - 1 = n - 2
          /\ n - 1 \in 2 .. Len(merged) - 1 /\ n - 1 \in 2 .. Len(longer) - 1 /\ n - 2 \in 1 .. m
          /\ n - 2 \in 1 .. n - 1 /\ n - 1 \in 1 .. n - 1 /\ n - 1 + 1 = n /\ n - 1 - 1 = n - 2
          /\ n - 2 \in 1 .. n /\ n - 1 \in 1 .. n /\ n \in 1 .. n
      BY <1>1, <1>11, <2>1, <2>4
    <3>2. f[n - 2] = g[n - 2]
      <4>1. Alike(f, g, n - 2)
        <5>1. n - 2 \in Nat /\ n - 2 <= m /\ n - 2 <= k /\ m \in Nat /\ k \in Nat
          BY <1>2, <2>1
        <5>2. Alike(merged, longer, n - 2 + 1)
          BY <2>2, <3>1 DEF Alike
        <5> QED BY <1>6, <5>1, <5>2
      <4> QED BY <3>1, <4>1 DEF Alike
    <3>3. f[m] = Considered(f[n - 2], merged, n - 1)
      BY <1>3, <2>1, <3>1 DEF Finds, Finding
    <3>4. g[m] = Considered(f[n - 2], longer, n - 1)
      <4>1. m - 1 = n - 2 /\ m + 1 = n /\ m = n - 1 /\ m # 1
        BY <2>1, <3>1
      <4>2. g[m] = Considered(g[m - 1], longer, m)
        BY <1>4, <2>1, <3>1, <4>1 DEF Finds, Finding
      <4> HIDE DEF n
      <4> QED BY <3>2, <4>1, <4>2
    <3>5. CASE FractalAt(merged, n - 1) = {}
      <4>1. f[m] = f[n - 2]
        BY <3>3, <3>5 DEF Considered
      <4> QED BY <1>7, <2>1, <3>1, <3>4, <4>1, ConsideredStays
    <3>6. CASE FractalAt(merged, n - 1) # {}
      <4> DEFINE left == merged[n - 2]
                 middle == merged[n - 1]
                 right == merged[n]
                 new == longer[n]
      <4>1. /\ left = longer[n - 2] /\ middle = longer[n - 1]
            /\ Below(right, middle) => Below(new, middle)
            /\ Below(middle, right) => Below(middle, new)
        BY <1>1, <1>11, <2>2, <3>1 DEF Extends
      <4>2. /\ left.high \in Int /\ left.low \in Int /\ middle.high \in Int /\ middle.low \in Int
            /\ right.high \in Int /\ right.low \in Int /\ new.high \in Int /\ new.low \in Int
        <5>1. left \in PriceBar /\ middle \in PriceBar /\ right \in PriceBar /\ new \in PriceBar
          BY <1>11, <3>1
        <5> HIDE DEF left, middle, right, new
        <5> QED BY <5>1 DEF PriceBar
      <4>3. FractalAt(longer, n - 1) = FractalAt(merged, n - 1)
        <5> DEFINE Marked(mark) == {[mark |-> mark, at |-> n - 1, time |-> middle.time,
                                    high |-> middle.high, low |-> middle.low]}
        <5>1. FractalAt(merged, n - 1) =
                CASE Below(left, middle) /\ Below(right, middle) -> Marked("top")
                  [] Below(middle, left) /\ Below(middle, right) -> Marked("bottom")
                  [] OTHER -> {}
          BY <3>1 DEF FractalAt
        <5>2. FractalAt(longer, n - 1) =
                CASE Below(left, middle) /\ Below(new, middle) -> Marked("top")
                  [] Below(middle, left) /\ Below(middle, new) -> Marked("bottom")
                  [] OTHER -> {}
          BY <3>1, <4>1 DEF FractalAt
        <5> HIDE DEF left, middle, right, new, Marked
        <5>3. ~(Below(left, middle) /\ Below(middle, left))
          BY <4>2 DEF Below
        <5>4. CASE Below(left, middle) /\ Below(right, middle)
          BY <4>1, <5>1, <5>2, <5>3, <5>4
        <5>5. CASE Below(middle, left) /\ Below(middle, right)
          BY <4>1, <5>1, <5>2, <5>3, <5>5
        <5> QED BY <3>6, <5>1, <5>4, <5>5
      <4>4. g[m] = f[m]
        BY <3>3, <3>4, <4>3 DEF Considered
      <4> QED BY <1>7, <2>1, <4>4
    <3> QED BY <3>5, <3>6
  <2> QED BY <2>3, <2>4
<1> QED BY <1>1, <1>10, <1>11

\* What is analysed are the completed bars.
ChanInv == completed \in Seq(PriceBar) /\ completed # << >> /\ analysis = Analyze(completed)

\* The first bar is analysed.
LEMMA ChanInitInv == ChanInit => ChanInv
<1> SUFFICES ASSUME ChanInit PROVE ChanInv
  OBVIOUS
<1> DEFINE bar == BarAt(FirstBar.high, FirstBar.low, 1)
<1>1. bar \in PriceBar
  BY ChanAssumption DEF BarAt, PriceBar
<1>2. completed = <<bar>> /\ analysis = Analyze(completed)
  BY DEF ChanInit
<1> HIDE DEF bar
<1> QED BY <1>1, <1>2 DEF ChanInv

\* A bar that completes comes after the others.
LEMMA BarCompletesIs ==
    ASSUME ChanInv, BarCompletes
    PROVE  \E bar \in PriceBar : completed' = Append(completed, bar)
<1>1. PICK m \in Move :
        completed' = Append(completed,
                       BarAt(Last(completed).high + m.high, Last(completed).low + m.low, Len(completed) + 1))
  BY DEF BarCompletes
<1>2. m.high \in Int /\ m.low \in Int
  BY ChanAssumption
<1>3. Last(completed) \in PriceBar /\ Len(completed) \in Int
  BY DEF ChanInv, Last
<1>4. BarAt(Last(completed).high + m.high, Last(completed).low + m.low, Len(completed) + 1) \in PriceBar
  BY <1>2, <1>3 DEF BarAt, PriceBar
<1> QED BY <1>1, <1>4

\* A bar that completes is analysed with the others.
LEMMA ChanStepInv == ChanInv /\ [BarCompletes]_chanVars => ChanInv'
<1> SUFFICES ASSUME ChanInv, [BarCompletes]_chanVars PROVE ChanInv'
  OBVIOUS
<1>1. CASE UNCHANGED chanVars
  <2>1. completed' = completed /\ analysis' = analysis
    BY <1>1 DEF chanVars
  <2>2. Analyze(completed)' = Analyze(completed)
    BY <2>1
  <2> QED BY <2>1, <2>2 DEF ChanInv
<1>2. CASE BarCompletes
  <2>1. PICK bar \in PriceBar : completed' = Append(completed, bar)
    BY <1>2, BarCompletesIs
  <2>2. analysis' = Analyze(completed')
    BY <1>2 DEF BarCompletes
  <2>3. completed' \in Seq(PriceBar) /\ completed' # << >>
    BY <2>1 DEF ChanInv
  <2> QED BY <2>2, <2>3 DEF ChanInv
<1> QED BY <1>1, <1>2

\* Whatever bars complete, a reported top or bottom is still reported, or a more
\* extreme one with its mark has taken its place at the end: merging rewrites only
\* the last bar, and where that bar made its neighbour a fractal it still does.
\* (mergeInclusions, detectFractals, appendFractal)
THEOREM FractalsStayHolds == ChanSpec => FractalsStay
<1>1. ChanInit => ChanInv
  BY ChanInitInv
<1>2. ChanInv /\ [BarCompletes]_chanVars => ChanInv'
  BY ChanStepInv
<1>3. ASSUME ChanInv, BarCompletes
      PROVE  Stays(analysis.fractals, analysis'.fractals)
  <2>1. PICK bar \in PriceBar : completed' = Append(completed, bar)
    BY <1>3, BarCompletesIs
  <2>2. completed \in Seq(PriceBar) /\ completed # << >> /\ analysis = Analyze(completed)
    BY <1>3 DEF ChanInv
  <2>3. analysis' = Analyze(completed')
    BY <1>3 DEF BarCompletes
  <2>4. analysis.fractals = Fractals(MergedBars(completed)) /\ analysis'.fractals = Fractals(MergedBars(completed'))
    BY <2>2, <2>3 DEF Analyze
  <2>5. /\ MergedBars(completed) \in Seq(PriceBar) /\ MergedBars(completed) # << >>
        /\ MergedBars(completed') \in Seq(PriceBar)
        /\ Extends(MergedBars(completed'), MergedBars(completed))
    BY <2>1, <2>2, MergedExtend
  <2> QED BY <2>4, <2>5, ExtendedStays
<1> QED BY <1>1, <1>2, <1>3, PTL DEF ChanSpec, FractalsStay, Stays

-----------------------------------------------------------------------------
(***************************************************************************)
(* StructureGuard, for every number of bars a level needs and every length *)
(* of a session.                                                           *)
(*                                                                         *)
(* The structure has no closes in it. Histories that differ in their closes*)
(* alone have one structure, each veto compares a close with a price of    *)
(* it from below, and the factor between adjusted and raw prices grows     *)
(* with the adjusted close: what did not veto the lower closes does not    *)
(* veto the higher ones.                                                   *)
(***************************************************************************)

\* A sequence of bars with closes, and one with the same bars and closes not below.
Closes(bars) ==
    /\ Len(bars) \in Nat /\ DOMAIN bars = 1 .. Len(bars) /\ (bars = << >>) = (Len(bars) = 0)
    /\ \A i \in DOMAIN bars : bars[i].close \in Nat

Raised(higher, bars) ==
    /\ Closes(bars) /\ Closes(higher) /\ Len(higher) = Len(bars)
    /\ \A i \in DOMAIN bars :
        /\ higher[i].at = bars[i].at /\ higher[i].high = bars[i].high /\ higher[i].low = bars[i].low
        /\ higher[i].close >= bars[i].close

\* The prices that closes are compared with.
Priced(structure) ==
    /\ structure.zones # << >> =>
        Last(structure.zones).lower \in Int /\ Last(structure.zones).upper \in Int
    /\ Bottoms(structure) # << >> =>
        Last(Bottoms(structure)).low \in Int /\ Last(Bottoms(structure)).high \in Int

LEMMA RaisedShape ==
    ASSUME NEW bars, NEW higher, Raised(higher, bars)
    PROVE  Structure(higher) = Structure(bars)
<1>1. DOMAIN higher = DOMAIN bars
  BY DEF Raised, Closes
<1>2. \A i \in DOMAIN bars : BarAt(higher[i].high, higher[i].low, higher[i].at)
                             = BarAt(bars[i].high, bars[i].low, bars[i].at)
  BY DEF Raised
<1>3. Shape(higher) = Shape(bars)
  BY <1>1, <1>2 DEF Shape
<1> QED BY <1>3 DEF Structure

LEMMA RaisedLast ==
    ASSUME NEW bars, NEW higher, Raised(higher, bars), bars # << >>
    PROVE  /\ higher # << >> /\ Last(higher).at = Last(bars).at
           /\ Last(bars).close \in Nat /\ Last(higher).close \in Nat
           /\ Last(higher).close >= Last(bars).close
<1>1. Len(bars) \in DOMAIN bars /\ Len(higher) = Len(bars) /\ higher # << >>
  BY DEF Raised, Closes
<1> QED BY <1>1 DEF Raised, Closes, Last

\* A daily structure that is held at a close is held at a higher one.
LEMMA DailyStructureRaised ==
    ASSUME NEW s, Priced(s), NEW close \in Nat, NEW higher \in Nat, higher >= close,
           DailyStructure(s, close).status = "pass"
    PROVE  DailyStructure(s, higher).status = "pass"
<1> DEFINE zones == s.zones
<1>1. s.finished # << >>
  BY DEF DailyStructure, Level
<1>2. CASE zones = << >>
  <2>1. Reclaimed(s, close)
    BY <1>1, <1>2 DEF DailyStructure, Level
  <2>2. Reclaimed(s, higher)
    BY <2>1 DEF Reclaimed, Priced
  <2> QED BY <1>1, <1>2, <2>2 DEF DailyStructure, Level
<1>3. CASE zones # << >>
  <2>1. Last(zones).lower \in Int /\ Last(zones).upper \in Int /\ Middles(Last(zones)) \in Int
    BY <1>3 DEF Priced, Middles
  <2>2. ~(close < Last(zones).lower) /\ ~(MiddleFalls(zones) /\ 2 * close < Middles(Last(zones)))
    BY <1>1, <1>3 DEF DailyStructure, Level
  <2>3. ~(higher < Last(zones).lower)
    BY <2>1, <2>2
  <2>4. 2 * higher < Middles(Last(zones)) => 2 * close < Middles(Last(zones))
    BY <2>1
  <2> QED BY <1>1, <1>3, <2>2, <2>3, <2>4 DEF DailyStructure, Level
<1> QED BY <1>2, <1>3

\* A product of two factors that grew is no smaller.
LEMMA ProductGrows ==
    ASSUME NEW a \in Nat, NEW b \in Nat, NEW c \in Nat, NEW d \in Nat, c >= a, d >= b
    PROVE  c * d >= a * b
<1>1. PICK e \in Nat : c = a + e
  <2>1. c - a \in Nat /\ c = a + (c - a)
    OBVIOUS
  <2> QED BY <2>1
<1>2. PICK f \in Nat : d = b + f
  <2>1. d - b \in Nat /\ d = b + (d - b)
    OBVIOUS
  <2> QED BY <2>1
<1>3. c * d = a * b + a * f + e * b + e * f
  BY <1>1, <1>2
<1>4. a * f \in Nat /\ e * b \in Nat /\ e * f \in Nat /\ a * b \in Nat
  BY SMT
<1> QED BY <1>3, <1>4

LEMMA DailyLevelRaised ==
    ASSUME NEW daily, NEW higher, NEW day, Raised(higher, daily), WellShaped(higher),
           Priced(Structure(daily)), DailyLevel(daily, day).status = "pass"
    PROVE  DailyLevel(higher, day).status = "pass"
<1>1. daily # << >> /\ Last(daily).at = day
  BY DEF DailyLevel, Level
<1>2. ~(Len(daily) < DailyEnough) /\ DailyStructure(Structure(daily), Last(daily).close).status = "pass"
  BY <1>1 DEF DailyLevel, Level
<1>3. /\ higher # << >> /\ Last(higher).at = day /\ Len(higher) = Len(daily)
      /\ Structure(higher) = Structure(daily)
      /\ Last(daily).close \in Nat /\ Last(higher).close \in Nat
      /\ Last(higher).close >= Last(daily).close
  BY <1>1, RaisedLast, RaisedShape DEF Raised
<1>4. DailyStructure(Structure(higher), Last(higher).close).status = "pass"
  BY <1>2, <1>3, DailyStructureRaised
<1> QED BY <1>2, <1>3, <1>4 DEF DailyLevel

\* Whether a day is whole and has a structure is no question of closes.
LEMMA MinuteLevelRaised ==
    ASSUME NEW found, NEW more, NEW day, NEW perDay, NEW enough,
           more # << >>, MinutesValid(Head(more)),
           Raised(FinalUpTo(Head(more).bars, day), FinalUpTo(Head(found).bars, day)),
           MinuteLevel(found, day, perDay, enough).status = "pass"
    PROVE  /\ found # << >> /\ FinalUpTo(Head(found).bars, day) # << >>
           /\ MinuteLevel(more, day, perDay, enough).status = "pass"
<1> DEFINE bars == FinalUpTo(Head(found).bars, day)
           higher == FinalUpTo(Head(more).bars, day)
<1>1. found # << >> /\ bars # << >> /\ SessionOf(Last(bars).at) = day
  BY DEF MinuteLevel, Level
<1>2. DayIsWhole(bars, day, perDay) /\ ~(Len(bars) < enough) /\ Structured(Structure(bars))
  BY <1>1 DEF MinuteLevel, Level
<1>3. /\ higher # << >> /\ Last(higher).at = Last(bars).at /\ Len(higher) = Len(bars)
      /\ Structure(higher) = Structure(bars)
  BY <1>1, RaisedLast, RaisedShape DEF Raised
<1>4. DayBars(higher, day) = DayBars(bars, day)
  BY DEF DayBars, Raised, Closes
<1>5. DayIsWhole(higher, day, perDay)
  BY <1>2, <1>3, <1>4 DEF DayIsWhole
<1>6. SessionOf(Last(higher).at) = day
  BY <1>1, <1>3
<1> HIDE DEF higher
<1>7. MinuteLevel(more, day, perDay, enough) = Level("pass", "minute_structure_ok")
  BY <1>2, <1>3, <1>5, <1>6 DEF MinuteLevel, higher
<1> QED BY <1>1, <1>7 DEF Level

LEMMA LowerLevelsRaised ==
    ASSUME NEW daily, NEW higherDaily, NEW raw, NEW thirty, NEW higherThirty, NEW five, NEW higherFive,
           Raised(higherDaily, daily), Raised(higherThirty, thirty), Raised(higherFive, five),
           daily # << >>, thirty # << >>, five # << >>, Last(raw).close \in Nat,
           Priced(Structure(daily)), Priced(Structure(thirty)),
           LowerLevels(daily, raw, thirty, five).guard = "pass"
    PROVE  LowerLevels(higherDaily, raw, higherThirty, higherFive).guard = "pass"
<1> DEFINE zones == Structure(daily).zones
           bottoms == Bottoms(Structure(thirty))
<1>1. /\ Structure(higherDaily).zones = zones
      /\ Bottoms(Structure(higherThirty)) = bottoms
  BY RaisedShape
<1>2. /\ Last(daily).close \in Nat /\ Last(higherDaily).close \in Nat
      /\ Last(higherDaily).close >= Last(daily).close
      /\ Last(thirty).close \in Nat /\ Last(higherThirty).close \in Nat
      /\ Last(higherThirty).close >= Last(thirty).close
      /\ Last(five).close \in Nat /\ Last(higherFive).close \in Nat
      /\ Last(higherFive).close >= Last(five).close
  BY RaisedLast
<1>3. /\ bottoms # << >> /\ ~(Last(five).close < Last(bottoms).low)
      /\ zones # << >> => ~BelowZone(Last(thirty).close, Last(zones), Last(daily).close, Last(raw).close)
  BY DEF LowerLevels, Vetoed, Unclear, Evidence
<1>4. ~(Last(higherFive).close < Last(bottoms).low)
  <2>1. Last(bottoms).low \in Int
    BY <1>3 DEF Priced
  <2> QED BY <1>2, <1>3, <2>1
<1>5. ASSUME zones # << >>
      PROVE  ~BelowZone(Last(higherThirty).close, Last(zones), Last(higherDaily).close, Last(raw).close)
  <2>1. Last(zones).lower * Last(raw).close \in Int
    BY <1>5 DEF Priced
  <2>2. Last(higherThirty).close * Last(higherDaily).close >= Last(thirty).close * Last(daily).close
    BY <1>2, ProductGrows
  <2>3. /\ Last(higherThirty).close * Last(higherDaily).close \in Int
        /\ Last(thirty).close * Last(daily).close \in Int
    BY <1>2
  <2>4. ~(Last(thirty).close * Last(daily).close < Last(zones).lower * Last(raw).close)
    BY <1>3, <1>5 DEF BelowZone
  <2>5. ~(Last(higherThirty).close * Last(higherDaily).close < Last(zones).lower * Last(raw).close)
    BY <2>1, <2>2, <2>3, <2>4
  <2> QED BY <2>5 DEF BelowZone
<1>6. LowerLevels(higherDaily, raw, higherThirty, higherFive) = Cleared
  BY <1>1, <1>3, <1>4, <1>5 DEF LowerLevels
<1> QED BY <1>6 DEF Cleared, Evidence

\* What a stock passes at, it passes above: with the same bars, and closes of the day
\* and of the minutes that are nowhere lower, the structure guard still passes, in
\* spite of the factor between adjusted and raw prices that rises with them. The
\* higher histories are valid ones, from one snapshot and on one price scale.
\* (evaluateStructureGuard)
THEOREM HigherClosePassesAlways ==
    ASSUME NEW code, NEW day, NEW daily, NEW higher, NEW raw, NEW minutes, NEW more,
           Raised(higher, daily), WellShaped(higher), Scaled(higher, raw, day),
           Last(raw).close \in Nat, OneSnapshot(more, code),
           \A period \in {1, Group} :
               LET bars == FinalUpTo(Head(Found(minutes, code, period)).bars, day) IN
               /\ Found(more, code, period) # << >> /\ MinutesValid(Head(Found(more, code, period)))
               /\ Raised(FinalUpTo(Head(Found(more, code, period)).bars, day), bars)
               /\ Priced(Structure(bars)),
           Priced(Structure(daily)),
           GuardOf(code, day, daily, raw, minutes).guard = "pass"
    PROVE  GuardOf(code, day, higher, raw, more).guard = "pass"
<1> DEFINE base == Found(minutes, code, 1)
           context == Found(minutes, code, Group)
           moreBase == Found(more, code, 1)
           moreContext == Found(more, code, Group)
           five == FinalUpTo(Head(base).bars, day)
           thirty == FinalUpTo(Head(context).bars, day)
           moreFive == FinalUpTo(Head(moreBase).bars, day)
           moreThirty == FinalUpTo(Head(moreContext).bars, day)
<1>1. /\ moreBase # << >> /\ MinutesValid(Head(moreBase)) /\ Raised(moreFive, five)
      /\ moreContext # << >> /\ MinutesValid(Head(moreContext)) /\ Raised(moreThirty, thirty)
      /\ Priced(Structure(thirty))
  OBVIOUS
<1> HIDE DEF base, context, moreBase, moreContext
<1>2. /\ daily # << >> /\ raw # << >>
      /\ EvaluateStructureGuard(code, day, daily, raw, minutes).guard = "pass"
  BY DEF GuardOf, Evidence
<1>3. DailyLevel(daily, day).status = "pass"
  BY <1>2 DEF EvaluateStructureGuard, DailyStops, Vetoed, Unclear, Evidence
<1>4. /\ MinuteLevel(context, day, SlotsPerDay \div Group, ThirtyEnough).status = "pass"
      /\ MinuteLevel(base, day, SlotsPerDay, FiveEnough).status = "pass"
      /\ LowerLevels(daily, raw, thirty, five).guard = "pass"
  BY <1>2, <1>3 DEF EvaluateStructureGuard, MinutesStop, Unclear, Evidence, base, context
<1>5. DailyLevel(higher, day).status = "pass" /\ higher # << >>
  BY <1>2, <1>3, DailyLevelRaised, RaisedLast
<1>6. /\ MinuteLevel(moreContext, day, SlotsPerDay \div Group, ThirtyEnough).status = "pass"
      /\ thirty # << >>
  BY <1>1, <1>4, MinuteLevelRaised
<1>7. MinuteLevel(moreBase, day, SlotsPerDay, FiveEnough).status = "pass" /\ five # << >>
  BY <1>1, <1>4, MinuteLevelRaised
<1>8. LowerLevels(higher, raw, moreThirty, moreFive).guard = "pass"
  BY <1>1, <1>2, <1>4, <1>6, <1>7, LowerLevelsRaised
<1>9. EvaluateStructureGuard(code, day, higher, raw, more)
        = LowerLevels(higher, raw, moreThirty, moreFive)
  BY <1>5, <1>6, <1>7 DEF EvaluateStructureGuard, moreBase, moreContext
<1> QED BY <1>2, <1>5, <1>8, <1>9 DEF GuardOf
=============================================================================
