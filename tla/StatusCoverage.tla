--------------------------- MODULE StatusCoverage ---------------------------
(***************************************************************************)
(* The evidence that a day without a bar is a suspension and not a gap in  *)
(* the data: the tables session_status and status_sync of one stock        *)
(* (storage/status.go), the exchange calendar beside them, and the backfill*)
(* and refreshes that fill them (monitor/status.go), day after day.        *)
(*                                                                         *)
(* A window that enumerates the sessions is full and establishes coverage; *)
(* a list of events is sparse and, like a failed refresh, takes coverage   *)
(* away from the range it was asked for.  A day counts as suspended only   *)
(* while it is covered.                                                    *)
(*                                                                         *)
(* One stock: the tables are keyed by its code and the loops treat the     *)
(* stocks one by one.  Days are the natural days; the sources of the       *)
(* calendar tell the truth or fail, those of the statuses may contradict   *)
(* one another.                                                            *)
(***************************************************************************)
EXTENDS Integers, Sequences

CONSTANTS
    Horizon,        \* the last day that is explored
    Session,        \* the days on which the exchange traded
    Listed,         \* the day the stock was listed
    FirstAsOf,      \* the session that is completed at the start
    Window,         \* the days of history that are required
    RefreshDays,    \* the days a refresh answers again
    Claims          \* what the sources together may say of one session

ASSUME DayAssumption ==
    /\ Horizon \in Nat
    /\ Session \subseteq 0 .. Horizon
    /\ Listed \in 0 .. Horizon
    /\ FirstAsOf \in Session
    /\ Window \in 1 .. FirstAsOf + 1
    /\ RefreshDays \in 1 .. FirstAsOf + 1
    /\ {} \in Claims
    /\ Claims \subseteq SUBSET {"traded", "suspended"}

Day == 0 .. Horizon
Interval == {r \in Day \X Day : r[1] <= r[2]}
In(d, r) == r[1] <= d /\ d <= r[2]
Overlaps(r, s) == r[1] <= s[2] /\ s[1] <= r[2]
Later(a, b) == IF a > b THEN a ELSE b

State == {"absent", "traded", "suspended", "unknown"}
NoAnswer == {"no full answer"}

VARIABLES
    asof,       \* the completed session
    row,        \* status_sync, by range
    state,      \* session_status, by day
    calendarRow,    \* calendar_sync, by range
    calendar,   \* market_calendar
    latest      \* history: what the latest attempt said of a day

table == <<row, state, latest>>
days == <<calendarRow, calendar>>
statusVars == <<asof, row, state, calendarRow, calendar, latest>>

StatusTypeOK ==
    /\ asof \in Session
    /\ row \in [Interval -> {"absent", "complete", "partial", "failed"}]
    /\ state \in [Day -> State]
    /\ calendarRow \in [Interval -> {"absent", "complete", "failed"}]
    /\ calendar \subseteq Day
    /\ latest \in [Day -> Claims \cup {NoAnswer}]

StatusInit ==
    /\ asof = FirstAsOf
    /\ row = [r \in Interval |-> "absent"]
    /\ state = [d \in Day |-> "absent"]
    /\ calendarRow = [r \in Interval |-> "absent"]
    /\ calendar = {}
    /\ latest = [d \in Day |-> NoAnswer]

-----------------------------------------------------------------------------
(* Coverage.                                                                *)

Complete(table_row, r) ==
    {s \in Interval : table_row[s] = "complete" /\ Overlaps(s, r)}

\* missingRanges: the intervals are swept in the order of their first day; the
\* cursor is the first day that is not known to be covered.
MissingRanges(r, intervals) ==
    LET gaps[cursor \in r[1] .. Horizon + 1] ==
            LET ahead == {s \in intervals : s[2] >= cursor /\ s[1] <= r[2]}
                first == CHOOSE s \in ahead : \A t \in ahead : s[1] <= t[1]
            IN  IF cursor > r[2] THEN <<>>
                ELSE IF ahead = {} THEN <<<<cursor, r[2]>>>>
                ELSE (IF first[1] > cursor THEN <<<<cursor, first[1] - 1>>>> ELSE <<>>)
                         \o gaps[first[2] + 1]
    IN  gaps[r[1]]

\* No range is missing; MCStores compares the sweep with this.
Covers(r, intervals) == \A d \in r[1] .. r[2] : \E s \in intervals : In(d, s)

-----------------------------------------------------------------------------
(* Writing the tables.  Each is one transaction.                            *)

\* What is left of a complete range on either side of a refreshed one.
Parts(s, r) == {p \in {<<s[1], r[1] - 1>>, <<r[2] + 1, s[2]>>} : p[1] <= p[2]}

\* Mutant of AfterFailure: ranges that overlap the failed one stay complete.
AfterFailureKept(r) == [row EXCEPT ![r] = "failed"]

\* A failed refresh makes a stored range that is one of the parts complete.
AfterFailure(r) ==
    LET cut == Complete(row, r)
        parts == UNION {Parts(s, r) : s \in cut}
    IN  [s \in Interval |-> CASE s = r -> "failed"
                             [] s \in parts -> "complete"
                             [] s \in cut \ {r} -> "absent"
                             [] OTHER -> row[s]]

\* invalidateStatusCoverage leaves such a range as it is.
AfterSparse(r) ==
    LET cut == Complete(row, r)
        parts == UNION {Parts(s, r) : s \in cut}
    IN  [s \in Interval |-> CASE s = r -> "partial"
                             [] s \in parts /\ row[s] = "absent" -> "complete"
                             [] s \in cut \ {r} -> "absent"
                             [] OTHER -> row[s]]

\* mergeStatusWindows: what two sources disagree on is unknown.
Merged(claims) ==
    CASE claims = {} -> "absent"
      [] claims = {"traded"} -> "traded"
      [] claims = {"suspended"} -> "suspended"
      [] OTHER -> "unknown"

\* An event meets a stored state.
Resolved(old, new) ==
    CASE new = "absent" -> old
      [] old \in {"absent", "unknown", new} -> new
      [] OTHER -> "unknown"

SaveFullWindow(r, said) ==
    /\ row' = [row EXCEPT ![r] = "complete"]
    /\ state' = [d \in Day |-> IF ~In(d, r) THEN state[d]
                               ELSE IF d \in Session THEN Merged(said[d]) ELSE "absent"]
    /\ latest' = [d \in Day |-> IF ~In(d, r) THEN latest[d]
                                ELSE IF d \in Session THEN said[d] ELSE {}]

SaveSparseWindow(r, said) ==
    /\ row' = AfterSparse(r)
    /\ state' = [d \in Day |-> IF In(d, r) /\ d \in Session
                               THEN Resolved(state[d], Merged(said[d])) ELSE state[d]]
    /\ latest' = [d \in Day |-> IF In(d, r) THEN NoAnswer ELSE latest[d]]

RecordStatusFailure(r) ==
    /\ row' = AfterFailure(r)
    /\ latest' = [d \in Day |-> IF In(d, r) THEN NoAnswer ELSE latest[d]]
    /\ UNCHANGED state

-----------------------------------------------------------------------------
(* The callers.                                                             *)

RequiredStart == asof - Window + 1
RequiredRange == <<RequiredStart, asof>>
Required == <<Later(RequiredStart, Listed), asof>>
RefreshStart == asof - RefreshDays + 1
Refreshed == <<Later(RefreshStart, Listed), asof>>

CalendarCovered ==
    Covers(RequiredRange, Complete(calendarRow, RequiredRange))

\* Each gap of the calendar is asked for by itself; the first failure ends the
\* call, and the gaps that were filled stay.
NextGap(gap) ==
    LET gaps == MissingRanges(RequiredRange, Complete(calendarRow, RequiredRange))
    IN  gaps # <<>> /\ gap = Head(gaps)

SaveCalendar ==
    \E gap \in Interval :
        /\ NextGap(gap)
        /\ calendar' = {d \in calendar : ~In(d, gap)} \cup {d \in Session : In(d, gap)}
        /\ calendarRow' = [calendarRow EXCEPT ![gap] = "complete"]
        /\ UNCHANGED <<asof, table>>

RecordCalendarFailure ==
    \E gap \in Interval :
        /\ NextGap(gap)
        /\ calendarRow' = [calendarRow EXCEPT ![gap] = "failed"]
        /\ UNCHANGED <<asof, calendar, table>>

\* fetchStatus and what is done with its answer, for the range of a backfill or
\* of a refresh.  A full window may leave a session out; that is no claim.
Answered(r) ==
    /\ CalendarCovered
    /\ Listed <= asof
    /\ \/ \E said \in [{d \in Session : In(d, r)} -> Claims] :
             SaveFullWindow(r, said) \/ SaveSparseWindow(r, said)
       \/ RecordStatusFailure(r)
    /\ UNCHANGED <<asof, days>>

StatusBackfill == Answered(Required)
StatusRefresh == Answered(Refreshed)

\* The listing date is not known and cannot be fetched: the whole refresh range
\* is recorded as failed.
ListingFails ==
    /\ CalendarCovered
    /\ RecordStatusFailure(<<RefreshStart, asof>>)
    /\ UNCHANGED <<asof, days>>

NextSession ==
    /\ \E d \in Session :
         /\ d > asof
         /\ \A e \in Session : e > asof => d <= e
         /\ asof' = d
    /\ UNCHANGED <<table, days>>

StatusNext ==
    \/ SaveCalendar
    \/ RecordCalendarFailure
    \/ StatusBackfill
    \/ StatusRefresh
    \/ ListingFails
    \/ NextSession

StatusSpec == StatusInit /\ [][StatusNext]_statusVars

-----------------------------------------------------------------------------
(* What the audit and the synchronization read.                             *)

StatusCovered == Covers(Required, Complete(row, Required))

\* CalendarDays and selectDays.
ExpectedDays == {d \in calendar : In(d, Required)}

\* evaluateHistory: every expected day has a bar or is suspended.
HistoryComplete(bars) ==
    /\ ExpectedDays # {}
    /\ \A d \in ExpectedDays : d \in bars \/ state[d] = "suspended"

AuditComplete(bars) ==
    CalendarCovered /\ StatusCovered /\ HistoryComplete(bars)

-----------------------------------------------------------------------------
(* Properties.                                                              *)

\* A complete row stands for days of which the latest attempt gave a full
\* answer, and the stored state is what that answer said: over any order of
\* full windows, sparse windows and failures, whose ranges overlap.
CoverageIsHonest ==
    \A r \in Interval : row[r] = "complete" =>
        \A d \in Session : In(d, r) =>
            latest[d] # NoAnswer /\ state[d] = Merged(latest[d])

\* Whatever bars are stored, when the audit calls the history of a stock
\* complete, every session of the exchange since the listing has a bar, or the
\* latest answer on it was full, said "suspended" and nowhere "traded": a gap
\* in the data never passes for a holiday or a suspension.
GapIsNoSuspension ==
    \A bars \in SUBSET Session : AuditComplete(bars) =>
        \A d \in Session \ bars : In(d, Required) => latest[d] = {"suspended"}

CoveredDays(table_row) ==
    {d \in Day : \E s \in Interval : table_row[s] = "complete" /\ In(d, s)}

\* invalidateStatusCoverage "removes completeness claims that overlap a sparse
\* refresh while retaining valid coverage on either side of the refreshed
\* range" (the comment above it).
SparseKeepsTheRest ==
    [][\A r \in Interval : (row[r] # "partial" /\ row'[r] = "partial") =>
          CoveredDays(row') = {d \in CoveredDays(row) : ~In(d, r)}]_statusVars
=============================================================================
