---------------------------- MODULE CalendarCache ----------------------------
(***************************************************************************)
(* The cache of exchange calendars that experiments and the review page    *)
(* freeze their trading days from (calendar/history.go, storage/           *)
(* calendar.go, cmd/stock-watcher/calendar.go, dashboard/review_loader.go).*)
(* A window is appended and never changed; a calendar is frozen from the   *)
(* windows that overlap the range, when they agree with one another and    *)
(* leave no day of it out.  What is missing is fetched as a whole and      *)
(* appended in its turn, by several commands at a time.                    *)
(*                                                                         *)
(* Days are numbers.  A window is [from, through, days]; its digest stands *)
(* for these and the source, and the sources are told apart only by what   *)
(* they say.                                                               *)
(***************************************************************************)
EXTENDS Integers, SequencesExt, FiniteSets

CONSTANTS
    CacheUser,      \* commands that create a snapshot, and readers of the page
    Asked,          \* the ranges <<from, through>> that are asked for
    Told,           \* the trading days a provider may believe in
    Configured,     \* the calendar of the configuration: [from, through, days]
    MaxGiven        \* a bound on the calendars that are handed out

ASSUME CacheAssumption ==
    /\ \A r \in Asked : r \in Nat \X Nat /\ r[1] <= r[2]
    /\ \A t \in Told : t \subseteq Nat
    /\ Configured.from <= Configured.through /\ Configured.days \subseteq Nat
    /\ MaxGiven \in Nat

VARIABLES
    windows,    \* calendar_history
    user,       \* [at, range] of each user
    given       \* history: the calendars handed out: [range, days, via]

calendarVars == <<windows, user, given>>

Idle == [at |-> "idle", range |-> <<0, 0>>]

CalendarTypeOK ==
    /\ \A w \in windows : w.from <= w.through /\ w.days \subseteq w.from .. w.through
    /\ \A u \in CacheUser : user[u].at \in {"idle", "freeze", "fetch", "save"}
    /\ Len(given) <= MaxGiven

CalendarInit ==
    /\ windows = {}
    /\ user = [u \in CacheUser |-> Idle]
    /\ given = <<>>

-----------------------------------------------------------------------------
(* A set of windows: Dataset.                                               *)

Inside(d, r) == r[1] <= d /\ d <= r[2]
Loaded(r) == {w \in windows : w.from <= r[2] /\ w.through >= r[1]}

\* validateConsistency: every two windows, on all the days they share.
Disagree(v, w) ==
    \E d \in v.from .. v.through :
        d \in w.from .. w.through /\ ((d \in v.days) # (d \in w.days))
Consistent(dataset) == \A v, w \in dataset : ~Disagree(v, w)

\* The parts of the windows that lie in the range.
Spans(dataset, r) ==
    {<<IF w.from < r[1] THEN r[1] ELSE w.from,
       IF w.through > r[2] THEN r[2] ELSE w.through>> : w \in dataset}

\* Mutant of MergeSpan: a day between two spans is passed over.
MergeSpanOverGap(merged, span) ==
    IF merged = <<>> \/ span[1] > Last(merged)[2] + 2 THEN Append(merged, span)
    ELSE IF span[2] > Last(merged)[2]
         THEN [merged EXCEPT ![Len(merged)] = <<@[1], span[2]>>]
    ELSE merged

\* Spans that overlap or touch are one.
MergeSpan(merged, span) ==
    IF merged = <<>> \/ span[1] > Last(merged)[2] + 1 THEN Append(merged, span)
    ELSE IF span[2] > Last(merged)[2]
         THEN [merged EXCEPT ![Len(merged)] = <<@[1], span[2]>>]
    ELSE merged

\* Coverage: the spans are merged in the order of their first day, then of their last.
Sooner(a, b) == a[1] < b[1] \/ (a[1] = b[1] /\ a[2] < b[2])
LastSpan(some) == CHOOSE s \in some : \A t \in some : t = s \/ Sooner(t, s)
MergedSpans(spans) ==
    LET merged[some \in SUBSET spans] ==
            IF some = {} THEN <<>>
            ELSE MergeSpan(merged[some \ {LastSpan(some)}], LastSpan(some))
    IN  merged[spans]

\* missingSpans: the cursor is the first day not yet accounted for.
PassSpan(sweep, span) ==
    [cursor |-> span[2] + 1,
     missing |-> IF span[1] > sweep.cursor
                 THEN Append(sweep.missing, <<sweep.cursor, span[1] - 1>>)
                 ELSE sweep.missing]
MissingSpans(dataset, r) ==
    LET merged == MergedSpans(Spans(dataset, r))
        sweep[n \in 0 .. Len(merged)] ==
            IF n = 0 THEN [cursor |-> r[1], missing |-> <<>>]
            ELSE PassSpan(sweep[n - 1], merged[n])
        swept == sweep[Len(merged)]
    IN  IF swept.cursor <= r[2] THEN Append(swept.missing, <<swept.cursor, r[2]>>)
        ELSE swept.missing

\* Dataset.TradingDays.
TradingDays(dataset, r) == {d \in UNION {w.days : w \in dataset} : Inside(d, r)}

Frozen(r) ==
    LET dataset == Loaded(r) IN
    CASE ~Consistent(dataset) -> "conflict"
      [] MissingSpans(dataset, r) # <<>> -> "not covered"
      [] OTHER -> "frozen"

-----------------------------------------------------------------------------
(* The users.                                                               *)

MoreToGive == Len(given) < MaxGiven
Hand(r, days, via) == given' = Append(given, [range |-> r, days |-> days, via |-> via])
At(u, place, r) == user' = [user EXCEPT ![u] = [at |-> place, range |-> r]]
Done(u) == user' = [user EXCEPT ![u] = Idle]

ConfiguredCovers(r) == Configured.from <= r[1] /\ r[2] <= Configured.through

\* ensureSnapshotCalendar: the snapshot brings the calendar of the configuration
\* with it, and a listed one that covers its window is used.
BeginSnapshot(u, r) ==
    /\ user[u].at = "idle"
    /\ MoreToGive
    /\ IF ConfiguredCovers(r) /\ Configured.days # {}
       THEN Hand(r, Configured.days, "configured") /\ UNCHANGED user
       ELSE At(u, "freeze", r) /\ UNCHANGED given
    /\ UNCHANGED windows

\* A cache that cannot prove the range leads to the providers; windows that
\* disagree are an error.
FreezeSnapshot(u) ==
    LET r == user[u].range IN
    /\ user[u].at = "freeze"
    /\ \/ Frozen(r) = "frozen" /\ MoreToGive /\ Hand(r, TradingDays(Loaded(r), r), "cache") /\ Done(u)
       \/ Frozen(r) = "not covered" /\ At(u, "fetch", r) /\ UNCHANGED given
       \/ Frozen(r) = "conflict" /\ Done(u) /\ UNCHANGED given
    /\ UNCHANGED windows

\* Sources.Fetch: the first provider that answers, or none.
FetchCalendar(u) ==
    /\ user[u].at = "fetch"
    /\ At(u, "save", user[u].range) \/ Done(u)
    /\ UNCHANGED <<windows, given>>

\* Save appends the window, or finds it stored; the snapshot takes it as it is,
\* if nothing fails after the commit.
SaveWindow(u) ==
    LET r == user[u].range IN
    /\ user[u].at = "save"
    /\ MoreToGive
    /\ \E t \in Told :
        LET days == {d \in t : Inside(d, r)} IN
        /\ windows' = windows \cup {[from |-> r[1], through |-> r[2], days |-> days]}
        /\ Hand(r, days, "provider") \/ UNCHANGED given
    /\ Done(u)

SaveWindowFails(u) ==
    /\ user[u].at = "save"
    /\ Done(u)
    /\ UNCHANGED <<windows, given>>

\* reviewLoader.LoadCalendar: what the cache cannot prove is taken from the
\* configuration, if that covers it.
Review(u, r) ==
    /\ user[u].at = "idle"
    /\ r[1] < r[2]
    /\ MoreToGive
    /\ \/ /\ Frozen(r) = "frozen"
          /\ Hand(r, TradingDays(Loaded(r), r), "cache")
       \/ /\ Frozen(r) = "not covered" /\ ConfiguredCovers(r)
          /\ Hand(r, {d \in Configured.days : Inside(d, r)}, "configured")
    /\ UNCHANGED <<windows, user>>

UserDies(u) ==
    /\ user[u].at # "idle"
    /\ Done(u)
    /\ UNCHANGED <<windows, given>>

CalendarNext == \E u \in CacheUser :
    \/ \E r \in Asked : BeginSnapshot(u, r) \/ Review(u, r)
    \/ FreezeSnapshot(u)
    \/ FetchCalendar(u)
    \/ SaveWindow(u)
    \/ SaveWindowFails(u)
    \/ UserDies(u)

CalendarSpec == CalendarInit /\ [][CalendarNext]_calendarVars

-----------------------------------------------------------------------------
(***************************************************************************)
(* Properties.                                                             *)
(***************************************************************************)

\* The trading days frozen from the cache are proven: of each day of the range a
\* stored window says the same, and so does every calendar of the cache or of a
\* provider that was handed out before, however the windows overlap and
\* whichever commands appended them.  (Dataset.Freeze)
FrozenIsProven ==
    \A j \in 1 .. Len(given) : given[j].via = "cache" =>
        \A d \in given[j].range[1] .. given[j].range[2] :
            /\ \E w \in windows : /\ d \in w.from .. w.through
                                  /\ (d \in w.days) = (d \in given[j].days)
            /\ \A i \in 1 .. j - 1 :
                (given[i].via # "configured" /\ Inside(d, given[i].range)) =>
                    ((d \in given[i].days) = (d \in given[j].days))
=============================================================================
