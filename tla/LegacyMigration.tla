--------------------------- MODULE LegacyMigration ---------------------------
(***************************************************************************)
(* A monitor that starts on the state file of version 1 (monitor/monitor.go*)
(* loadState, migrateLegacy, enqueueCards, markCardsDelivered; startup.go). *)
(* Version 1 knew one sender, the date it had delivered last and one report *)
(* that waited.  Before the startup refresh replaces the stored report, the *)
(* two become chains of events in a ledger, which then keeps the refreshed  *)
(* report of the same date away from the channel that has it.               *)
(*                                                                         *)
(* The ledger is that of NotifyLedger.  A send is one step here: what may   *)
(* happen during it is in MonitorDelivery.                                  *)
(***************************************************************************)
EXTENDS NotifyLedger, Integers

(***************************************************************************)
(* What the exchange calendar says of a moment (calendar/calendar.go).     *)
(* Days are numbers; a moment is one of the four parts of a day that the    *)
(* code tells apart.                                                       *)
(***************************************************************************)
CONSTANTS
    ValidFrom, ValidThrough,    \* the coverage of the calendar
    Trades                      \* its trading days

ASSUME CoverageAssumption ==
    /\ ValidFrom \in Nat /\ ValidThrough \in Nat /\ ValidFrom <= ValidThrough
    /\ Trades \subseteq ValidFrom .. ValidThrough

\* Before the opening, in the session, after its close, from daily.run_at on.
PartsOfDay == 4
DayOf(t) == t \div PartsOfDay
OpeningOf(d) == PartsOfDay * d + 1
CloseOf(d) == PartsOfDay * d + 2
PublicationOf(d) == PartsOfDay * d + 3

NoDay == -1

\* The code looks 31 days ahead and back, and fails outside the coverage.
Reach == 31

First(days) == CHOOSE d \in days : \A e \in days : d <= e
Latest(days) == CHOOSE d \in days : \A e \in days : e <= d

\* Calendar.Next; NoDay is its error.
NextTrade(d) ==
    LET later == {e \in Trades : d < e /\ e <= d + Reach}
    IN  IF d + 1 \notin ValidFrom .. ValidThrough \/ later = {} THEN NoDay ELSE First(later)

\* Calendar.Completed: today counts from the close on.
CompletedAt(t) ==
    LET from == IF t < CloseOf(DayOf(t)) THEN DayOf(t) - 1 ELSE DayOf(t)
        earlier == {e \in Trades : from - Reach < e /\ e <= from}
    IN  IF DayOf(t) \notin ValidFrom .. ValidThrough \/ earlier = {} THEN NoDay ELSE Latest(earlier)

\* Expired: a report for a session is too late when that opens.
TooLate(target, t) == target = NoDay \/ OpeningOf(target) <= t

-----------------------------------------------------------------------------
(* The migration. *)

CONSTANTS
    LegacyChannel,  \* the name of the sender of version 1
    Enabled,        \* the sets of channels a start may find enabled
    ReportCards,    \* [date -> [id of a report -> the cards of its chain]]
    LegacyFile,     \* the files version 1 may have left: [last, pending, left]
    NoPending,
    Lasting,        \* a bound on the moments after that
    MaxDeaths       \* a bound on deaths of the process

ASSUME MigrationAssumption ==
    /\ LegacyChannel \in Channel
    /\ \A c \in Card : ExpiresAt[c] = OpeningOf(NextTrade(AsOf[c]))
    /\ \A d \in Trades : NextTrade(d) # NoDay =>
           \A id \in {"old", "new"} :
               ReportCards[d][id] # {} /\ ReportCards[d][id] \subseteq {c \in Card : AsOf[c] = d}
    /\ Lasting \in Nat /\ MaxDeaths \in Nat

\* Version 1 recorded a date when its report no longer waited.
ASSUME LegacyAssumption ==
    \A f \in LegacyFile :
        /\ f.left \in Nat /\ f.last \in Trades \cup {NoDay}
        /\ f.pending # NoPending =>
               /\ f.pending.asof \in Trades \ {f.last} /\ f.pending.next \in Nat
               /\ f.pending.attempts \in 0 .. MaxAttempts /\ f.pending.blocked \in BOOLEAN

VARIABLES
    time,
    legacy,     \* what version 1 left, and when
    version,    \* of the state file
    saved,      \* its ledger, in version 2
    stored,     \* the reports on disk, by date: "none", "old" or "new"
    place,      \* of the process: "down", "start", "read", "synced" or "ready"
    memory,     \* the ledger in memory
    syncing,    \* the date of the startup synchronization
    enabled,    \* the channels of this start
    deaths,
    told        \* history: the slots that were sent

fileVars == <<legacy, version, saved>>
migrationVars == <<time, fileVars, stored, place, memory, syncing, enabled, deaths, told>>

MigrationTypeOK ==
    /\ time \in legacy.left .. legacy.left + Lasting
    /\ version \in {1, 2} /\ saved \in Ledger /\ memory \in Ledger
    /\ place \in {"down", "start", "read", "synced", "ready"}
    /\ enabled \subseteq Channel

MigrationInit ==
    /\ legacy \in LegacyFile
    /\ time = legacy.left
    /\ version = 1
    /\ saved = NewLedger
    /\ stored \in [Trades -> {"none", "old"}]
    /\ place = "down"
    /\ memory = NewLedger
    /\ syncing = NoDay
    /\ enabled = {}
    /\ deaths = 0
    /\ told = {}

-----------------------------------------------------------------------------
(* migrateLegacy.                                                           *)

\* legacyChannels: the enabled sender, or its name when it is disabled.
SlotsOf(date, id) == ReportCards[date][id] \X {LegacyChannel}

\* Mutant of DeliveredLedger: only the main card is marked.
DeliveredLedgerMain(l, date, id) ==
    [s \in Slot |-> IF s \in SlotsOf(date, id)
                    THEN [Fresh EXCEPT !.status = IF Dependent(s) THEN "pending" ELSE "delivered"]
                    ELSE l[s]]

\* The date that was delivered: every card of its report, on the old channel.
DeliveredLedger(l, date, id) ==
    [s \in Slot |-> IF s \in SlotsOf(date, id) THEN [Fresh EXCEPT !.status = "delivered"] ELSE l[s]]

\* The report that waited: its first card takes over what version 1 knew of it.
PendingLedger(l, p) ==
    LET slots == SlotsOf(p.asof, "old")
        queued == Enqueue(l, slots)
    IN  [s \in Slot |-> IF s \in slots /\ ~Dependent(s)
                        THEN [queued[s] EXCEPT !.attempts = p.attempts, !.next = p.next,
                                               !.status = IF p.blocked THEN "blocked" ELSE @]
                        ELSE queued[s]]

\* A delivered date is only kept while its report could be sent again.
KeepsDelivered(t) == legacy.last # NoDay /\ ~TooLate(NextTrade(legacy.last), t)

\* Without the report, or a next session, the migration is refused.
Migrates(t) ==
    /\ legacy.last # NoDay => NextTrade(legacy.last) # NoDay
    /\ KeepsDelivered(t) => stored[legacy.last] # "none"
    /\ legacy.pending # NoPending => NextTrade(legacy.pending.asof) # NoDay

Migrated(t) ==
    LET delivered == IF KeepsDelivered(t)
                     THEN DeliveredLedger(NewLedger, legacy.last, stored[legacy.last])
                     ELSE NewLedger
    IN  IF legacy.pending = NoPending THEN delivered
        ELSE PendingLedger(delivered, legacy.pending)

-----------------------------------------------------------------------------
(* The process.                                                             *)

StartMonitor ==
    /\ place = "down"
    /\ place' = "start"
    /\ enabled' \in Enabled
    /\ UNCHANGED <<time, fileVars, stored, memory, syncing, deaths, told>>

\* readState in prepareStartup: a migrated ledger is written at once.  When it
\* is refused the start is tried again later.
ReadState ==
    /\ place = "start"
    /\ CompletedAt(time) # NoDay
    /\ \/ version = 2 /\ memory' = saved /\ UNCHANGED fileVars
       \/ /\ version = 1 /\ Migrates(time)
          /\ memory' = Migrated(time)
          /\ saved' = memory'
          /\ version' = 2
          /\ UNCHANGED legacy
    /\ syncing' = CompletedAt(time)
    /\ place' = "read"
    /\ UNCHANGED <<time, stored, enabled, deaths, told>>

\* Sync replaces the report of the date, or fails.
SyncStartup ==
    /\ place = "read"
    /\ \/ /\ NextTrade(syncing) # NoDay
          /\ stored' = [stored EXCEPT ![syncing] = "new"]
          /\ place' = IF CompletedAt(time) = syncing THEN "synced" ELSE "start"
       \/ place' = "start" /\ UNCHANGED stored
    /\ UNCHANGED <<time, fileVars, memory, syncing, enabled, deaths, told>>

\* pendingChannelNames: a channel with any event of the date has its report.
Unrecorded(date) ==
    {ch \in enabled : \A c \in Card : AsOf[c] = date => memory[<<c, ch>>].status = "absent"}

\* enqueueReport.
EnqueueStartup ==
    /\ place = "synced"
    /\ IF TooLate(NextTrade(syncing), time) \/ Unrecorded(syncing) = {}
       THEN UNCHANGED <<memory, saved>>
       ELSE /\ memory' = Enqueue(memory, ReportCards[syncing]["new"] \X Unrecorded(syncing))
            /\ saved' = memory'
    /\ place' = "ready"
    /\ UNCHANGED <<time, legacy, version, stored, syncing, enabled, deaths, told>>

\* Cycle delivers what is due, on a channel that is enabled.
SendDue(s) ==
    /\ place = "ready"
    /\ s \in Due(memory, time) /\ s[2] \in enabled
    /\ CanDeliver(memory, s)
    /\ \/ memory' = MarkDelivered(memory, s)
       \/ memory' = MarkPermanent(memory, s)
       \/ memory' = MarkRetryable(memory, s, 0, time)
    /\ saved' = memory'
    /\ told' = told \cup {s}
    /\ UNCHANGED <<time, legacy, version, stored, place, syncing, enabled, deaths>>

MonitorDies ==
    /\ place # "down"
    /\ deaths < MaxDeaths
    /\ deaths' = deaths + 1
    /\ place' = "down"
    /\ memory' = NewLedger
    /\ UNCHANGED <<time, fileVars, stored, syncing, enabled, told>>

TimeFlies ==
    /\ time < legacy.left + Lasting
    /\ time' = time + 1
    /\ UNCHANGED <<fileVars, stored, place, memory, syncing, enabled, deaths, told>>

MigrationNext ==
    \/ StartMonitor
    \/ ReadState
    \/ SyncStartup
    \/ EnqueueStartup
    \/ \E s \in Slot : SendDue(s)
    \/ MonitorDies
    \/ TimeFlies

MigrationSpec == MigrationInit /\ [][MigrationNext]_migrationVars

-----------------------------------------------------------------------------
(***************************************************************************)
(* Properties.                                                             *)
(***************************************************************************)

\* What version 1 knew is kept on its channel, whatever the refreshed report
\* looks like, however often the start is interrupted and whenever the calendar
\* calls a session open: the date it delivered is not sent again, a report it
\* gave up is not sent, and one that had to wait is not sent before its time.
\* (migrateLegacy: "otherwise upgrading can resend that date")
LegacyIsKept ==
    [][\A s \in told' \ told : s[2] = LegacyChannel =>
        LET date == AsOf[s[1]]
            p == legacy.pending
        IN  /\ date # legacy.last
            /\ (p # NoPending /\ date = p.asof) => ~p.blocked /\ p.next <= time]_migrationVars
=============================================================================
