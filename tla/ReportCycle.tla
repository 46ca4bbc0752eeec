----------------------------- MODULE ReportCycle -----------------------------
(***************************************************************************)
(* What a monitor call publishes for one trading date, and to whom: Cycle  *)
(* and prepareStartup of internal/monitor, with prepareSecondStage, which  *)
(* holds the second-stage article back until the model artifacts are there *)
(* or publish_by has passed, and the routes of the channels.               *)
(*                                                                         *)
(* MonitorDelivery says how the queued messages are sent; here a message   *)
(* is in the ledger or it is not.  No message of the date leaves the       *)
(* ledger before the session of the next date opens (Prune keeps it for 30 *)
(* days more), and nobody else writes the ledger while a process holds the *)
(* data directory, so the ledger a call has read is the one in the file.   *)
(*                                                                         *)
(* Abstracted: a report is degraded or complete; its id is a digest of its *)
(* contents, so the two have different events.  Details follow the main    *)
(* card, and the review of the first stage is left to MonitorDelivery.     *)
(* secondStagePending only shortens the pause between two cycles.          *)
(***************************************************************************)
EXTENDS Naturals, Sequences

CONSTANTS
    Channel,
    Route,          \* [Channel -> Seq of stages], the comma-separated list
    Configuration,  \* the sets of channels a process may be configured with
    RunAt,          \* daily.run_at, at or after the close of the session
    PublishBy,      \* second_stage.publish_by
    Open,           \* the opening of the T+1 session
    MaxTime, MaxFaults  \* bounds of the exploration

Stage == {"selection", "first_stage", "second_stage"}

ASSUME RouteAssumption ==
    /\ DOMAIN Route = Channel
    /\ Configuration \subseteq SUBSET Channel

ASSUME TimeAssumption ==
    /\ RunAt \in Nat /\ PublishBy \in Nat /\ Open \in Nat
    /\ MaxTime \in Nat /\ MaxFaults \in Nat
    /\ RunAt <= PublishBy
    /\ PublishBy < Open

VARIABLES
    now,        \* the wall clock
    artifacts,  \* the artifacts of every model are on disk
    stored,     \* the report of the date in the database or the file
    ledger,     \* the messages of the date in state/delivery.json
    pc,         \* where the process is
    ready,      \* startupReady
    report,     \* the report of the running call
    deferred,   \* prepareSecondStage has put the article off
    live,       \* the channels this process was configured with
    faults      \* crashes and failed calls so far

vars == <<now, artifacts, stored, ledger, pc, ready, report, deferred, live, faults>>

Version == {"degraded", "complete"}
Message == Stage \X Version \X Channel

TypeOK ==
    /\ now \in 0 .. MaxTime
    /\ artifacts \in BOOLEAN
    /\ stored \in {"none"} \cup Version
    /\ ledger \subseteq Message
    /\ pc \in {"down", "top", "prepare", "deadline", "enqueue"}
    /\ ready \in BOOLEAN
    /\ report \in {"none"} \cup Version
    /\ pc \in {"prepare", "deadline", "enqueue"} => report \in Version
    /\ deferred \in BOOLEAN
    /\ live \subseteq Channel
    /\ faults \in 0 .. MaxFaults

Init ==
    /\ now = 0
    /\ artifacts = FALSE
    /\ stored = "none"
    /\ ledger = {}
    /\ pc = "down"
    /\ ready = FALSE
    /\ report = "none"
    /\ deferred = FALSE
    /\ live = {}
    /\ faults = 0

Fault == faults < MaxFaults /\ faults' = faults + 1

\* The call returns; what it had in hand is gone.
Return ==
    /\ pc' = "top"
    /\ report' = "none"
    /\ deferred' = FALSE

-----------------------------------------------------------------------------
(* Routes and what is recorded.                                             *)

\* Monitor.channelNamesForRoute compares the whole route of a channel.
channelNamesForRoute(stage) ==
    {ch \in live : Route[ch] \in {<<>>, <<"all">>, <<stage>>}}

\* Mutant of Recorded: the id of the report is compared in place of its date.
RecordedReport(l, ch) == \E m \in l : m[3] = ch /\ m[2] = report

\* Mutant of Recorded: a message to any channel counts.
RecordedAnywhere(l, ch) == l # {}

\* A channel has a message for the date, whichever (pendingChannelNames).
Recorded(l, ch) == \E m \in l : m[3] = ch

secondStageDeliveryRecorded ==
    LET channels == channelNamesForRoute("second_stage")
    IN  channels # {} /\ \A ch \in channels : Recorded(ledger, ch)

\* Which channels are pending is asked for every stage before any is queued.
Wanted ==
    {m \in Message :
        /\ m[2] = report
        /\ m[3] \in channelNamesForRoute(m[1])
        /\ ~Recorded(ledger, m[3])
        /\ ~(deferred /\ m[1] = "second_stage")}

-----------------------------------------------------------------------------
\* The once command is a Cycle without prepareStartup; running it again is here
\* one more cycle of the same process.
Start(once, channels) ==
    /\ pc = "down"
    /\ pc' = "top"
    /\ ready' = once
    /\ live' = channels
    /\ UNCHANGED <<now, artifacts, stored, ledger, report, deferred, faults>>

\* Cycle takes the stored report.
ReadReport ==
    /\ pc = "top"
    /\ ready
    /\ RunAt <= now /\ now < Open
    /\ stored # "none"
    /\ report' = stored
    /\ pc' = "prepare"
    /\ UNCHANGED <<now, artifacts, stored, ledger, ready, deferred, live, faults>>

\* prepareStartup always synchronizes, Cycle when there is no stored report.
\* The report is built from the artifacts at hand and stored.
Sync ==
    /\ pc = "top"
    /\ RunAt <= now
    /\ ready => now < Open /\ stored = "none"
    /\ LET r == IF artifacts THEN "complete" ELSE "degraded" IN
        \/ /\ stored' = r
           /\ report' = r
           /\ pc' = "prepare"
           /\ UNCHANGED <<deferred, faults>>
        \/ /\ Fault
           /\ stored' \in {stored, r}
           /\ Return
    /\ UNCHANGED <<now, artifacts, ledger, ready, live>>

-----------------------------------------------------------------------------
(* prepareSecondStage.                                                      *)

\* A healthy report is not touched, nor is one that everyone has already got.
Healthy ==
    /\ pc = "prepare"
    /\ report = "complete" \/ secondStageDeliveryRecorded
    /\ pc' = "enqueue"
    /\ deferred' = FALSE
    /\ UNCHANGED <<now, artifacts, stored, ledger, ready, report, live, faults>>

\* The artifacts are complete: the stored report is replaced, then used.
Recompute ==
    /\ pc = "prepare"
    /\ report = "degraded" /\ ~secondStageDeliveryRecorded
    /\ artifacts
    /\ \/ /\ stored' = "complete"
          /\ report' = "complete"
          /\ pc' = "enqueue"
          /\ deferred' = FALSE
          /\ UNCHANGED faults
       \/ /\ Fault
          /\ stored' \in {stored, "complete"}
          /\ Return
    /\ UNCHANGED <<now, artifacts, ledger, ready, live>>

Incomplete ==
    /\ pc = "prepare"
    /\ report = "degraded" /\ ~secondStageDeliveryRecorded
    /\ ~artifacts
    /\ pc' = "deadline"
    /\ UNCHANGED <<now, artifacts, stored, ledger, ready, report, deferred, live, faults>>

\* Mutant of Defers: an incomplete report waits whatever the time.
DefersAlways(t) == TRUE

\* The clock is read again, after the artifacts.
Defers(t) == t < PublishBy

Deadline ==
    /\ pc = "deadline"
    /\ deferred' = Defers(now)
    /\ pc' = "enqueue"
    /\ UNCHANGED <<now, artifacts, stored, ledger, ready, report, live, faults>>

-----------------------------------------------------------------------------
\* enqueueReportDeferred, the end of the call.
EnqueueReport ==
    /\ pc = "enqueue"
    /\ LET l == IF now < Open THEN ledger \cup Wanted ELSE ledger IN
        \/ ledger' = l /\ ready' = TRUE /\ UNCHANGED faults
        \/ l # ledger /\ Fault /\ ledger' \in {ledger, l} /\ UNCHANGED ready
    /\ Return
    /\ UNCHANGED <<now, artifacts, stored, live>>

\* The generator publishes its artifacts only when all of them succeeded.
ArtifactsArrive ==
    /\ ~artifacts
    /\ artifacts' = TRUE
    /\ UNCHANGED <<now, stored, ledger, pc, ready, report, deferred, live, faults>>

\* The process is killed, or stopped and started again.
Crash ==
    /\ pc # "down"
    /\ Fault
    /\ pc' = "down"
    /\ ready' = FALSE
    /\ report' = "none"
    /\ deferred' = FALSE
    /\ live' = {}
    /\ UNCHANGED <<now, artifacts, stored, ledger>>

Tick ==
    /\ now < MaxTime
    /\ now' = now + 1
    /\ UNCHANGED <<artifacts, stored, ledger, pc, ready, report, deferred, live, faults>>

StartSome == \E once \in BOOLEAN, channels \in Configuration : Start(once, channels)

Work == ReadReport \/ Sync \/ Healthy \/ Recompute \/ Incomplete \/ Deadline \/ EnqueueReport

Next == StartSome \/ Work \/ ArtifactsArrive \/ Crash \/ Tick

Spec == Init /\ [][Next]_vars

\* The service manager restarts the process, which does not stall; time passes
\* up to the last moment before the opening, and then at any speed.
TickBeforeOpen == Tick /\ now + 1 < Open

FairSpec == Spec /\ WF_vars(StartSome) /\ WF_vars(Work) /\ WF_vars(TickBeforeOpen)

-----------------------------------------------------------------------------
(* Properties.                                                              *)

HasArticle(l, ch) == \E v \in Version : <<"second_stage", v, ch>> \in l

\* No channel gets the article of a date twice, degraded and then complete,
\* whatever crashes and refreshes happen in between (pendingChannelNames).
OneArticle ==
    \A ch \in Channel :
        ~(\A v \in Version : <<"second_stage", v, ch>> \in ledger)

\* A degraded article is not published before publish_by: until then the monitor
\* waits for the artifacts, also after a restart and for a channel that joins
\* later (prepareSecondStage).
DegradedOnlyLate ==
    \A ch \in Channel : <<"second_stage", "degraded", ch>> \in ledger => PublishBy <= now

\* A complete article is never ahead of the stored report that readers can look
\* up, at whatever point the process stopped (ReplaceReport before enqueueing).
ArticleIsStored ==
    \A ch \in Channel :
        <<"second_stage", "complete", ch>> \in ledger => stored = "complete"

\* "Several routes may be separated by commas, an empty one broadcasts to all
\* stages" (docs/environment-variables.md): the channels a stage is meant for.
Bound(ch, stage) ==
    \/ Route[ch] = <<>>
    \/ \E i \in DOMAIN Route[ch] : Route[ch][i] \in {"all", stage}

\* When a call that does not put the article off has ended well before the
\* session opens, every configured channel that is bound to the second stage has
\* the article of the date, be it degraded or complete.
EveryRouteServed ==
    [][pc = "enqueue" /\ ~deferred /\ faults' = faults /\ now < Open /\ pc' = "top" =>
          \A ch \in live : Bound(ch, "second_stage") => HasArticle(ledger', ch)]_vars

\* The article is not put off for ever: whether or not the artifacts arrive, it
\* is queued once publish_by has passed, for every channel that stays configured,
\* if there is time for one more call before the session opens.
DeferralEnds ==
    \A ch \in Channel : Bound(ch, "second_stage") =>
        (<>[](now < Open /\ ch \in live) => []<>HasArticle(ledger, ch))
=============================================================================
