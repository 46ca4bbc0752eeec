----------------------------- MODULE DailySync -----------------------------
(***************************************************************************)
(* The synchronization of the pool for one completed session               *)
(* (monitor.go, Sync): the histories of every stock are collected, each    *)
(* with a checkpoint, then published, then analysed into the report of the *)
(* day.  A call that fails, or a process that dies, leaves a task behind   *)
(* which the next call with the same configuration resumes                 *)
(* (storage/sync_task.go, marketdb.go).                                    *)
(*                                                                         *)
(* Every write is a transaction of its own, which may fail; at most one    *)
(* process holds the data (.stock-watcher.lock).                           *)
(*                                                                         *)
(* Abstracted: the history of a stock is full, or ends before the session  *)
(* because the stock was halted, or is missing.  What the statuses of      *)
(* StatusCoverage say of a halted stock is its evidence.  How histories    *)
(* become a report is one step that may fail.  The wall clock, the         *)
(* heartbeat and the progress counters are left out.                       *)
(***************************************************************************)
EXTENDS Integers, Sequences, FiniteSets

CONSTANTS
    N,              \* the stocks of the pool are 1 .. N, in its order
    Halted,         \* those that were halted in the session
    Config,         \* the configurations an operator may use
    Adjusts,        \* [Config -> BOOLEAN]: daily.adjust is not "none"
    MinComplete,    \* stocks needed to reach sync.min_coverage_pct
    MinAnalyzable,  \* stocks needed to reach sync.min_analyzable_pct
    MaxSyncFaults, MaxTasks     \* bounds of the exploration

ASSUME SyncAssumption ==
    /\ N \in Nat \ {0}
    /\ Halted \subseteq 1 .. N
    /\ Adjusts \in [Config -> BOOLEAN]
    /\ MinComplete \in Nat
    /\ MinAnalyzable \in Nat
    /\ MaxSyncFaults \in Nat
    /\ MaxTasks \in Nat

Stock == 1 .. N
History == {"missing", "halted", "full"}
Item == [adjusted : History, raw : History]
NoItem == [adjusted |-> "none", raw |-> "none"]
Isolated == [adjusted |-> "missing", raw |-> "missing"]
Items == [Stock -> Item \cup {NoItem}]
NoItems == [s \in Stock |-> NoItem]
NoReport == [task |-> 0, input |-> NoItems]

VARIABLES
    task,       \* sync_task, in the order of the rows
    checkpoint, \* sync_checkpoint, by task
    runRow,        \* the status of sync_run, by task
    data,       \* what stock_sync holds for the session
    dayReport,     \* selection_run and report_input: the published report
    listed,     \* the stocks whose listing date is stored
    config,     \* the configuration of the process
    spc,         \* where the process is
    id,         \* the task of the running call
    phase,      \* its phase in memory
    next,       \* the stock it is at
    items,      \* what it has collected or reused
    evidence,   \* what the statuses say since the latest refresh
    failed,     \* the call is to return an error
    sfaults      \* faults so far

tables == <<task, checkpoint, runRow, data, dayReport, listed>>
callVars == <<id, phase, next, items, failed>>
syncVars == <<tables, callVars, config, spc, evidence, sfaults>>

TaskId == 1 .. MaxTasks
Phase == {"collecting", "analyzing", "completed"}

SyncTypeOK ==
    /\ task \in Seq([config : Config, phase : Phase,
                     status : {"running", "failed", "completed"}])
    /\ Len(task) \in 0 .. MaxTasks
    /\ checkpoint \in [TaskId -> Items]
    /\ runRow \in [TaskId -> {"none", "running", "failed", "published"}]
    /\ data \in Items
    /\ dayReport \in [task : 0 .. MaxTasks, input : Items]
    /\ listed \subseteq Stock
    /\ config \in Config
    /\ spc \in {"down", "idle", "begun", "collect", "count", "publish", "analyze",
               "commit", "load", "end", "close"}
    /\ id \in 0 .. MaxTasks
    /\ phase \in Phase
    /\ next \in 1 .. N + 1
    /\ items \in Items
    /\ evidence \in [Stock -> {"uncovered", "unknown", "true"}]
    /\ failed \in BOOLEAN
    /\ sfaults \in 0 .. MaxSyncFaults

SyncInit ==
    /\ task = <<>>
    /\ checkpoint = [t \in TaskId |-> NoItems]
    /\ runRow = [t \in TaskId |-> "none"]
    /\ data = NoItems
    /\ dayReport = NoReport
    /\ listed = {}
    /\ config \in Config
    /\ spc = "idle"
    /\ id = 0
    /\ phase = "collecting"
    /\ next = 1
    /\ items = NoItems
    /\ evidence = [s \in Stock |-> "true"]
    /\ failed = FALSE
    /\ sfaults = 0

SyncFault == sfaults < MaxSyncFaults /\ sfaults' = sfaults + 1

-----------------------------------------------------------------------------
(* What an item is worth: evaluateHistory and recalibrateItem.              *)

\* The raw history decides unless nothing is adjusted.
Judged(c, item) == IF Adjusts[c] THEN item.raw ELSE item.adjusted

ItemComplete(c, s, item) ==
    \/ Judged(c, item) = "full"
    \/ Judged(c, item) = "halted" /\ evidence[s] = "true"

Analyzable(item) == item.adjusted = "full"

\* item.Status: only the adjusted side counts.
ItemOK(item) == item.adjusted \in {"halted", "full"}

\* What fetchHistoryUsing may return that passes validateHistoryWithStatus.
Truth(s) == IF s \in Halted THEN "halted" ELSE "full"
Fetched(s) ==
    IF s \in Halted /\ evidence[s] # "true" THEN {"missing"} ELSE {Truth(s), "missing"}

-----------------------------------------------------------------------------
(* One call of Sync.                                                        *)

\* Cycle calls it when there is no report; the operator may at any time.  The
\* refresh of the statuses comes first, and what it could not answer, or what
\* its sources disagree on, costs a fault.
Call ==
    /\ spc = "idle"
    /\ dayReport = NoReport \/ Len(task) < MaxTasks
    /\ evidence' \in [Stock -> {"uncovered", "unknown", "true"}]
    /\ IF \A s \in Stock : evidence'[s] = "true" THEN UNCHANGED sfaults ELSE SyncFault
    /\ spc' = "begun"
    /\ failed' = FALSE
    /\ UNCHANGED <<tables, config, id, phase, next, items>>

OpenTasks(c) == {t \in DOMAIN task : task[t].config = c /\ task[t].status # "completed"}

\* BeginSyncTask: the latest unfinished task of this configuration goes on.
BeginSyncTask ==
    /\ spc = "begun"
    /\ \/ \E t \in OpenTasks(config) :
             /\ \A u \in OpenTasks(config) : u <= t
             /\ id' = t
             /\ task' = [task EXCEPT ![t].status = "running"]
       \/ /\ OpenTasks(config) = {}
          /\ Len(task) < MaxTasks
          /\ id' = Len(task) + 1
          /\ task' = Append(task, [config |-> config, phase |-> "collecting",
                                   status |-> "running"])
    /\ phase' = task'[id'].phase
    /\ next' = 1
    /\ items' = NoItems
    /\ \/ runRow' = [runRow EXCEPT ![id'] = "running"] /\ spc' = "collect" /\ UNCHANGED sfaults
       \/ UNCHANGED runRow /\ spc' = "idle" /\ SyncFault     \* RecordRunningSync fails
    /\ UNCHANGED <<checkpoint, data, dayReport, listed, config, evidence, failed>>

\* A call that could not even begin returns without its deferred end.
BeginFails ==
    /\ spc = "begun"
    /\ SyncFault
    /\ spc' = "idle"
    /\ UNCHANGED <<tables, callVars, config, evidence>>

Fails ==
    /\ SyncFault
    /\ failed' = TRUE
    /\ spc' = "end"

\* listingStock: a date that was found once is stored for good.
Lookup(s) ==
    \/ s \in listed /\ UNCHANGED listed
    \/ s \notin listed /\ listed' = listed \cup {s}

Take(s, item) ==
    /\ items' = [items EXCEPT ![s] = item]
    /\ next' = next + 1
    /\ spc' = IF next = N THEN "count" ELSE "collect"

Cached(s) == checkpoint[id][s]

\* Mutant of Reusable: a stock that failed is asked for again, always.
ReusableSuccess(s) == Cached(s) # NoItem /\ ItemOK(Cached(s))

\* Mutant of Reusable: whatever has a checkpoint is not asked for again.
ReusableAny(s) == Cached(s) # NoItem

\* A stock that failed is asked for again while the inputs are collected.
Reusable(s) ==
    Cached(s) # NoItem /\ (ItemOK(Cached(s)) \/ phase # "collecting")

Reuse ==
    /\ spc = "collect"
    /\ Lookup(next)
    /\ evidence[next] # "uncovered"
    /\ Reusable(next)
    /\ Take(next, Cached(next))
    /\ UNCHANGED <<task, checkpoint, runRow, data, dayReport, config, id, phase, evidence,
                   failed, sfaults>>

Checkpointed(s, item) ==
    /\ checkpoint' = [checkpoint EXCEPT ![id][s] = item]
    /\ Take(s, item)

\* collectStockWithEvidence: an answer that is missing although the source has
\* it costs a fault.  Without an adjustment there is no raw side.
CollectStock ==
    /\ spc = "collect"
    /\ Lookup(next)
    /\ evidence[next] # "uncovered"
    /\ ~Reusable(next)
    /\ \E adjusted \in Fetched(next) :
       \E raw \in IF Adjusts[config] THEN Fetched(next) ELSE {"missing"} :
           /\ Checkpointed(next, [adjusted |-> adjusted, raw |-> raw])
           /\ IF Truth(next) \in Fetched(next) /\ "missing" \in
                    ({adjusted} \cup IF Adjusts[config] THEN {raw} ELSE {})
              THEN SyncFault ELSE UNCHANGED sfaults
    /\ UNCHANGED <<task, runRow, data, dayReport, config, id, phase, evidence, failed>>

\* The listing date is neither stored nor answered: the stock is isolated,
\* whatever its checkpoint says.
ListingIsolates ==
    /\ spc = "collect"
    /\ next \notin listed
    /\ SyncFault
    /\ Checkpointed(next, Isolated)
    /\ UNCHANGED <<task, runRow, data, dayReport, listed, config, id, phase, evidence,
                   failed>>

\* The evidence of the stock is incomplete: the whole call fails.
NoEvidence ==
    /\ spc = "collect"
    /\ evidence[next] = "uncovered"
    /\ failed' = TRUE
    /\ spc' = "end"
    /\ UNCHANGED <<tables, config, id, phase, next, items, evidence, sfaults>>

CompleteStocks == {s \in Stock : ItemComplete(config, s, items[s])}
AnalyzableStocks == {s \in Stock : Analyzable(items[s])}
EnoughCoverage ==
    Cardinality(CompleteStocks) >= MinComplete /\ Cardinality(AnalyzableStocks) >= MinAnalyzable

\* What a commit leaves in stock_sync: a side that is missing now keeps the
\* window of an earlier call but is marked isolated, which no reader accepts.
Count ==
    /\ spc = "count"
    /\ IF EnoughCoverage
       THEN spc' = "publish" /\ UNCHANGED <<data, runRow, phase, failed>>
       ELSE /\ data' = items        \* CommitMarketData
            /\ runRow' = [runRow EXCEPT ![id] = "failed"]
            /\ phase' = "collecting"
            /\ failed' = TRUE
            /\ spc' = "end"
    /\ UNCHANGED <<task, checkpoint, dayReport, listed, config, id, next, items, evidence, sfaults>>

CommitCollectedData ==
    /\ spc = "publish"
    /\ data' = items
    /\ runRow' = [runRow EXCEPT ![id] = "running"]
    /\ phase' = "analyzing"
    /\ \/ /\ task' = [task EXCEPT ![id].phase = "analyzing", ![id].status = "running"]
          /\ spc' = "analyze"
          /\ UNCHANGED <<failed, sfaults>>
       \/ UNCHANGED task /\ Fails   \* SaveSyncTask fails after the commit
    /\ UNCHANGED <<checkpoint, dayReport, listed, config, id, next, items, evidence>>

\* reportMinutes and buildReportWithMinutes.
Analyze ==
    /\ spc = "analyze"
    /\ spc' = "commit"
    /\ UNCHANGED <<tables, callVars, config, evidence, sfaults>>

CommitAnalysis ==
    /\ spc = "commit"
    /\ dayReport' = [task |-> id, input |-> items]
    /\ runRow' = [runRow EXCEPT ![id] = "published"]
    /\ spc' = "load"
    /\ UNCHANGED <<task, checkpoint, data, listed, callVars, config, evidence, sfaults>>

LoadReport ==
    /\ spc = "load"
    /\ spc' = "end"
    /\ UNCHANGED <<tables, callVars, config, evidence, sfaults>>

\* Any call in between may return an error: a cancellation, a write, a source
\* whose error is no provider failure, the analysis, the reading back.
StepFails ==
    /\ spc \in {"collect", "count", "publish", "analyze", "commit", "load"}
    /\ Fails
    /\ phase' = IF spc = "count" /\ ~EnoughCoverage THEN "collecting" ELSE phase
    /\ UNCHANGED <<tables, config, id, next, items, evidence>>

\* The deferred end: the run, and then the task; both are written although the
\* first fails.
RecordFailedRun ==
    /\ spc = "end"
    /\ failed
    /\ \/ runRow' = [runRow EXCEPT ![id] = "failed"] /\ UNCHANGED sfaults
       \/ UNCHANGED runRow /\ SyncFault
    /\ spc' = "close"
    /\ UNCHANGED <<task, checkpoint, data, dayReport, listed, callVars, config, evidence>>

\* Mutant of SaveSyncTask: the call is over, and so is its task.
SaveSyncTaskDone ==
    /\ \/ spc = "close"
       \/ spc = "end" /\ ~failed
    /\ \/ /\ task' = [task EXCEPT ![id].phase = "completed", ![id].status = "completed"]
          /\ UNCHANGED sfaults
       \/ UNCHANGED task /\ SyncFault
    /\ spc' = "idle"
    /\ UNCHANGED <<checkpoint, runRow, data, dayReport, listed, callVars, config, evidence>>

SaveSyncTask ==
    /\ \/ spc = "close"
       \/ spc = "end" /\ ~failed
    /\ \/ /\ task' = [task EXCEPT ![id].phase = IF failed THEN phase ELSE "completed",
                                  ![id].status = IF failed THEN "failed" ELSE "completed"]
          /\ UNCHANGED sfaults
       \/ UNCHANGED task /\ SyncFault
    /\ spc' = "idle"
    /\ UNCHANGED <<checkpoint, runRow, data, dayReport, listed, callVars, config, evidence>>

\* The process dies, or is stopped for another configuration.
SyncCrash ==
    /\ spc # "down"
    /\ SyncFault
    /\ spc' = "down"
    /\ UNCHANGED <<tables, callVars, config, evidence>>

SyncRestart ==
    /\ spc = "down"
    /\ config' \in Config
    /\ spc' = "idle"
    /\ UNCHANGED <<tables, callVars, evidence, sfaults>>

SyncStep ==
    \/ Call
    \/ BeginSyncTask
    \/ Reuse
    \/ CollectStock
    \/ NoEvidence
    \/ Count
    \/ CommitCollectedData
    \/ Analyze
    \/ CommitAnalysis
    \/ LoadReport
    \/ RecordFailedRun
    \/ SaveSyncTask
    \/ SyncRestart

SyncNext ==
    \/ SyncStep
    \/ ListingIsolates
    \/ BeginFails
    \/ StepFails
    \/ SyncCrash

SyncSpec == SyncInit /\ [][SyncNext]_syncVars

\* The loop of the process calls again and again while there is no report, and
\* every call runs to its end.
FairSyncSpec == SyncSpec /\ WF_syncVars(SyncStep)

-----------------------------------------------------------------------------
(* Properties.                                                              *)

\* "A completed analysis input is frozen even when some stocks were isolated":
\* once a task is stored as analyzing, no retry changes what it analyses.
FrozenInputs ==
    [][\A t \in DOMAIN task :
          task[t].phase # "collecting" /\ task'[t].phase # "collecting" =>
              checkpoint'[t] = checkpoint[t]]_syncVars

\* A finished task stands for its report: as long as no other call has begun,
\* the report, the stored histories and the run are those of this task, and
\* the inputs are its checkpoints.
FinishedIsPublished ==
    \A t \in DOMAIN task :
        (task[t].status = "completed" /\ id = t) =>
            /\ dayReport = [task |-> t, input |-> data]
            /\ runRow[t] = "published"
            /\ checkpoint[t] = data

\* When the sources answer again and the process stays up with a configuration
\* that does not adjust, a report is published, whatever was left behind.
ReportComes ==
    \A c \in Config :
        ~Adjusts[c] => (<>[](config = c) => []<>(dayReport # NoReport))
=============================================================================
