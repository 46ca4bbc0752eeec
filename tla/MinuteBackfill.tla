---------------------------- MODULE MinuteBackfill ----------------------------
(***************************************************************************)
(* The command that fills the history of the minute bars from an archive,  *)
(* or from a staging directory (cmd/stock-watcher/backfill_minutes.go,     *)
(* storage/minute_import.go).  A feeder, workers and the collector meet on *)
(* unbuffered channels and stop with the context; what is stored is kept,  *)
(* and a run that is repeated skips the stocks that are already whole.     *)
(*                                                                         *)
(* Stocks are numbers, in the order of the pool.  A bar is <<day, slot>>;  *)
(* the realtime monitor may have left some of them unfinished.  The lock of*)
(* the data directory keeps other writers away while the command runs.     *)
(***************************************************************************)
EXTENDS Integers, FiniteSets

CONSTANTS
    BackfillStock,  \* the pool, 1 .. n
    FillWorker,
    FillDay,        \* the trading days of the range
    FillSlot,       \* the bars of a full session
    Left,           \* what the realtime monitor may have stored: [finished, unfinished]
    Archive,        \* what a provider may have: sets of bars
    MaxFills,       \* a bound on the runs
    MaxFillFaults   \* a bound on failed imports, cancellations and deaths

ASSUME BackfillAssumption ==
    /\ BackfillStock = 1 .. Cardinality(BackfillStock)
    /\ Archive \subseteq SUBSET (FillDay \X FillSlot)
    /\ MaxFills \in Nat /\ MaxFillFaults \in Nat

FillBar == FillDay \X FillSlot
NoJob == [at |-> "idle"]

VARIABLES
    finished, unfinished,   \* intraday_bar of each stock
    traded,         \* the days of each stock that have a daily bar
    command,        \* "idle", "collect", "stage" or "returned"
    toFetch,        \* the stocks still to be handed out
    jobsClosed,     \* the feeder has closed the jobs
    stopped,        \* the context is done
    fetcher,        \* each worker: idle, fetching, with a result, or gone
    byCode,         \* of each stock "none", "complete", "incomplete" or "failed"
    reported,       \* what the command returned
    fills, fillFaults

storedBars == <<finished, unfinished, traded>>
fetchPool == <<toFetch, jobsClosed, fetcher>>
fillVars == <<storedBars, command, fetchPool, stopped, byCode, reported, fills, fillFaults>>

FillTypeOK ==
    /\ \A s \in BackfillStock : finished[s] \cup unfinished[s] \subseteq FillBar /\ finished[s] \cap unfinished[s] = {}
    /\ traded \in [BackfillStock -> SUBSET FillDay]
    /\ command \in {"idle", "collect", "stage", "returned"}
    /\ toFetch \subseteq BackfillStock
    /\ \A w \in FillWorker : fetcher[w].at \in {"idle", "fetch", "done", "failed", "gone"}
    /\ byCode \in [BackfillStock -> {"none", "complete", "incomplete", "failed"}]
    /\ reported \in {"none", "success", "error"}

FillInit ==
    /\ \E l \in [BackfillStock -> Left] :
        /\ finished = [s \in BackfillStock |-> l[s].finished]
        /\ unfinished = [s \in BackfillStock |-> l[s].unfinished]
    /\ traded \in [BackfillStock -> {FillDay, {CHOOSE d \in FillDay : TRUE}}]
    /\ command = "idle"
    /\ toFetch = {} /\ jobsClosed = TRUE /\ stopped = FALSE
    /\ fetcher = [w \in FillWorker |-> [at |-> "gone"]]
    /\ byCode = [s \in BackfillStock |-> "none"]
    /\ reported = "none"
    /\ fills = 0 /\ fillFaults = 0

-----------------------------------------------------------------------------
(* What is counted.                                                         *)

OnDay(some, d) == {b \in some : b[1] = d}

\* minuteCoverageComplete.
CoverageComplete(s) ==
    traded[s] # {} /\ \A d \in traded[s] : OnDay(finished[s], d) = {d} \X FillSlot

\* ImportMinuteArchive: only what is not there is inserted, and what was there
\* counts for its day if it is finished.
Inserted(s, some) == some \ (finished[s] \cup unfinished[s])
DayBars(s, some) == some \ unfinished[s]

\* summarizeMinuteBackfill: a day without a bar is missing, if the stock traded.
Summary(s, counted) ==
    IF \A d \in traded[s] : OnDay(counted, d) # {} THEN "complete" ELSE "incomplete"

-----------------------------------------------------------------------------
(* The command.                                                             *)

FillFault == fillFaults < MaxFillFaults /\ fillFaults' = fillFaults + 1
FirstPending == CHOOSE s \in toFetch : \A t \in toFetch : s <= t

CommandReturns(how) == command' = "returned" /\ reported' = how /\ stopped' = TRUE

\* The stocks that are whole are skipped; the others are fetched by new workers.
StartBackfill ==
    LET whole == {s \in BackfillStock : CoverageComplete(s)} IN
    /\ command = "idle"
    /\ fills < MaxFills
    /\ fills' = fills + 1
    /\ command' = "collect"
    /\ byCode' = [s \in BackfillStock |-> IF s \in whole THEN Summary(s, finished[s]) ELSE "none"]
    /\ toFetch' = BackfillStock \ whole
    /\ jobsClosed' = FALSE
    /\ stopped' = FALSE
    /\ reported' = "none"
    /\ fetcher' = [w \in FillWorker |-> NoJob]
    /\ UNCHANGED <<storedBars, fillFaults>>

\* fetchMinuteArchives.  The feeder hands a job to a worker that waits for one.
HandJob(w) ==
    /\ ~jobsClosed
    /\ toFetch # {}
    /\ fetcher[w].at = "idle"
    /\ fetcher' = [fetcher EXCEPT ![w] = [at |-> "fetch", stock |-> FirstPending]]
    /\ toFetch' = toFetch \ {FirstPending}
    /\ UNCHANGED <<storedBars, command, jobsClosed, stopped, byCode, reported, fills, fillFaults>>

CloseJobs ==
    /\ ~jobsClosed
    /\ toFetch = {} \/ stopped
    /\ jobsClosed' = TRUE
    /\ UNCHANGED <<storedBars, command, toFetch, stopped, fetcher, byCode, reported, fills, fillFaults>>

FetchArchive(w) ==
    /\ fetcher[w].at = "fetch"
    /\ \/ \E some \in Archive :
            fetcher' = [fetcher EXCEPT ![w] = [at |-> "done", stock |-> @.stock, fetched |-> some]]
       \/ fetcher' = [fetcher EXCEPT ![w] = [at |-> "failed", stock |-> @.stock]]
    /\ UNCHANGED <<storedBars, command, toFetch, jobsClosed, stopped, byCode, reported, fills, fillFaults>>

\* The worker leaves when the jobs are closed, or drops its result when the
\* context is done.
LeaveFetching(w) ==
    /\ \/ (fetcher[w].at = "idle" /\ jobsClosed)
       \/ (fetcher[w].at \in {"done", "failed"} /\ stopped)
    /\ fetcher' = [fetcher EXCEPT ![w] = [at |-> "gone"]]
    /\ UNCHANGED <<storedBars, command, toFetch, jobsClosed, stopped, byCode, reported, fills, fillFaults>>

Import(s, some) ==
    /\ finished' = [finished EXCEPT ![s] = @ \cup Inserted(s, some)]
    /\ byCode' = [byCode EXCEPT ![s] = Summary(s, DayBars(s, some))]

\* The collector takes a result.
CollectArchive(w) ==
    /\ command = "collect"
    /\ fetcher[w].at = "done"
    /\ \/ /\ ~stopped
          /\ Import(fetcher[w].stock, fetcher[w].fetched)
          /\ UNCHANGED <<command, reported, stopped, fillFaults>>
       \/ /\ (stopped /\ UNCHANGED fillFaults) \/ FillFault
          /\ CommandReturns("error")
          /\ UNCHANGED <<finished, byCode>>
    /\ fetcher' = [fetcher EXCEPT ![w] = NoJob]
    /\ UNCHANGED <<unfinished, traded, toFetch, jobsClosed, fills>>

CollectFailure(w) ==
    /\ command = "collect"
    /\ fetcher[w].at = "failed"
    /\ IF stopped THEN CommandReturns("error") /\ UNCHANGED byCode
       ELSE byCode' = [byCode EXCEPT ![fetcher[w].stock] = "failed"] /\ UNCHANGED <<command, reported, stopped>>
    /\ fetcher' = [fetcher EXCEPT ![w] = NoJob]
    /\ UNCHANGED <<storedBars, toFetch, jobsClosed, fills, fillFaults>>

PoolGone == \A w \in FillWorker : fetcher[w].at = "gone"

\* Mutant of CommandOutcome: only a stock that failed is an error.
CommandOutcomeLenient ==
    IF \A s \in BackfillStock : byCode[s] # "failed" THEN "success" ELSE "error"

\* A stock without a result counts as failed.
CommandOutcome == IF \A s \in BackfillStock : byCode[s] = "complete" THEN "success" ELSE "error"

\* The last worker closes the results, and the command reports.
EndCollecting ==
    /\ command = "collect"
    /\ PoolGone
    /\ CommandReturns(CommandOutcome)
    /\ UNCHANGED <<storedBars, fetchPool, byCode, fills, fillFaults>>

\* -import-from: stock by stock, without a pool.
StartStaging ==
    /\ command = "idle"
    /\ fills < MaxFills
    /\ fills' = fills + 1
    /\ command' = "stage"
    /\ byCode' = [s \in BackfillStock |-> "none"]
    /\ toFetch' = BackfillStock
    /\ reported' = "none"
    /\ stopped' = FALSE
    /\ UNCHANGED <<storedBars, jobsClosed, fetcher, fillFaults>>

ImportStaged ==
    /\ command = "stage"
    /\ toFetch # {}
    /\ toFetch' = toFetch \ {FirstPending}
    /\ \/ /\ \E some \in Archive :
              IF some = {}
              THEN byCode' = [byCode EXCEPT ![FirstPending] = "failed"] /\ UNCHANGED finished
              ELSE Import(FirstPending, some)
          /\ UNCHANGED <<command, reported, stopped, fillFaults>>
       \/ FillFault /\ CommandReturns("error") /\ UNCHANGED <<finished, byCode>>
    /\ UNCHANGED <<unfinished, traded, jobsClosed, fetcher, fills>>

EndStaging ==
    /\ command = "stage"
    /\ toFetch = {}
    /\ CommandReturns(CommandOutcome)
    /\ UNCHANGED <<storedBars, fetchPool, byCode, fills, fillFaults>>

\* The signal to stop.
CancelFill ==
    /\ command = "collect"
    /\ ~stopped
    /\ FillFault
    /\ stopped' = TRUE
    /\ UNCHANGED <<storedBars, command, fetchPool, byCode, reported, fills>>

\* The process ends, after it returned or before, and takes the pool with it.
EndProcess ==
    /\ command # "idle"
    /\ (command = "returned" /\ UNCHANGED fillFaults) \/ FillFault
    /\ command' = "idle"
    /\ fetcher' = [w \in FillWorker |-> [at |-> "gone"]]
    /\ toFetch' = {} /\ jobsClosed' = TRUE
    /\ UNCHANGED <<storedBars, stopped, byCode, reported, fills>>

FillStep ==
    \/ \E w \in FillWorker : HandJob(w) \/ FetchArchive(w) \/ LeaveFetching(w) \/ CollectArchive(w) \/ CollectFailure(w)
    \/ CloseJobs \/ EndCollecting
    \/ ImportStaged \/ EndStaging

FillNext == StartBackfill \/ StartStaging \/ FillStep \/ CancelFill \/ EndProcess

FillSpec == FillInit /\ [][FillNext]_fillVars

-----------------------------------------------------------------------------
(***************************************************************************)
(* Properties.                                                             *)
(***************************************************************************)

\* A command that reports success has left no session out: every stock has a
\* finished bar on every day it traded, whichever stocks were skipped, and
\* however cancellations, failures and earlier runs cut the work short.
\* (runMinuteBackfill)
SuccessIsWhole ==
    reported = "success" =>
        \A s \in BackfillStock : \A d \in traded[s] : OnDay(finished[s], d) # {}
=============================================================================
