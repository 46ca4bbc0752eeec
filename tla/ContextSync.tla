---------------------------- MODULE ContextSync ----------------------------
(***************************************************************************)
(* The synchronization of the indices and boards (marketcontext/sync.go,   *)
(* ForDate) into context.db (storage/context.go), which runs beside the    *)
(* synchronization of the stocks.  A feeder hands the instruments that are *)
(* behind to a pool of workers over an unbuffered channel; the collector   *)
(* takes their answers from a buffered one, and writes them in batches.    *)
(*                                                                         *)
(* Abstracted: the bars of an instrument are the session of its latest bar.*)
(* The list of error texts is left out.                                    *)
(***************************************************************************)
EXTENDS Integers, Sequences, FiniteSets

CONSTANTS
    Instrument,     \* the indices and the boards
    Worker,         \* the workers of the pool
    Batch,          \* the answers that are written together (20)
    MaxDay,         \* the sessions are 1 .. MaxDay
    MaxContextFaults    \* bound of the exploration

Free == {"idle", "done"}    \* of a worker without a job

ASSUME ContextAssumption ==
    /\ Instrument \cap Free = {}
    /\ Batch \in Nat \ {0}
    /\ MaxDay \in Nat \ {0}

VARIABLES
    lastDate,   \* context_bar: the latest session of an instrument, 0 without one
    answered,   \* history: the latest session an answer was stored for
    status,     \* context_sync: [asof, status, succeeded, failed]
    cpc,        \* where ForDate is
    asof,       \* the session of this call
    work,       \* what the feeder has not handed out
    total,      \* the instruments of this call
    job,        \* what each worker is at, or "idle", "done"
    out,        \* the channel of the answers
    pending,    \* the answers that wait for a batch
    succeeded, lost,    \* result.Succeeded and result.Failed
    abandoned,  \* the context of the call is cancelled
    cfaults     \* faults so far

pool == <<work, job, out, pending, succeeded, lost>>
bars == <<lastDate, answered>>
contextVars == <<bars, status, cpc, asof, total, pool, abandoned, cfaults>>

Answer == [of : Instrument, kind : {"bars", "error", "empty"}, upto : 0 .. MaxDay]
Status == [asof : 0 .. MaxDay, is : {"none", "running", "complete", "partial", "failed"},
           succeeded : Nat, failed : Nat]

ContextTypeOK ==
    /\ lastDate \in [Instrument -> 0 .. MaxDay]
    /\ answered \in [Instrument -> 0 .. MaxDay]
    /\ status \in Status
    /\ cpc \in {"idle", "discover", "run", "report"}
    /\ asof \in 0 .. MaxDay
    /\ work \subseteq Instrument
    /\ total \in Nat
    /\ job \in [Worker -> Instrument \cup Free]
    /\ out \in Seq(Answer)
    /\ Len(out) <= Cardinality(Worker)
    /\ pending \subseteq Answer
    /\ succeeded \in Nat
    /\ lost \in Nat
    /\ abandoned \in BOOLEAN
    /\ cfaults \in 0 .. MaxContextFaults

ContextInit ==
    /\ lastDate = [i \in Instrument |-> 0]
    /\ answered = lastDate
    /\ status = [asof |-> 0, is |-> "none", succeeded |-> 0, failed |-> 0]
    /\ cpc = "idle"
    /\ asof = 0
    /\ work = {}
    /\ total = 0
    /\ job = [w \in Worker |-> "done"]
    /\ out = <<>>
    /\ pending = {}
    /\ succeeded = 0
    /\ lost = 0
    /\ abandoned = FALSE
    /\ cfaults = 0

ContextFault == cfaults < MaxContextFaults /\ cfaults' = cfaults + 1

-----------------------------------------------------------------------------

Saved(s) == status' = s /\ UNCHANGED cfaults
MaySave(s) == Saved(s) \/ (UNCHANGED status /\ ContextFault)

Outcome(is) == [asof |-> asof, is |-> is, succeeded |-> succeeded, failed |-> lost]

\* A call for a session; the daily synchronization passes the completed one, an
\* operator may name an earlier one.
StartContext ==
    /\ cpc = "idle"
    /\ asof' \in 1 .. MaxDay
    /\ MaySave([asof |-> asof', is |-> "running", succeeded |-> 0, failed |-> 0])
    /\ cpc' = "discover"
    /\ abandoned' = FALSE
    /\ UNCHANGED <<bars, total, pool>>

\* DiscoverBoards fails.
DiscoverFails ==
    /\ cpc = "discover"
    /\ ContextFault
    /\ \/ status' = [asof |-> asof, is |-> "failed", succeeded |-> 0, failed |-> 0]
       \/ UNCHANGED status
    /\ cpc' = "idle"
    /\ UNCHANGED <<bars, asof, total, pool, abandoned>>

\* The dates of the stored bars cannot be read: the call returns, and the
\* status goes on saying that it runs.
DatesFail ==
    /\ cpc = "discover"
    /\ ContextFault
    /\ cpc' = "idle"
    /\ UNCHANGED <<bars, status, asof, total, pool, abandoned>>

\* What is not behind is skipped and counts as a success.
Discover ==
    /\ cpc = "discover"
    /\ work' = {i \in Instrument : lastDate[i] < asof}
    /\ total' = Cardinality(Instrument)
    /\ succeeded' = total' - Cardinality(work')
    /\ lost' = 0
    /\ job' = [w \in Worker |-> IF work' = {} THEN "done" ELSE "idle"]
    /\ out' = <<>>
    /\ pending' = {}
    /\ cpc' = "run"
    /\ UNCHANGED <<bars, status, asof, abandoned, cfaults>>

\* The feeder sees the cancellation and closes the channel; it may still hand
\* out a job that a worker is ready for.
StopFeeding ==
    /\ cpc = "run"
    /\ abandoned
    /\ work # {}
    /\ work' = {}
    /\ UNCHANGED <<bars, status, cpc, asof, total, job, out, pending,
                   succeeded, lost, abandoned, cfaults>>

Hand(w) ==
    /\ cpc = "run"
    /\ job[w] = "idle"
    /\ \E i \in work :
          /\ work' = work \ {i}
          /\ job' = [job EXCEPT ![w] = i]
    /\ UNCHANGED <<bars, status, cpc, asof, total, out, pending, succeeded,
                   lost, abandoned, cfaults>>

\* Mutant of LeavePool: a worker that waits for a job does not see that the
\* feeder has stopped.
LeavePoolServed(w) ==
    /\ cpc = "run"
    /\ job[w] = "idle"
    /\ work = {} /\ ~abandoned
    /\ job' = [job EXCEPT ![w] = "done"]
    /\ UNCHANGED <<bars, status, cpc, asof, total, work, out, pending,
                   succeeded, lost, abandoned, cfaults>>

\* The channel of the jobs is closed and empty.
LeavePool(w) ==
    /\ cpc = "run"
    /\ job[w] = "idle"
    /\ work = {}
    /\ job' = [job EXCEPT ![w] = "done"]
    /\ UNCHANGED <<bars, status, cpc, asof, total, work, out, pending,
                   succeeded, lost, abandoned, cfaults>>

\* fetchOne answers: bars up to the session, or none that are new, which is
\* refused only without any bar.  A failure in a cancelled context is sent as an
\* empty answer.
Fetch(w) ==
    /\ cpc = "run"
    /\ job[w] \notin Free
    /\ Len(out) < Cardinality(Worker)
    /\ \E kind \in {"bars", "error", "empty"}, upto \in {lastDate[job[w]], asof} :
          /\ kind = "bars" => upto > 0 /\ UNCHANGED cfaults
          /\ kind = "error" => ~abandoned /\ ContextFault
          /\ kind = "empty" => abandoned /\ UNCHANGED cfaults
          /\ kind # "bars" => upto = asof
          /\ out' = Append(out, [of |-> job[w], kind |-> kind, upto |-> upto])
    /\ job' = [job EXCEPT ![w] = "idle"]
    /\ UNCHANGED <<bars, status, cpc, asof, total, work, pending, succeeded,
                   lost, abandoned>>

Upto(batch, i) == CHOOSE d \in {a.upto : a \in {b \in batch : b.of = i}} : TRUE
In(batch) == {a.of : a \in batch}

\* Mutant of Flushed: a batch that was not written counts as if it was.
FlushedAnyhow(batch) ==
    /\ succeeded' = succeeded + Cardinality(batch)
    /\ pending' = {}
    /\ UNCHANGED lost
    /\ \/ /\ ~abandoned
          /\ lastDate' = [i \in Instrument |->
                            IF i \in In(batch) THEN Upto(batch, i) ELSE lastDate[i]]
          /\ answered' = [i \in Instrument |->
                            IF i \in In(batch) /\ answered[i] < asof THEN asof ELSE answered[i]]
          /\ UNCHANGED cfaults
       \/ /\ IF abandoned THEN UNCHANGED cfaults ELSE ContextFault
          /\ UNCHANGED bars

\* A batch is one transaction, for which a cancelled context begins none.
Flushed(batch) ==
    \/ /\ ~abandoned
       /\ lastDate' = [i \in Instrument |->
                         IF i \in In(batch) THEN Upto(batch, i) ELSE lastDate[i]]
       /\ answered' = [i \in Instrument |->
                         IF i \in In(batch) /\ answered[i] < asof THEN asof ELSE answered[i]]
       /\ succeeded' = succeeded + Cardinality(batch)
       /\ pending' = {}
       /\ UNCHANGED <<lost, cfaults>>
    \/ /\ IF abandoned THEN UNCHANGED cfaults ELSE ContextFault
       /\ lost' = lost + Cardinality(batch)
       /\ pending' = {}
       /\ UNCHANGED <<bars, succeeded>>

Receive ==
    /\ cpc = "run"
    /\ out # <<>>
    /\ out' = Tail(out)
    /\ LET answer == Head(out)
           batch == pending \cup {answer}
       IN  \/ /\ answer.kind = "error"
              /\ lost' = lost + 1
              /\ UNCHANGED <<bars, pending, succeeded, cfaults>>
           \/ answer.kind = "empty" /\ UNCHANGED <<bars, pending, succeeded, lost, cfaults>>
           \/ /\ answer.kind = "bars"
              /\ IF Cardinality(batch) >= Batch THEN Flushed(batch)
                 ELSE pending' = batch /\ UNCHANGED <<bars, succeeded, lost, cfaults>>
    /\ UNCHANGED <<status, cpc, asof, total, work, job, abandoned>>

PoolDone == work = {} /\ \A w \in Worker : job[w] = "done"

\* The answers are closed: the rest is written.
Drain ==
    /\ cpc = "run"
    /\ PoolDone
    /\ out = <<>>
    /\ IF pending = {} THEN UNCHANGED <<bars, pending, succeeded, lost, cfaults>>
       ELSE Flushed(pending)
    /\ cpc' = "report"
    /\ UNCHANGED <<status, asof, total, work, job, out, abandoned>>

\* A cancelled call still writes what it reached.
ReportContext ==
    /\ cpc = "report"
    /\ MaySave(Outcome(IF abandoned THEN "partial"
                       ELSE IF succeeded = 0 THEN "failed"
                       ELSE IF lost > 0 THEN "partial" ELSE "complete"))
    /\ cpc' = "idle"
    /\ UNCHANGED <<bars, asof, total, pool, abandoned>>

Cancel ==
    /\ cpc \in {"discover", "run", "report"}
    /\ ~abandoned
    /\ ContextFault
    /\ abandoned' = TRUE
    /\ UNCHANGED <<bars, status, cpc, asof, total, pool>>

\* The process dies; the goroutines die with it.
CrashContext ==
    /\ cpc # "idle"
    /\ ContextFault
    /\ cpc' = "idle"
    /\ UNCHANGED <<bars, status, asof, total, pool, abandoned>>

ContextStep ==
    \/ Discover
    \/ StopFeeding
    \/ \E w \in Worker : Hand(w) \/ LeavePool(w) \/ Fetch(w)
    \/ Receive
    \/ Drain
    \/ ReportContext

ContextNext ==
    \/ ContextStep
    \/ StartContext
    \/ DiscoverFails
    \/ DatesFail
    \/ Cancel
    \/ CrashContext

ContextSpec == ContextInit /\ [][ContextNext]_contextVars
FairContextSpec == ContextSpec /\ WF_contextVars(ContextStep)

-----------------------------------------------------------------------------
(* Properties.                                                              *)

\* What is reported complete was answered: of every instrument an answer for
\* that session, or for a later one, is stored, over partial calls, lost batches,
\* crashes and calls for other sessions.
CompleteIsStored ==
    status.is = "complete" => \A i \in Instrument : answered[i] >= status.asof

\* Nothing waits for ever: the pool drains and the call returns, cancelled or
\* not, and the stock synchronization that waits for it can return too.
ContextReturns == []<>(cpc = "idle")
=============================================================================
