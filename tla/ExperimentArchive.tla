------------------------- MODULE ExperimentArchive -------------------------
(***************************************************************************)
(* The archive of the experiments (storage/experiments.go), the records    *)
(* that are kept in it (experiment/experiment.go) and the commands that    *)
(* write it (cmd/stock-watcher/experiment.go).  A development run reserves *)
(* the last dates of its snapshot; a holdout run consumes them, and the    *)
(* second one on a snapshot is marked as contaminated.                     *)
(*                                                                         *)
(* A snapshot is its last date: a later one is taken from later data.  The *)
(* figures of a result are left out; a completed run has seen the dates it *)
(* evaluated.  Runs are numbered in the order in which they are recorded.  *)
(***************************************************************************)
EXTENDS Integers, FiniteSets

CONSTANTS
    Command,    \* the command processes
    SnapshotOf, \* the last dates of the snapshots
    AskedRange,      \* the signal ranges somebody asks for, as sets of dates
    Reserve,    \* the dates a snapshot reserves (holdout_days)
    Version,    \* the code versions that are run
    MaxExperiments  \* bound of the exploration

ASSUME ArchiveAssumption ==
    /\ Reserve \in Nat \ {0}
    /\ MaxExperiments \in Nat
    /\ "no one" \notin Command
    /\ AskedRange \subseteq SUBSET Nat
    /\ \A s \in SnapshotOf : s \in Nat /\ s > Reserve

VARIABLES
    run,        \* experiment_run: number -> record
    lock,       \* the command that holds .experiments.lock, or NoOne
    command     \* command -> where it is, and what it has read

archiveVars == <<run, lock, command>>

NoOne == "no one"
None == 0
NotRunning == [pc |-> "off"]
Running == {i \in DOMAIN run : run[i].status = "running"}
Reserved(s) == {d \in 1 .. s : d > s - Reserve}

EndedStatus == {"completed", "failed", "canceled", "interrupted"}
Record ==
    [stage : {"development", "holdout"}, parent : Nat, baseline : Nat, data : SnapshotOf,
     range : SUBSET Nat, version : Version, status : EndedStatus \cup {"running"},
     reserved : SUBSET Nat, dates : SUBSET Nat, seen : SUBSET Nat, contaminated : BOOLEAN]
\* What a command knows of its run.
Place ==
    [pc : {"off"}]
    \cup [pc : {"open", "ready"}, version : Version]
    \cup [pc : {"started"}, version : Version, run : DOMAIN run]
    \cup [pc : {"evaluated"}, version : Version, run : DOMAIN run,
          status : {"completed", "failed", "canceled"}]

ArchiveTypeOK ==
    /\ run \in [1 .. Cardinality(DOMAIN run) -> Record]
    /\ \A i \in DOMAIN run : run[i].parent < i /\ run[i].baseline \in 1 .. i
    /\ lock \in Command \cup {NoOne}
    /\ command \in [Command -> Place]

ArchiveInit ==
    /\ run = [i \in {} |-> None]
    /\ lock = NoOne
    /\ command = [c \in Command |-> NotRunning]

-----------------------------------------------------------------------------
\* OpenExperiments takes the lock without waiting; the schema is created if it
\* is missing.
OpenArchive(c) ==
    /\ command[c].pc = "off"
    /\ lock = NoOne
    /\ lock' = c
    /\ \E v \in Version : command' = [command EXCEPT ![c] = [pc |-> "open", version |-> v]]
    /\ UNCHANGED run

\* Finish: only a run that is still running becomes terminal, and only the
\* fields of its execution change.
Finished(i, status) ==
    [run EXCEPT ![i].status = status,
                ![i].seen = IF status = "completed" THEN run[i].dates ELSE {}]

\* recoverInterrupted, which opening ends with: one run after the other.
RecoverOne(c) ==
    /\ command[c].pc = "open"
    /\ \E i \in Running : run' = Finished(i, "interrupted")
    /\ UNCHANGED <<lock, command>>
EndRecovery(c) ==
    /\ command[c].pc = "open"
    /\ Running = {}
    /\ command' = [command EXCEPT ![c].pc = "ready"]
    /\ UNCHANGED <<run, lock>>

\* Mutant of Consumed: a holdout that did not complete does not count.
ConsumedCompleted(s) ==
    \E i \in DOMAIN run :
        run[i].stage = "holdout" /\ run[i].data = s /\ run[i].status = "completed"

\* Whether a holdout of this snapshot was begun before.  (HoldoutConsumed)
Consumed(s) == \E i \in DOMAIN run : run[i].stage = "holdout" /\ run[i].data = s

\* BaselineFor: a child keeps the baseline of its parent, unless it is the first
\* of another rule, code version or range.
BaselineFor(parent, fresh, self) ==
    IF parent = None \/ fresh THEN self ELSE run[parent].baseline

\* The transaction of Start: the record, and the command that has it.
NextRun == Cardinality(DOMAIN run) + 1
Begin(c, record) ==
    /\ run' = [i \in DOMAIN run \cup {NextRun} |-> IF i # NextRun THEN run[i] ELSE record]
    /\ command' = [command EXCEPT ![c] =
         [pc |-> "started", version |-> command[c].version, run |-> NextRun]]
    /\ UNCHANGED lock

\* NewRecord: without a range the last dates are reserved for a holdout.
DevelopmentRecord(parent, s, range, fresh, version) ==
    [stage |-> "development", parent |-> parent, data |-> s,
     baseline |-> BaselineFor(parent, fresh, NextRun), range |-> range,
     version |-> version, status |-> "running",
     reserved |-> IF range = {} THEN Reserved(s) ELSE {},
     dates |-> IF range = {} THEN (1 .. s) \ Reserved(s) ELSE range,
     seen |-> {}, contaminated |-> FALSE]

\* A development run over a new snapshot or over the one of its parent.  The
\* record it was read from cannot change meanwhile: the command holds the lock.
StartDevelopment(c) ==
    /\ command[c].pc = "ready"
    /\ Cardinality(DOMAIN run) < MaxExperiments
    /\ \E parent \in {None} \cup {i \in DOMAIN run : run[i].status = "completed"},
          asked \in AskedRange \cup {{}}, fresh \in BOOLEAN :
       \E s \in IF parent = None THEN SnapshotOf ELSE {run[parent].data},
          range \in {IF asked = {} /\ parent # None THEN run[parent].range ELSE asked} :
         /\ \A d \in range : d <= s
         /\ Begin(c, DevelopmentRecord(parent, s, range, fresh, command[c].version))

\* NewHoldoutRecord.
HoldoutRecord(parent) ==
    [stage |-> "holdout", parent |-> parent, data |-> run[parent].data,
     baseline |-> run[parent].baseline, range |-> {},
     version |-> run[parent].version, status |-> "running", reserved |-> {},
     dates |-> run[parent].reserved, seen |-> {},
     contaminated |-> Consumed(run[parent].data)]

\* runHoldout and Start: the parent is a completed development run that reserved
\* an interval; its rule, its code version and its interval are copied, and the
\* transaction checks again that the interval is as consumed as it was read.
StartHoldout(c) ==
    /\ command[c].pc = "ready"
    /\ Cardinality(DOMAIN run) < MaxExperiments
    /\ \E parent \in DOMAIN run :
         /\ run[parent].stage = "development"
         /\ run[parent].status = "completed"
         /\ run[parent].reserved # {}
         /\ Begin(c, HoldoutRecord(parent))

\* Evaluate: it completes, fails, or is cancelled.
EvaluateRun(c) ==
    /\ command[c].pc = "started"
    /\ \E status \in {"completed", "failed", "canceled"} :
         command' = [command EXCEPT ![c] =
           [pc |-> "evaluated", version |-> command[c].version, run |-> command[c].run,
            status |-> status]]
    /\ UNCHANGED <<run, lock>>

\* Finish of the command, with a context of its own; the write may fail.
FinishRun(c) ==
    /\ command[c].pc = "evaluated"
    /\ \/ run' = Finished(command[c].run, command[c].status)
       \/ UNCHANGED run
    /\ lock' = NoOne
    /\ command' = [command EXCEPT ![c] = NotRunning]

\* The command ends before it recorded anything, refused or cancelled.
LeaveArchive(c) ==
    /\ command[c].pc \in {"open", "ready"}
    /\ lock' = NoOne
    /\ command' = [command EXCEPT ![c] = NotRunning]
    /\ UNCHANGED run

\* The process dies: the system releases its lock.
CommandDies(c) ==
    /\ command[c].pc \in {"started", "evaluated"}
    /\ lock' = NoOne
    /\ command' = [command EXCEPT ![c] = NotRunning]
    /\ UNCHANGED run

ArchiveNext ==
    \/ \E c \in Command : OpenArchive(c)
    \/ \E c \in Command : RecoverOne(c)
    \/ \E c \in Command : EndRecovery(c)
    \/ \E c \in Command : StartDevelopment(c)
    \/ \E c \in Command : StartHoldout(c)
    \/ \E c \in Command : EvaluateRun(c)
    \/ \E c \in Command : FinishRun(c)
    \/ \E c \in Command : LeaveArchive(c)
    \/ \E c \in Command : CommandDies(c)

ArchiveSpec == ArchiveInit /\ [][ArchiveNext]_archiveVars

-----------------------------------------------------------------------------
(***************************************************************************)
(* Properties.                                                             *)
(***************************************************************************)

\* Of the holdouts of one snapshot only the first is not contaminated, however
\* its command ended and whoever began the others.  (experiments.go Start,
\* HoldoutConsumed)
FirstHoldoutOnly ==
    \A i, j \in DOMAIN run :
        /\ i < j
        /\ run[i].stage = "holdout" /\ run[j].stage = "holdout"
        /\ run[i].data = run[j].data
        => run[j].contaminated

\* A run that stands as running belongs to the command that holds the lock: a
\* command that works has first ended what a dead one left.  (recoverInterrupted)
RunningIsAlive ==
    \A c \in Command : command[c].pc \in {"ready", "started", "evaluated"} =>
        /\ lock = c
        /\ \A i \in Running : command[c].pc # "ready" /\ command[c].run = i

\* The baseline a run is compared with is a baseline itself, on the same
\* snapshot, and no holdout.  (BaselineFor, validateHoldoutRecord)
BaselineIsRoot ==
    \A i \in DOMAIN run : LET b == run[run[i].baseline] IN
        /\ b.baseline = run[i].baseline
        /\ b.data = run[i].data
        /\ b.stage = "development"

\* A recorded run is never removed, and one that ended never changes.  (Finish)
EndedIsFinal ==
    [][\A i \in DOMAIN run :
         /\ i \in DOMAIN run'
         /\ run[i].status # "running" => run'[i] = run[i]]_archiveVars
=============================================================================
