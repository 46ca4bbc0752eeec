------------------------------ MODULE LogFiles ------------------------------
(***************************************************************************)
(* The log file of a process and its rotation (logging/logging.go).  The   *)
(* active file is renamed, replaced, compressed and removed, and the       *)
(* oldest backups are pruned; any of these may fail, and the process may   *)
(* die between any two of them.                                            *)
(*                                                                         *)
(* A line is its number, with the day it was written on; MaxBytes counts   *)
(* lines.  The mutex of the logger makes one write, with its rotation, the *)
(* only thing in progress.  The copy to stdout is left out.                *)
(***************************************************************************)
EXTENDS Integers, FiniteSets

CONSTANTS
    MaxLines,       \* STOCK_WATCHER_LOG_MAX_MB, in lines
    Backups,        \* STOCK_WATCHER_LOG_BACKUPS
    MaxDays,        \* STOCK_WATCHER_LOG_MAX_DAYS
    LastLine, LastDay, MaxLogFaults  \* bounds of the exploration

ASSUME LogAssumption ==
    /\ MaxLines \in Nat \ {0}
    /\ Backups \in Nat \ {0}
    /\ MaxDays \in Nat \ {0}

VARIABLES
    today,      \* the day
    written,    \* the lines so far: number -> day
    active,     \* the lines of stock-watcher.log
    backup,     \* rotation -> form ("log" or "gz") -> that file: [lines, mod]
    handle,     \* l.file: "open", "closed" by Close, "lost", or "dead"
    logDay,     \* l.day
    seq,        \* the rotations so far; names sort by it
    step,       \* where a rotation is
    logFaults   \* the failures and deaths so far

files == <<active, backup>>
logVars == <<today, written, files, handle, logDay, seq, step, logFaults>>

Lines == DOMAIN written
Forms == {"log", "gz"}
Names == {n \in (1 .. seq) \X Forms : n[2] \in DOMAIN backup[n[1]]}
FileOf(n) == backup[n[1]][n[2]]
LinesOf(n) == FileOf(n).lines
\* The day the active file was last written on.
ActiveDay == IF active = {} THEN today
             ELSE CHOOSE d \in {written[i] : i \in active} : \A i \in active : written[i] <= d

LogTypeOK ==
    /\ today \in 1 .. LastDay
    /\ Lines = 1 .. Cardinality(Lines)
    /\ active \subseteq Lines
    /\ DOMAIN backup = 1 .. seq
    /\ handle \in {"open", "closed", "lost", "dead"}
    /\ logDay \in 0 .. LastDay
    /\ step \in {"idle", "close", "rename", "open", "zip", "remove", "prune", "write"}
    /\ logFaults \in 0 .. MaxLogFaults

LogInit ==
    /\ today = 1
    /\ written = [i \in {} |-> 1]
    /\ active = {}
    /\ backup = [i \in {} |-> [f \in {} |-> {}]]
    /\ handle = "dead"
    /\ logDay = 0
    /\ seq = 0
    /\ step = "idle"
    /\ logFaults = 0

-----------------------------------------------------------------------------
Faulty == logFaults < MaxLogFaults
Fault == Faulty /\ logFaults' = logFaults + 1
Drop(names) ==
    [i \in 1 .. seq |-> [f \in {g \in DOMAIN backup[i] : <<i, g>> \notin names} |-> backup[i][f]]]

\* prune: the newest Backups names stay, unless they are older than MaxDays.
\* Names sort as strings, and "x.log.gz" sorts after "x.log".
NewerName(n, m) == n[1] > m[1] \/ (n[1] = m[1] /\ n[2] = "gz" /\ m[2] = "log")
Old == {n \in Names :
          \/ Cardinality({m \in Names : NewerName(m, n)}) >= Backups
          \/ FileOf(n).mod < today - MaxDays}

\* New: the file is opened for appending and its day is the one it was last
\* written on; then the backups are pruned.
StartLogger ==
    /\ handle \in {"dead", "closed"}
    /\ step = "idle"
    /\ handle' = "open"
    /\ logDay' = ActiveDay
    /\ backup' = Drop(Old)
    /\ UNCHANGED <<today, written, active, seq, step, logFaults>>

\* write: a line that does not fit, or that is of another day, rotates first.
\* Without a file it is dropped.
WriteLine ==
    /\ step = "idle"
    /\ handle = "open"
    /\ Cardinality(Lines) < LastLine
    /\ step' = IF active # {} /\ (Cardinality(active) + 1 > MaxLines \/ today # logDay)
               THEN "close" ELSE "write"
    /\ UNCHANGED <<today, written, files, handle, logDay, seq, logFaults>>
AppendLine ==
    /\ step = "write"
    /\ step' = "idle"
    /\ IF handle = "open"
       THEN LET i == Cardinality(Lines) + 1 IN
            /\ written' = [j \in Lines \cup {i} |-> IF j = i THEN today ELSE written[j]]
            /\ active' = active \cup {i}
       ELSE UNCHANGED <<written, active>>
    /\ UNCHANGED <<today, backup, handle, logDay, seq, logFaults>>

\* rotate, call by call.  A failure returns to write; the file that could not be
\* renamed is opened again.
CloseFile ==
    /\ step = "close"
    /\ step' = "rename"
    /\ handle' = "lost"
    /\ UNCHANGED <<today, written, files, logDay, seq, logFaults>>
Reopened == handle' = "open" /\ logDay' = today
RenameFile ==
    /\ step = "rename"
    /\ \/ /\ seq' = seq + 1
          /\ backup' = [i \in 1 .. seq + 1 |->
                          IF i <= seq THEN backup[i] ELSE [f \in {"log"} |-> [lines |-> active, mod |-> ActiveDay]]]
          /\ active' = {}
          /\ step' = "open"
          /\ UNCHANGED <<handle, logDay, logFaults>>
       \/ /\ Fault
          /\ seq' = seq + 1
          /\ backup' = [i \in 1 .. seq + 1 |-> IF i <= seq THEN backup[i] ELSE [f \in {} |-> {}]]
          /\ Reopened
          /\ step' = "write"
          /\ UNCHANGED active
    /\ UNCHANGED <<today, written>>
OpenNew ==
    /\ step = "open"
    /\ \/ /\ Reopened
          /\ step' = "zip"
          /\ UNCHANGED logFaults
       \/ /\ Fault
          /\ step' = "write"
          /\ UNCHANGED <<handle, logDay>>
    /\ UNCHANGED <<today, written, files, seq>>
\* The archive beside the renamed file, with the lines that reached it.
Zipped(lines) == [f \in Forms |-> IF f = "log" THEN backup[seq]["log"]
                                  ELSE [lines |-> lines, mod |-> today]]
\* Mutant of Compress: the renamed file is removed whether or not it was
\* compressed.
CompressUnchecked ==
    /\ step = "zip"
    /\ step' = "remove"
    /\ \/ /\ backup' = [backup EXCEPT ![seq] = Zipped(@["log"].lines)]
          /\ UNCHANGED logFaults
       \/ /\ Fault
          /\ backup' = [backup EXCEPT ![seq] = Zipped({})]
    /\ UNCHANGED <<today, written, active, handle, logDay, seq>>

\* A compression that fails leaves a part of the file under the new name.
Compress ==
    /\ step = "zip"
    /\ \/ /\ step' = "remove"
          /\ backup' = [backup EXCEPT ![seq] = Zipped(@["log"].lines)]
          /\ UNCHANGED logFaults
       \/ /\ Fault
          /\ step' = "write"
          /\ \/ backup' = [backup EXCEPT ![seq] = Zipped({})]
             \/ UNCHANGED backup
    /\ UNCHANGED <<today, written, active, handle, logDay, seq>>
RemoveRotated ==
    /\ step = "remove"
    /\ \/ /\ step' = "prune"
          /\ backup' = Drop({<<seq, "log">>})
          /\ UNCHANGED logFaults
       \/ /\ Fault
          /\ step' = "write"
          /\ UNCHANGED backup
    /\ UNCHANGED <<today, written, active, handle, logDay, seq>>
PruneBackups ==
    /\ step = "prune"
    /\ step' = "write"
    /\ \/ /\ backup' = Drop(Old)
          /\ UNCHANGED logFaults
       \/ /\ Fault
          /\ UNCHANGED backup
    /\ UNCHANGED <<today, written, active, handle, logDay, seq>>

CloseLogger ==
    /\ step = "idle"
    /\ handle \in {"open", "lost"}
    /\ handle' = "closed"
    /\ UNCHANGED <<today, written, files, logDay, seq, step, logFaults>>
LoggerDies ==
    /\ handle # "dead"
    /\ Fault
    /\ handle' = "dead"
    /\ step' = "idle"
    /\ UNCHANGED <<today, written, files, logDay, seq>>
NextDay ==
    /\ today < LastDay
    /\ step = "idle"
    /\ today' = today + 1
    /\ UNCHANGED <<written, files, handle, logDay, seq, step, logFaults>>

LogNext ==
    \/ StartLogger
    \/ WriteLine
    \/ AppendLine
    \/ CloseFile
    \/ RenameFile
    \/ OpenNew
    \/ Compress
    \/ RemoveRotated
    \/ PruneBackups
    \/ CloseLogger
    \/ LoggerDies
    \/ NextDay
LogSpec == LogInit /\ [][LogNext]_logVars

-----------------------------------------------------------------------------
(***************************************************************************)
(* Properties.                                                             *)
(***************************************************************************)

Kept == active \cup UNION {LinesOf(n) : n \in Names}
\* Only pruning forgets a line: until then it is in the active file, in the
\* renamed one or in a complete archive, wherever a rotation failed or the
\* process died.  (rotate)
OnlyPruningForgets ==
    [][Kept \subseteq Kept' \/ step = "prune" \/ (handle # "open" /\ handle' = "open" /\ step = "idle")]_logVars
=============================================================================
