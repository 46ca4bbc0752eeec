------------------------- MODULE Experiments_proof --------------------------
(***************************************************************************)
(* Proofs about what models are trained on, and what is kept and reported  *)
(* of them, and about the simulations they are judged by:                  *)
(* ExperimentArchive, RollingEvaluation, ForecastFit and TradeRules. The   *)
(* components share nothing, and neither do their proofs.                  *)
(***************************************************************************)
EXTENDS ExperimentArchive, RollingEvaluation, ForecastFit, TradeRules,
        FiniteSetTheorems, FunctionTheorems, SequenceTheorems, WellFoundedInduction, TLAPS

-----------------------------------------------------------------------------
(***************************************************************************)
(* ExperimentArchive, for any number of commands, snapshots, code versions *)
(* and runs.                                                               *)
(*                                                                         *)
(* What a command may rely on between the transactions it makes is that    *)
(* nobody else has the lock, and that what stands as running is its own    *)
(* run: opening has ended the rest. That is the invariant; the properties  *)
(* of the records follow from it and from the transactions.                *)
(***************************************************************************)

\* The runs are numbered without a gap.
Numbered == \E n \in Nat : DOMAIN run = 1 .. n

Typed ==
    /\ Numbered
    /\ run \in [DOMAIN run -> Record]
    /\ \A i \in DOMAIN run : run[i].parent < i /\ run[i].baseline \in 1 .. i
    /\ lock \in Command \cup {NoOne}
    /\ command \in [Command -> Place]

\* Whoever is inside has the lock.
Alone == \A c \in Command : command[c].pc # "off" => lock = c

\* The run of a command is under way until the command has finished it.
Owns ==
    \A c \in Command : command[c].pc \in {"started", "evaluated"} =>
        run[command[c].run].status = "running"

ArchiveInv ==
    /\ Typed
    /\ Alone
    /\ Owns
    /\ RunningIsAlive
    /\ FirstHoldoutOnly
    /\ BaselineIsRoot

-----------------------------------------------------------------------------
\* The number of a run that is recorded next.
LEMMA NextNumber ==
    ASSUME NEW n \in Nat, DOMAIN run = 1 .. n
    PROVE  /\ Cardinality(DOMAIN run) = n
           /\ DOMAIN run \cup {n + 1} = 1 .. n + 1
           /\ n + 1 \notin DOMAIN run
<1>1. Cardinality(1 .. n) = IF 1 > n THEN 0 ELSE n - 1 + 1
  BY FS_Interval
<1>2. QED BY <1>1

\* The numbering says what the type invariant says of it.
LEMMA TypedIsTyped == Typed => ArchiveTypeOK
<1>1. ASSUME Typed PROVE ArchiveTypeOK
  <2>1. PICK n \in Nat : DOMAIN run = 1 .. n
    BY <1>1 DEF Typed, Numbered
  <2>2. Cardinality(DOMAIN run) = n
    BY <2>1, NextNumber
  <2>3. QED BY <1>1, <2>1, <2>2 DEF Typed, ArchiveTypeOK
<1>2. QED BY <1>1

\* A transaction that ends one running run: what it leaves of the records.
LEMMA FinishedKeeps ==
    ASSUME ArchiveInv, NEW i \in Running, NEW status \in EndedStatus,
           run' = Finished(i, status)
    PROVE  /\ DOMAIN run' = DOMAIN run
           /\ run' \in [DOMAIN run -> Record]
           /\ \A j \in DOMAIN run : j # i => run'[j] = run[j]
           /\ \A j \in DOMAIN run :
                /\ run'[j].stage = run[j].stage
                /\ run'[j].data = run[j].data
                /\ run'[j].parent = run[j].parent
                /\ run'[j].baseline = run[j].baseline
                /\ run'[j].contaminated = run[j].contaminated
           /\ run'[i].status = status
           /\ Running' = Running \ {i}
<1> DEFINE ended == [run[i] EXCEPT !.status = status,
                                   !.seen = IF status = "completed" THEN run[i].dates ELSE {}]
<1>1. i \in DOMAIN run /\ run \in [DOMAIN run -> Record]
  BY DEF Running, ArchiveInv, Typed
<1>2. run' = [run EXCEPT ![i] = ended]
  BY <1>1 DEF Finished, Record
<1>3. run[i] \in Record
  BY <1>1
<1>4. ended \in Record
  BY <1>3 DEF Record, EndedStatus
<1>5. /\ ended.stage = run[i].stage /\ ended.data = run[i].data
      /\ ended.parent = run[i].parent /\ ended.baseline = run[i].baseline
      /\ ended.contaminated = run[i].contaminated /\ ended.status = status
  BY <1>3 DEF Record
<1> HIDE DEF ended
<1>6. DOMAIN run' = DOMAIN run /\ run'[i] = ended
      /\ \A j \in DOMAIN run : j # i => run'[j] = run[j]
  BY <1>1, <1>2
<1>7. run' \in [DOMAIN run -> Record]
  BY <1>1, <1>2, <1>4
<1>8. Running' = Running \ {i}
  BY <1>5, <1>6 DEF Running, EndedStatus
<1>9. QED BY <1>5, <1>6, <1>7, <1>8

\* Ending a run disturbs no property of the records.
LEMMA FinishedRecords ==
    ASSUME ArchiveInv, NEW i \in Running, NEW status \in EndedStatus,
           run' = Finished(i, status)
    PROVE  /\ Numbered'
           /\ \A j \in DOMAIN run' : run'[j].parent < j /\ run'[j].baseline \in 1 .. j
           /\ FirstHoldoutOnly'
           /\ BaselineIsRoot'
<1>1. /\ DOMAIN run' = DOMAIN run
      /\ \A j \in DOMAIN run :
            /\ run'[j].stage = run[j].stage
            /\ run'[j].data = run[j].data
            /\ run'[j].parent = run[j].parent
            /\ run'[j].baseline = run[j].baseline
            /\ run'[j].contaminated = run[j].contaminated
  BY FinishedKeeps
<1>2. Numbered' /\ \A j \in DOMAIN run' : run'[j].parent < j /\ run'[j].baseline \in 1 .. j
  BY <1>1 DEF ArchiveInv, Typed, Numbered
<1>3. FirstHoldoutOnly'
  BY <1>1 DEF ArchiveInv, FirstHoldoutOnly
<1>4. \A j \in DOMAIN run : run[j].baseline \in DOMAIN run
  <2>1. PICK n \in Nat : DOMAIN run = 1 .. n
    BY DEF ArchiveInv, Typed, Numbered
  <2>2. QED BY <2>1 DEF ArchiveInv, Typed
<1>5. BaselineIsRoot'
  BY <1>1, <1>4 DEF ArchiveInv, BaselineIsRoot
<1>6. QED BY <1>2, <1>3, <1>5

\* A command that is ready finds no run under way.
LEMMA ReadyIsQuiet ==
    ASSUME ArchiveInv, NEW c \in Command, command[c].pc = "ready"
    PROVE  Running = {}
BY DEF ArchiveInv, RunningIsAlive

\* The record a command adds, of a type and with a baseline that is one already.
LEMMA RecordAdded ==
    ASSUME ArchiveInv, NEW c \in Command, command[c].pc = "ready",
           NEW record \in Record, record.status = "running",
           NEW self, self = Cardinality(DOMAIN run) + 1,
           record.parent < self,
           record.baseline \in 1 .. self,
           run' = [i \in DOMAIN run \cup {self} |-> IF i # self THEN run[i] ELSE record],
           command' = [command EXCEPT ![c] =
                  [pc |-> "started", version |-> command[c].version, run |-> self]],
           lock' = lock,
           record.baseline # self =>
               /\ run[record.baseline].baseline = record.baseline
               /\ run[record.baseline].data = record.data
               /\ run[record.baseline].stage = "development",
           record.baseline = self => record.stage = "development",
           record.stage = "holdout" => record.contaminated = Consumed(record.data)
    PROVE  ArchiveInv'
<1>1. PICK n \in Nat : DOMAIN run = 1 .. n
  BY DEF ArchiveInv, Typed, Numbered
<1>2. self = n + 1 /\ DOMAIN run \cup {self} = 1 .. n + 1 /\ self \notin DOMAIN run
  BY <1>1, NextNumber
<1>3. /\ DOMAIN run' = 1 .. n + 1
      /\ run'[self] = record
      /\ \A i \in DOMAIN run : run'[i] = run[i] /\ i < self
      /\ run' \in [DOMAIN run' -> Record]
  BY <1>1, <1>2 DEF ArchiveInv, Typed
<1>4. /\ command'[c] = [pc |-> "started", version |-> command[c].version, run |-> self]
      /\ \A d \in Command : d # c => command'[d] = command[d]
  BY DEF ArchiveInv, Typed
<1>5. command[c].version \in Version
  BY DEF ArchiveInv, Typed, Place
<1>6. Typed'
  <2>1. command' \in [Command -> Place']
    <3>1. \A d \in Command : command[d] \in Place
      BY DEF ArchiveInv, Typed
    <3>2. Place \subseteq Place'
      BY <1>1, <1>2, <1>3 DEF Place
    <3>3. command'[c] \in Place'
      BY <1>2, <1>3, <1>4, <1>5 DEF Place
    <3>4. command' = [d \in Command |-> command'[d]]
      BY DEF ArchiveInv, Typed
    <3>5. \A d \in Command : command'[d] \in Place'
      BY <1>4, <3>1, <3>2, <3>3
    <3>6. QED BY <3>4, <3>5
  <2>2. \A i \in DOMAIN run' : run'[i].parent < i /\ run'[i].baseline \in 1 .. i
    BY <1>1, <1>2, <1>3 DEF ArchiveInv, Typed
  <2>3. Numbered'
    BY <1>3 DEF Numbered
  <2>4. lock' \in Command \cup {NoOne}
    BY DEF ArchiveInv, Typed, NoOne
  <2>5. QED BY <1>3, <2>1, <2>2, <2>3, <2>4 DEF Typed
<1>7. lock = c /\ \A d \in Command : d # c => command[d].pc = "off"
  BY DEF ArchiveInv, Alone
<1>8. Running = {}
  BY ReadyIsQuiet
<1>9. Running' = {self}
  BY <1>1, <1>2, <1>3, <1>8 DEF Running
<1>10. Alone'
  BY <1>4, <1>7 DEF Alone
<1>11. Owns'
  BY <1>3, <1>4, <1>7 DEF Owns
<1>12. RunningIsAlive'
  BY <1>4, <1>7, <1>9 DEF RunningIsAlive
<1>13. FirstHoldoutOnly'
  <2> SUFFICES \A i, j \in DOMAIN run' :
                  /\ i < j
                  /\ run'[i].stage = "holdout" /\ run'[j].stage = "holdout"
                  /\ run'[i].data = run'[j].data
                  => run'[j].contaminated
    BY Zenon DEF FirstHoldoutOnly
  <2> TAKE i, j \in DOMAIN run'
  <2> HAVE /\ i < j
           /\ run'[i].stage = "holdout" /\ run'[j].stage = "holdout"
           /\ run'[i].data = run'[j].data
  <2>1. i \in DOMAIN run
    BY <1>1, <1>2, <1>3
  <2>2. CASE j \in DOMAIN run
    BY <1>3, <2>1, <2>2 DEF ArchiveInv, FirstHoldoutOnly
  <2>3. CASE j = self
    <3>1. Consumed(record.data)
      BY <1>3, <2>1, <2>3 DEF Consumed
    <3>2. QED BY <1>3, <2>3, <3>1
  <2>4. QED BY <1>1, <1>2, <1>3, <2>2, <2>3
<1>14. BaselineIsRoot'
  <2> SUFFICES ASSUME NEW i \in DOMAIN run'
               PROVE  /\ run'[run'[i].baseline].baseline = run'[i].baseline
                      /\ run'[run'[i].baseline].data = run'[i].data
                      /\ run'[run'[i].baseline].stage = "development"
    BY DEF BaselineIsRoot
  <2>1. CASE i \in DOMAIN run
    <3>1. run[i].baseline \in DOMAIN run
      BY <1>1, <2>1 DEF ArchiveInv, Typed
    <3>2. QED BY <1>3, <2>1, <3>1 DEF ArchiveInv, BaselineIsRoot
  <2>2. CASE i = self
    <3>1. CASE record.baseline = self
      BY <1>3, <2>2, <3>1
    <3>2. CASE record.baseline # self
      <4>1. record.baseline \in DOMAIN run
        BY <1>1, <1>2, <3>2
      <4>2. QED BY <1>3, <2>2, <3>2, <4>1
    <3>3. QED BY <3>1, <3>2
  <2>3. QED BY <1>1, <1>2, <1>3, <2>1, <2>2
<1>15. QED BY <1>6, <1>10, <1>11, <1>12, <1>13, <1>14 DEF ArchiveInv

-----------------------------------------------------------------------------
\* At the start nothing is recorded and nobody has the lock.
LEMMA ArchiveStart == ArchiveInit => ArchiveInv
<1> SUFFICES ASSUME ArchiveInit PROVE ArchiveInv
  OBVIOUS
<1>1. DOMAIN run = 1 .. 0
  BY DEF ArchiveInit
<1>2. Typed
  BY <1>1 DEF ArchiveInit, Typed, Numbered, Place, NotRunning, NoOne
<1>3. Alone /\ Owns /\ RunningIsAlive
  BY DEF ArchiveInit, Alone, Owns, RunningIsAlive, NotRunning
<1>4. FirstHoldoutOnly /\ BaselineIsRoot
  BY <1>1 DEF FirstHoldoutOnly, BaselineIsRoot
<1>5. QED BY <1>2, <1>3, <1>4 DEF ArchiveInv

\* Steps that leave the records as they are.
LEMMA SameRecords ==
    ASSUME ArchiveInv, run' = run
    PROVE  /\ Numbered' /\ run' \in [DOMAIN run' -> Record]
           /\ \A i \in DOMAIN run' : run'[i].parent < i /\ run'[i].baseline \in 1 .. i
           /\ FirstHoldoutOnly' /\ BaselineIsRoot'
           /\ Running' = Running
           /\ Place' = Place
<1>1. Numbered' /\ run' \in [DOMAIN run' -> Record]
      /\ \A i \in DOMAIN run' : run'[i].parent < i /\ run'[i].baseline \in 1 .. i
  BY DEF ArchiveInv, Typed, Numbered
<1>2. FirstHoldoutOnly' /\ BaselineIsRoot'
  BY Zenon DEF ArchiveInv, FirstHoldoutOnly, BaselineIsRoot
<1>3. Running' = Running /\ Place' = Place
  BY DEF Running, Place
<1>4. QED BY <1>1, <1>2, <1>3

\* A step of one command that leaves the records as they are and goes to a place
\* where it has the lock, or leaves and gives the lock back.
LEMMA OneMoves ==
    ASSUME ArchiveInv, NEW c \in Command, run' = run,
           NEW place \in Place,
           command' = [command EXCEPT ![c] = place],
           lock' = IF place.pc = "off" THEN NoOne ELSE c,
           \A d \in Command : d # c => command[d].pc = "off",
           place.pc = "ready" => Running = {},
           place.pc \in {"started", "evaluated"} =>
               /\ Running \subseteq {place.run}
               /\ run[place.run].status = "running"
    PROVE  ArchiveInv'
<1>1. /\ command'[c] = place
      /\ \A d \in Command : d # c => command'[d] = command[d]
      /\ command' \in [Command -> Place]
  BY DEF ArchiveInv, Typed
<1>2. Typed'
  <2>1. lock' \in Command \cup {NoOne}
    OBVIOUS
  <2>2. command' \in [Command -> Place']
    BY <1>1, SameRecords
  <2>3. QED BY <2>1, <2>2, SameRecords DEF Typed, NoOne
<1>3. Alone'
  BY <1>1 DEF Alone
<1>4. Owns'
  BY <1>1 DEF Owns
<1>5. RunningIsAlive'
  BY <1>1, SameRecords DEF RunningIsAlive
<1>6. QED BY <1>2, <1>3, <1>4, <1>5, SameRecords DEF ArchiveInv

\* Where a command is, and that it is alone there.
LEMMA Inside ==
    ASSUME ArchiveInv, NEW c \in Command
    PROVE  /\ command[c] \in Place
           /\ command[c].pc # "off" => /\ lock = c
                                      /\ \A d \in Command : d # c => command[d].pc = "off"
           /\ lock = NoOne => \A d \in Command : command[d].pc = "off"
<1>1. command[c] \in Place
  BY DEF ArchiveInv, Typed
<1>2. command[c].pc # "off" => /\ lock = c
                              /\ \A d \in Command : d # c => command[d].pc = "off"
  BY DEF ArchiveInv, Alone
<1>3. lock = NoOne => \A d \in Command : command[d].pc = "off"
  BY ArchiveAssumption DEF ArchiveInv, Alone, NoOne
<1>4. QED BY <1>1, <1>2, <1>3

\* Each step of a command keeps the invariant.
LEMMA ArchiveStep == ArchiveInv /\ [ArchiveNext]_archiveVars => ArchiveInv'
<1> SUFFICES ASSUME ArchiveInv, [ArchiveNext]_archiveVars PROVE ArchiveInv'
  OBVIOUS
<1>1. ASSUME NEW c \in Command, OpenArchive(c) PROVE ArchiveInv'
  <2>1. PICK v \in Version :
          command' = [command EXCEPT ![c] = [pc |-> "open", version |-> v]]
    BY <1>1 DEF OpenArchive
  <2> DEFINE place == [pc |-> "open", version |-> v]
  <2>2. place \in Place /\ place.pc = "open"
    BY DEF Place
  <2>3. \A d \in Command : d # c => command[d].pc = "off"
    BY <1>1, Inside DEF OpenArchive
  <2>4. run' = run /\ lock' = c /\ command' = [command EXCEPT ![c] = place]
    BY <1>1, <2>1 DEF OpenArchive
  <2> HIDE DEF place
  <2>5. QED BY <2>2, <2>3, <2>4, OneMoves
<1>2. ASSUME NEW c \in Command, RecoverOne(c) PROVE ArchiveInv'
  <2>1. PICK i \in Running : run' = Finished(i, "interrupted")
    BY <1>2 DEF RecoverOne
  <2>2. "interrupted" \in EndedStatus
    BY DEF EndedStatus
  <2>3. command[c].pc = "open" /\ lock' = lock /\ command' = command
    BY <1>2 DEF RecoverOne
  <2>4. /\ DOMAIN run' = DOMAIN run
        /\ run' \in [DOMAIN run -> Record]
    BY <2>1, <2>2, FinishedKeeps
  <2>5. /\ Numbered'
        /\ \A j \in DOMAIN run' : run'[j].parent < j /\ run'[j].baseline \in 1 .. j
        /\ FirstHoldoutOnly'
        /\ BaselineIsRoot'
    BY <2>1, <2>2, FinishedRecords
  <2>6. Typed'
    <3>1. Place' = Place
      BY <2>4 DEF Place
    <3>2. QED BY <2>3, <2>4, <2>5, <3>1 DEF ArchiveInv, Typed
  <2>7. \A d \in Command : d # c => command[d].pc = "off"
    BY <2>3, Inside
  <2>8. Alone' /\ Owns' /\ RunningIsAlive'
    BY <2>3, <2>7 DEF ArchiveInv, Alone, Owns, RunningIsAlive
  <2>9. QED BY <2>5, <2>6, <2>8 DEF ArchiveInv
<1>3. ASSUME NEW c \in Command, EndRecovery(c) PROVE ArchiveInv'
  <2> DEFINE place == [command[c] EXCEPT !.pc = "ready"]
  <2>1. command[c].pc = "open" /\ Running = {} /\ run' = run /\ lock' = lock
    BY <1>3 DEF EndRecovery
  <2>2. command[c] \in [pc : {"open", "ready"}, version : Version]
    BY <2>1, Inside DEF Place
  <2>3. place \in Place /\ place.pc = "ready"
    BY <2>2 DEF Place
  <2>4. command' = [command EXCEPT ![c] = place]
    BY <1>3 DEF EndRecovery
  <2>5. lock = c /\ \A d \in Command : d # c => command[d].pc = "off"
    BY <2>1, Inside
  <2> HIDE DEF place
  <2>6. QED BY <2>1, <2>3, <2>4, <2>5, OneMoves
<1>4. ASSUME NEW c \in Command, StartDevelopment(c) PROVE ArchiveInv'
  <2>1. PICK parent \in {None} \cup {i \in DOMAIN run : run[i].status = "completed"},
             asked \in AskedRange \cup {{}}, fresh \in BOOLEAN :
        \E s \in IF parent = None THEN SnapshotOf ELSE {run[parent].data},
           range \in {IF asked = {} /\ parent # None THEN run[parent].range ELSE asked} :
             Begin(c, DevelopmentRecord(parent, s, range, fresh, command[c].version))
    BY <1>4 DEF StartDevelopment
  <2>2. PICK s \in IF parent = None THEN SnapshotOf ELSE {run[parent].data},
             range \in {IF asked = {} /\ parent # None THEN run[parent].range ELSE asked} :
             Begin(c, DevelopmentRecord(parent, s, range, fresh, command[c].version))
    BY <2>1
  <2> DEFINE base == BaselineFor(parent, fresh, NextRun)
             record == DevelopmentRecord(parent, s, range, fresh, command[c].version)
  <2>3. command[c].pc = "ready"
    BY <1>4 DEF StartDevelopment
  <2>4. PICK n \in Nat : DOMAIN run = 1 .. n
    BY DEF ArchiveInv, Typed, Numbered
  <2>5. NextRun = n + 1
    BY <2>4, NextNumber DEF NextRun
  <2>6. command[c].version \in Version
    BY <2>3, Inside DEF Place
  <2>7. parent # None => parent \in DOMAIN run /\ run[parent] \in Record
    BY <2>4 DEF ArchiveInv, Typed, None
  <2>8. s \in SnapshotOf /\ s \in Nat
    BY <2>7, ArchiveAssumption DEF Record
  <2>9. range \in SUBSET Nat
    BY <2>7, ArchiveAssumption DEF Record
  <2>10. base \in 1 .. NextRun
    BY <2>4, <2>5, <2>7 DEF BaselineFor, ArchiveInv, Typed
  <2>11. parent \in Nat /\ parent < NextRun
    BY <2>4, <2>5, <2>7 DEF None
  <2>12. base # NextRun =>
           /\ run[base].baseline = base /\ run[base].data = s
           /\ run[base].stage = "development"
    <3> HAVE base # NextRun
    <3>1. parent # None /\ base = run[parent].baseline /\ s = run[parent].data
      BY DEF BaselineFor
    <3>2. QED BY <2>7, <3>1 DEF ArchiveInv, BaselineIsRoot
  <2>13. Reserved(s) \subseteq Nat
    BY <2>8 DEF Reserved
  <2>14. /\ record.status = "running" /\ record.parent = parent /\ record.baseline = base
         /\ record.data = s /\ record.stage = "development"
    BY DEF DevelopmentRecord
  <2> HIDE DEF base
  <2>15. record \in Record
    BY <2>5, <2>6, <2>8, <2>9, <2>10, <2>11, <2>13 DEF Record, DevelopmentRecord, base
  <2> HIDE DEF record
  <2>16. record.stage = "holdout" => record.contaminated = Consumed(record.data)
    BY <2>14
  <2>17. /\ run' = [i \in DOMAIN run \cup {NextRun} |-> IF i # NextRun THEN run[i] ELSE record]
         /\ command' = [command EXCEPT ![c] =
              [pc |-> "started", version |-> command[c].version, run |-> NextRun]]
         /\ lock' = lock
    BY <2>2 DEF Begin, record
  <2>18. QED
    BY <2>3, <2>10, <2>11, <2>12, <2>14, <2>15, <2>16, <2>17, RecordAdded DEF NextRun
<1>5. ASSUME NEW c \in Command, StartHoldout(c) PROVE ArchiveInv'
  <2>1. PICK parent \in DOMAIN run :
         run[parent].stage = "development" /\ Begin(c, HoldoutRecord(parent))
    BY <1>5 DEF StartHoldout
  <2> DEFINE record == HoldoutRecord(parent)
  <2>2. command[c].pc = "ready"
    BY <1>5 DEF StartHoldout
  <2>3. PICK n \in Nat : DOMAIN run = 1 .. n
    BY DEF ArchiveInv, Typed, Numbered
  <2>4. NextRun = n + 1
    BY <2>3, NextNumber DEF NextRun
  <2>5. run[parent] \in Record
    BY DEF ArchiveInv, Typed
  <2>6. /\ parent \in Nat /\ parent < NextRun
        /\ run[parent].baseline \in 1 .. NextRun /\ run[parent].baseline # NextRun
    BY <2>3, <2>4 DEF ArchiveInv, Typed
  <2>7. LET b == run[run[parent].baseline] IN
        b.baseline = run[parent].baseline /\ b.data = run[parent].data /\ b.stage = "development"
    BY DEF ArchiveInv, BaselineIsRoot
  <2>8. Consumed(run[parent].data) \in BOOLEAN
    BY DEF Consumed
  <2>9. record \in Record
    BY <2>4, <2>5, <2>6, <2>8 DEF Record, HoldoutRecord
  <2>10. /\ record.status = "running" /\ record.parent = parent
         /\ record.baseline = run[parent].baseline /\ record.data = run[parent].data
         /\ record.stage = "holdout" /\ record.contaminated = Consumed(record.data)
    BY DEF HoldoutRecord
  <2> HIDE DEF record
  <2>11. /\ run' = [i \in DOMAIN run \cup {NextRun} |-> IF i # NextRun THEN run[i] ELSE record]
         /\ command' = [command EXCEPT ![c] =
              [pc |-> "started", version |-> command[c].version, run |-> NextRun]]
         /\ lock' = lock
    BY <2>1 DEF Begin, record
  <2>12. QED BY <2>2, <2>6, <2>7, <2>9, <2>10, <2>11, RecordAdded DEF NextRun
<1>6. ASSUME NEW c \in Command, EvaluateRun(c) PROVE ArchiveInv'
  <2>1. PICK status \in {"completed", "failed", "canceled"} :
          command' = [command EXCEPT ![c] =
            [pc |-> "evaluated", version |-> command[c].version, run |-> command[c].run,
             status |-> status]]
    BY <1>6 DEF EvaluateRun
  <2> DEFINE place == [pc |-> "evaluated", version |-> command[c].version,
                       run |-> command[c].run, status |-> status]
  <2>2. command[c].pc = "started" /\ run' = run /\ lock' = lock
    BY <1>6 DEF EvaluateRun
  <2>3. command[c] \in [pc : {"started"}, version : Version, run : DOMAIN run]
    BY <2>2, Inside DEF Place
  <2>4. place \in Place /\ place.pc = "evaluated" /\ place.run = command[c].run
    BY <2>3 DEF Place
  <2>5. lock = c /\ \A d \in Command : d # c => command[d].pc = "off"
    BY <2>2, Inside
  <2>6. Running \subseteq {command[c].run} /\ run[command[c].run].status = "running"
    BY <2>2 DEF ArchiveInv, RunningIsAlive, Owns
  <2>7. command' = [command EXCEPT ![c] = place]
    BY <2>1
  <2> HIDE DEF place
  <2>8. QED BY <2>2, <2>4, <2>5, <2>6, <2>7, OneMoves
<1>7. ASSUME NEW c \in Command, command[c].pc # "off", run' = run, lock' = NoOne,
             command' = [command EXCEPT ![c] = NotRunning]
      PROVE  ArchiveInv'
  <2>1. NotRunning \in Place /\ NotRunning.pc = "off"
    BY DEF NotRunning, Place
  <2>2. QED BY <1>7, <2>1, Inside, OneMoves
<1>8. ASSUME NEW c \in Command, FinishRun(c) PROVE ArchiveInv'
  <2>1. command[c].pc = "evaluated" /\ lock' = NoOne
        /\ command' = [command EXCEPT ![c] = NotRunning]
    BY <1>8 DEF FinishRun
  <2>2. CASE run' = run
    BY <1>7, <2>1, <2>2
  <2>3. CASE run' = Finished(command[c].run, command[c].status)
    <3>1. command[c] \in [pc : {"evaluated"}, version : Version, run : DOMAIN run,
                          status : {"completed", "failed", "canceled"}]
      BY <2>1, Inside DEF Place
    <3>2. command[c].run \in Running /\ command[c].status \in EndedStatus
      BY <2>1, <3>1 DEF ArchiveInv, Owns, Running, EndedStatus
    <3>3. Running \subseteq {command[c].run}
      BY <2>1 DEF ArchiveInv, RunningIsAlive
    <3>4. /\ DOMAIN run' = DOMAIN run /\ run' \in [DOMAIN run -> Record]
          /\ Running' = {}
      BY <2>3, <3>2, <3>3, FinishedKeeps
    <3>5. /\ Numbered'
          /\ \A j \in DOMAIN run' : run'[j].parent < j /\ run'[j].baseline \in 1 .. j
          /\ FirstHoldoutOnly'
          /\ BaselineIsRoot'
      BY <2>3, <3>2, FinishedRecords
    <3>6. NotRunning \in Place /\ NotRunning.pc = "off"
      BY DEF NotRunning, Place
    <3>7. Place' = Place
      BY <3>4 DEF Place
    <3>8. command' \in [Command -> Place]
      BY <2>1, <3>6 DEF ArchiveInv, Typed
    <3>9. \A d \in Command : command'[d].pc = "off"
      BY <2>1, <3>6, Inside DEF ArchiveInv, Typed
    <3>10. Alone' /\ Owns' /\ RunningIsAlive'
      BY <3>9 DEF Alone, Owns, RunningIsAlive
    <3>11. Typed'
      BY <2>1, <3>4, <3>5, <3>7, <3>8 DEF Typed
    <3>12. QED BY <3>5, <3>10, <3>11 DEF ArchiveInv
  <2>4. QED BY <1>8, <2>2, <2>3 DEF FinishRun
<1>9. ASSUME NEW c \in Command, LeaveArchive(c) PROVE ArchiveInv'
  BY <1>7, <1>9 DEF LeaveArchive
<1>10. ASSUME NEW c \in Command, CommandDies(c) PROVE ArchiveInv'
  BY <1>7, <1>10 DEF CommandDies
<1>11. CASE UNCHANGED archiveVars
  <2>1. run' = run /\ lock' = lock /\ command' = command
    BY <1>11 DEF archiveVars
  <2>2. Typed'
    BY <2>1, SameRecords DEF ArchiveInv, Typed
  <2>3. Alone' /\ Owns' /\ RunningIsAlive'
    BY <2>1, SameRecords DEF ArchiveInv, Alone, Owns, RunningIsAlive
  <2>4. QED BY <2>1, <2>2, <2>3, SameRecords DEF ArchiveInv
<1>12. QED
  BY <1>1, <1>2, <1>3, <1>4, <1>5, <1>6, <1>8, <1>9, <1>10, <1>11 DEF ArchiveNext

\* What has ended stays as it is: a transaction changes a running run or adds one.
LEMMA EndedStays ==
    ArchiveInv /\ [ArchiveNext]_archiveVars =>
      [\A i \in DOMAIN run :
         /\ i \in DOMAIN run'
         /\ run[i].status # "running" => run'[i] = run[i]]_archiveVars
<1> SUFFICES ASSUME ArchiveInv, ArchiveNext
             PROVE  \A i \in DOMAIN run :
                      /\ i \in DOMAIN run'
                      /\ run[i].status # "running" => run'[i] = run[i]
  OBVIOUS
<1>1. ASSUME NEW i \in Running, NEW status \in EndedStatus, run' = Finished(i, status)
      PROVE  \A j \in DOMAIN run :
               j \in DOMAIN run' /\ (run[j].status # "running" => run'[j] = run[j])
  BY <1>1, FinishedKeeps DEF Running
<1>2. CASE \E c \in Command : RecoverOne(c)
  <2>1. "interrupted" \in EndedStatus
    BY DEF EndedStatus
  <2>2. QED BY <1>1, <1>2, <2>1 DEF RecoverOne
<1>3. CASE \E c \in Command : FinishRun(c)
  <2>1. PICK c \in Command : FinishRun(c)
    BY <1>3
  <2>2. command[c].pc = "evaluated"
    BY <2>1 DEF FinishRun
  <2>3. command[c] \in [pc : {"evaluated"}, version : Version, run : DOMAIN run,
                        status : {"completed", "failed", "canceled"}]
    BY <2>2, Inside DEF Place
  <2>4. command[c].run \in Running /\ command[c].status \in EndedStatus
    BY <2>2, <2>3 DEF ArchiveInv, Owns, Running, EndedStatus
  <2>5. QED BY <1>1, <2>1, <2>4 DEF FinishRun
<1>4. ASSUME NEW self, self \notin DOMAIN run, NEW record,
             run' = [i \in DOMAIN run \cup {self} |-> IF i # self THEN run[i] ELSE record]
      PROVE  \A i \in DOMAIN run : i \in DOMAIN run' /\ run'[i] = run[i]
  BY <1>4
<1>5. Cardinality(DOMAIN run) + 1 \notin DOMAIN run
  BY NextNumber DEF ArchiveInv, Typed, Numbered
<1>6. CASE \E c \in Command : StartDevelopment(c)
  BY <1>5, <1>6 DEF StartDevelopment, Begin, NextRun
<1>7. CASE \E c \in Command : StartHoldout(c)
  BY <1>5, <1>7 DEF StartHoldout, Begin, NextRun
<1>8. CASE run' = run
  BY <1>8
<1>9. QED
  BY <1>2, <1>3, <1>6, <1>7, <1>8
  DEF ArchiveNext, OpenArchive, EndRecovery, EvaluateRun, LeaveArchive, CommandDies

-----------------------------------------------------------------------------
\* The invariant holds throughout.
LEMMA ArchiveHolds == ArchiveSpec => []ArchiveInv
BY ArchiveStart, ArchiveStep, PTL DEF ArchiveSpec

\* Records, lock and commands are what the code takes them for.
THEOREM ArchiveTyped == ArchiveSpec => []ArchiveTypeOK
<1>1. ArchiveInv => ArchiveTypeOK
  BY TypedIsTyped DEF ArchiveInv
<1>2. QED BY <1>1, ArchiveHolds, PTL

\* Of the holdouts of one snapshot only the first counts as unseen, whoever
\* began the others and however they ended.  (Start, HoldoutConsumed)
THEOREM FirstHoldoutOnlyHolds == ArchiveSpec => []FirstHoldoutOnly
<1>1. ArchiveInv => FirstHoldoutOnly
  BY DEF ArchiveInv
<1>2. QED BY <1>1, ArchiveHolds, PTL

\* Whoever is at work has the lock, and no other run stands as running.
\* (recoverInterrupted)
THEOREM RunningIsAliveHolds == ArchiveSpec => []RunningIsAlive
<1>1. ArchiveInv => RunningIsAlive
  BY DEF ArchiveInv
<1>2. QED BY <1>1, ArchiveHolds, PTL

\* Every run is compared with a development run on its snapshot that is its own
\* baseline, over any chain of children.  (BaselineFor)
THEOREM BaselineIsRootHolds == ArchiveSpec => []BaselineIsRoot
<1>1. ArchiveInv => BaselineIsRoot
  BY DEF ArchiveInv
<1>2. QED BY <1>1, ArchiveHolds, PTL

\* No step changes or removes a run that has ended.  (Finish)
THEOREM EndedIsFinalHolds == ArchiveSpec => EndedIsFinal
BY EndedStays, ArchiveHolds, PTL DEF ArchiveSpec, EndedIsFinal

-----------------------------------------------------------------------------
(***************************************************************************)
(* RollingEvaluation, for any trading days, codes, prices and windows.     *)
(*                                                                         *)
(* What was judged is of dates that are done (Behind), so the observations *)
(* of the next date are new and count once for each code. A date is only   *)
(* scored when every window has its days, which are the last ones before   *)
(* it.                                                                     *)
(***************************************************************************)

\* The observation a sample gives, whoever predicts it.
SampleOf(c, d, actual) ==
    [date |-> d, code |-> c, at |-> 1, inputClose |-> 1,
     high |-> 1, low |-> 0 - 1, halfRange |-> 1, labels |-> ReturnOf(actual)]
Observed(c, d, actual, p) ==
    [date |-> d, code |-> c, at |-> 1, inputClose |-> 1, actual |-> ReturnOf(actual), predicted |-> p,
     last |-> naiveLastPrediction(SampleOf(c, d, actual)),
     range |-> naiveRangePrediction(SampleOf(c, d, actual))]

E1 == <<"E1", 0>>
E1Filtered == <<"E1-filtered", 0>>
B0Filtered == <<"B0-filtered", 0>>

\* What was judged is of dates that are done.
Behind == \A n \in Name : \A s \in evidence[n] : s.of.date \in ValidationDates \ todo

Counted ==
    /\ filter.total \in Nat /\ filter.retained \in Nat
    /\ \A n \in Name : IsFiniteSet(evidence[n])

RollTyped ==
    /\ todo \subseteq ValidationDates
    /\ evidence = [n \in Name |-> evidence[n]]

RollInv == RollTyped /\ Behind /\ Counted /\ FairComparison

\* A prediction of a return, by a model or a naive one, can be scored.
LEMMA Scorable ==
    /\ \A m \in Int : targetMetricsFinite(ReturnOf(m))
    /\ \A c, d, a : LET s == SampleOf(c, d, a) IN
          targetMetricsFinite(naiveLastPrediction(s)) /\ targetMetricsFinite(naiveRangePrediction(s))
<1>1. \A m \in Int : m # NaN
  BY MetricsAssumption
<1>2. 1 # NaN /\ 0 # NaN /\ 0 - 1 # NaN
  BY <1>1
<1>3. \A m \in Int : LET r == ReturnOf(m) IN r.high \in Int /\ r.low \in Int /\ r.close \in Int
  BY DEF ReturnOf
<1>4. \A m \in Int : targetMetricsFinite(ReturnOf(m))
  BY <1>1, <1>3 DEF targetMetricsFinite, Target
<1>5. \A c, d, a : LET s == SampleOf(c, d, a) IN
          targetMetricsFinite(naiveLastPrediction(s)) /\ targetMetricsFinite(naiveRangePrediction(s))
  BY <1>2 DEF targetMetricsFinite, Target, naiveLastPrediction, naiveRangePrediction, SampleOf
<1> QED BY <1>4, <1>5

\* The dates, windows and moves are numbers.
LEMMA RollNumbers ==
    /\ LastDay \in Nat /\ ValidationDates \subseteq 1 .. LastDay
    /\ \A w \in Windows : w \in Nat /\ w > 0
    /\ \A m \in Moves : m \in Nat
    /\ IsFiniteSet(EvalCode)
<1>1. Windows \subseteq Nat \ {0}
  BY RollingAssumption
<1>2. \A w \in Windows : w \in Nat /\ w # 0
  BY <1>1
<1>3. Moves \subseteq Nat
  BY RollingAssumption
<1> QED BY <1>2, <1>3, RollingAssumption

\* A move is a number, up or down.
LEMMA MoveIsInt == \A m \in Move : m \in Int
BY RollNumbers DEF Move

\* What a finite prediction adds is one observation of the sample.
LEMMA AddIs ==
    ASSUME NEW c, NEW d, NEW a \in Int, NEW p, targetMetricsFinite(p)
    PROVE  add(SampleOf(c, d, a), p) = {Observed(c, d, a, p)}
<1>1. targetMetricsFinite(ReturnOf(a))
  BY Scorable
<1>2. SampleOf(c, d, a).inputClose = 1 /\ SampleOf(c, d, a).labels = ReturnOf(a)
  BY DEF SampleOf
<1>3. ~(SampleOf(c, d, a).inputClose <= 0 \/ ~targetMetricsFinite(SampleOf(c, d, a).labels)
          \/ ~targetMetricsFinite(p))
  BY <1>1, <1>2
<1>4. /\ SampleOf(c, d, a).date = d /\ SampleOf(c, d, a).code = c /\ SampleOf(c, d, a).at = 1
  BY DEF SampleOf
<1> QED BY <1>2, <1>3, <1>4 DEF add, Observed

\* The days before a date, and how many.
LEMMA DaysAre ==
    ASSUME NEW d \in TradingDays
    PROVE  /\ d \in Nat /\ d > 0 /\ DaysBefore(d) = 1 .. d - 1
           /\ \A x \in 1 .. d : Cardinality(x .. d - 1) = d - x
<1>1. LastDay \in Nat /\ d \in 1 .. LastDay
  BY RollNumbers DEF TradingDays
<1>2. DaysBefore(d) = 1 .. d - 1
  BY <1>1 DEF DaysBefore, TradingDays
<1>3. ASSUME NEW x \in 1 .. d PROVE Cardinality(x .. d - 1) = d - x
  <2>1. x \in Int /\ d - 1 \in Int
    BY <1>1
  <2>2. Cardinality(x .. d - 1) = IF x > d - 1 THEN 0 ELSE (d - 1) - x + 1
    BY <2>1, FS_Interval
  <2> QED BY <1>1, <2>2
<1> QED BY <1>1, <1>2, <1>3

\* The last n days before a date.
LEMMA LastDays ==
    ASSUME NEW d \in TradingDays, NEW n \in Nat, n > 0, Cardinality(DaysBefore(d)) >= n
    PROVE  lastTradingDays(DaysBefore(d), n) = d - n .. d - 1
<1>1. d \in Nat /\ d > 0
  BY DaysAre
<1>2. DaysBefore(d) = 1 .. d - 1
  BY DaysAre
<1>3. \A x \in 1 .. d : Cardinality(x .. d - 1) = d - x
  BY DaysAre
<1>4. n <= d - 1
  BY <1>1, <1>2, <1>3
<1>5. ASSUME NEW x \in 1 .. d - 1
      PROVE  Cardinality({y \in 1 .. d - 1 : y >= x}) = d - x
  <2>1. {y \in 1 .. d - 1 : y >= x} = x .. d - 1
    BY <1>1, <1>5
  <2>2. Cardinality(x .. d - 1) = d - x
    BY <1>1, <1>3, <1>5
  <2> QED BY <2>1, <2>2
<1>6. lastTradingDays(DaysBefore(d), n) = {x \in 1 .. d - 1 : d - x <= n}
  BY <1>2, <1>5 DEF lastTradingDays
<1> QED BY <1>1, <1>4, <1>6

\* A date that is not passed over has its samples, and so has every session of each window.
LEMMA NoSkip ==
    ASSUME NEW d, NEW sampled
    PROVE  SkipReason(TRUE, sampled, d) = "" =>
             \A w \in Windows : /\ ~(Cardinality(DaysBefore(d)) < w)
                               /\ TrainingDays(Window(w), d) \subseteq sampled
BY DEF SkipReason

\* A window that has enough days is the last ones before the date.
LEMMA WindowDays ==
    ASSUME NEW d \in TradingDays, NEW w \in Windows, ~(Cardinality(DaysBefore(d)) < w)
    PROVE  /\ TrainingDays(Window(w), d) = d - w .. d - 1
           /\ d - w .. d - 1 \subseteq DaysBefore(d)
<1>1. w \in Nat /\ w > 0
  BY RollNumbers
<1>2. d \in Nat /\ d > 0 /\ DaysBefore(d) = 1 .. d - 1
  BY DaysAre
<1>3. 1 \in 1 .. d
  BY <1>2
<1>4. Cardinality(1 .. d - 1) = d - 1
  BY <1>3, DaysAre
<1>5. Cardinality(DaysBefore(d)) >= w
  BY <1>1, <1>2, <1>4
<1>6. lastTradingDays(DaysBefore(d), w) = d - w .. d - 1
  BY <1>1, <1>5, LastDays
<1>7. TrainingDays(Window(w), d) = lastTradingDays(DaysBefore(d), w)
  BY DEF TrainingDays, Window, B0
<1>8. lastTradingDays(DaysBefore(d), w) \subseteq DaysBefore(d)
  BY DEF lastTradingDays
<1> QED BY <1>6, <1>7, <1>8

\* What a date adds for one name: an observation of each code, with the days its model saw.
Scores(codes, d, actual, p, days) ==
    {[of |-> Observed(c, d, actual[c], p[c]), state |-> marketState(closes, d), trained |-> days] : c \in codes}

\* A date adds, for every name, the scores of all codes, or of those that agree.
LEMMA DateAdds ==
    ASSUME NEW d \in ValidationDates, NEW sampled,
           NEW actual \in [EvalCode -> Move], NEW e0 \in [EvalCode -> Move], NEW e1 \in [EvalCode -> Move],
           NEW predicted \in [EvalCode -> [Model -> Move]],
           ScoreDate(d, sampled, actual, predicted, e0, e1)
    PROVE  \E agrees \in SUBSET EvalCode :
             /\ filter' = [total |-> filter.total + Cardinality(EvalCode),
                           retained |-> filter.retained + Cardinality(agrees)]
             /\ evidence' = [n \in Name |-> evidence'[n]]
             /\ \A n \in Name : \E p, days :
                  /\ evidence'[n] = evidence[n] \cup
                       Scores(IF n \in Filtered THEN agrees ELSE EvalCode, d, actual, p, days \cap sampled)
                  /\ n \in Model => days = TrainingDays(n, d)
                  /\ n \notin Model => \/ days = {} \/ days = DaysBefore(d)
                                       \/ days = UNION {TrainingDays(w, d) : w \in WindowModels}
<1> DEFINE agrees == {c \in EvalCode : unanimous(predicted[c])}
           sample(c) == [date |-> d, code |-> c, at |-> 1, inputClose |-> 1,
                         high |-> 1, low |-> 0 - 1, halfRange |-> 1, labels |-> ReturnOf(actual[c])]
           score(c, prediction, days) ==
               {[of |-> x, state |-> marketState(closes, d), trained |-> days \cap sampled] :
                   x \in add(sample(c), prediction)}
           windowDays == UNION {TrainingDays(w, d) : w \in WindowModels}
           scores(n) ==
               CASE n \in Model -> UNION {score(c, ReturnOf(predicted[c][n]), TrainingDays(n, d)) : c \in EvalCode}
                 [] n[1] = "N0-last" -> UNION {score(c, naiveLastPrediction(sample(c)), {}) : c \in EvalCode}
                 [] n[1] = "N0-range" -> UNION {score(c, naiveRangePrediction(sample(c)), {}) : c \in EvalCode}
                 [] n[1] = "E0" -> UNION {score(c, ReturnOf(e0[c]), windowDays) : c \in EvalCode}
                 [] n[1] = "E1" -> UNION {score(c, ReturnOf(e1[c]), windowDays) : c \in EvalCode}
                 [] n[1] = "E1-filtered" -> UNION {score(c, ReturnOf(e1[c]), windowDays) : c \in agrees}
                 [] n[1] = "B0-filtered" -> UNION {score(c, ReturnOf(predicted[c][B0]), DaysBefore(d)) : c \in agrees}
<1>1. /\ evidence' = [n \in Name |-> evidence[n] \cup scores(n)]
      /\ filter' = [total |-> filter.total + Cardinality(EvalCode),
                    retained |-> filter.retained + Cardinality(agrees)]
  BY DEF ScoreDate
<1>2. \A c : sample(c) = SampleOf(c, d, actual[c])
  BY DEF SampleOf
<1>3. ASSUME NEW codes \in SUBSET EvalCode, NEW p, NEW days, \A c \in codes : targetMetricsFinite(p[c])
      PROVE  UNION {score(c, p[c], days) : c \in codes} = Scores(codes, d, actual, p, days \cap sampled)
  <2>1. ASSUME NEW c \in codes
        PROVE  score(c, p[c], days) = {[of |-> Observed(c, d, actual[c], p[c]), state |-> marketState(closes, d),
                                        trained |-> days \cap sampled]}
    <3>1. actual[c] \in Int
      BY MoveIsInt
    <3>2. score(c, p[c], days)
            = {[of |-> x, state |-> marketState(closes, d), trained |-> days \cap sampled] :
                 x \in add(SampleOf(c, d, actual[c]), p[c])}
      BY <1>2
    <3>3. targetMetricsFinite(p[c])
      BY <1>3
    <3>4. {[of |-> x, state |-> marketState(closes, d), trained |-> days \cap sampled] :
             x \in add(SampleOf(c, d, actual[c]), p[c])}
          = {[of |-> Observed(c, d, actual[c], p[c]), state |-> marketState(closes, d),
              trained |-> days \cap sampled]}
      <4>1. add(SampleOf(c, d, actual[c]), p[c]) = {Observed(c, d, actual[c], p[c])}
        BY <3>1, <3>3, AddIs
      <4> QED BY <4>1
    <3> HIDE DEF score
    <3> QED BY <3>2, <3>4
  <2> HIDE DEF score
  <2> QED BY <2>1 DEF Scores
<1>4. \A m \in Move : targetMetricsFinite(ReturnOf(m))
  BY MoveIsInt, Scorable
<1>5. ASSUME NEW n \in Name
      PROVE  \E p, days :
               /\ scores(n) = Scores(IF n \in Filtered THEN agrees ELSE EvalCode, d, actual, p, days \cap sampled)
               /\ n \in Model => days = TrainingDays(n, d)
               /\ n \notin Model => \/ days = {} \/ days = DaysBefore(d) \/ days = windowDays
  <2> HIDE DEF score
  <2>1. ASSUME NEW p, NEW days, \A c \in EvalCode : targetMetricsFinite(p[c]), n \notin Filtered,
               scores(n) = UNION {score(c, p[c], days) : c \in EvalCode},
               n \in Model => days = TrainingDays(n, d),
               n \notin Model => \/ days = {} \/ days = DaysBefore(d) \/ days = windowDays
        PROVE  \E q, seen :
                 /\ scores(n) = Scores(IF n \in Filtered THEN agrees ELSE EvalCode, d, actual, q, seen \cap sampled)
                 /\ n \in Model => seen = TrainingDays(n, d)
                 /\ n \notin Model => \/ seen = {} \/ seen = DaysBefore(d) \/ seen = windowDays
    <3> HIDE DEF scores, windowDays, agrees
    <3>1. UNION {score(c, p[c], days) : c \in EvalCode} = Scores(EvalCode, d, actual, p, days \cap sampled)
      BY <1>3, <2>1
    <3>2. scores(n) = Scores(IF n \in Filtered THEN agrees ELSE EvalCode, d, actual, p, days \cap sampled)
      BY <2>1, <3>1
    <3> QED BY <2>1, <3>2
  <2>10. ASSUME NEW codes \in SUBSET EvalCode, NEW p, NEW days, \A c \in codes : targetMetricsFinite(p[c]),
               codes = IF n \in Filtered THEN agrees ELSE EvalCode,
               scores(n) = UNION {score(c, p[c], days) : c \in codes},
               n \in Model => days = TrainingDays(n, d),
               n \notin Model => \/ days = {} \/ days = DaysBefore(d) \/ days = windowDays
        PROVE  \E q, seen :
                 /\ scores(n) = Scores(IF n \in Filtered THEN agrees ELSE EvalCode, d, actual, q, seen \cap sampled)
                 /\ n \in Model => seen = TrainingDays(n, d)
                 /\ n \notin Model => \/ seen = {} \/ seen = DaysBefore(d) \/ seen = windowDays
    <3> HIDE DEF scores, windowDays
    <3>1. UNION {score(c, p[c], days) : c \in codes} = Scores(codes, d, actual, p, days \cap sampled)
      BY <1>3, <2>10
    <3>2. scores(n) = Scores(IF n \in Filtered THEN agrees ELSE EvalCode, d, actual, p, days \cap sampled)
      BY <2>10, <3>1
    <3> QED BY <2>10, <3>2
  <2>2. /\ n \in Model => n \notin Filtered /\ n[1] \in {"B0", "window"}
        /\ n \notin Model => n[1] \in {"E1-filtered", "B0-filtered", "N0-last", "N0-range", "E0", "E1"}
        /\ n \in Filtered <=> n[1] \in {"E1-filtered", "B0-filtered"}
    BY DEF Name, Model, Filtered, B0, WindowModels, Window
  <2>3. CASE n \in Model
    <3> DEFINE p == [c \in EvalCode |-> ReturnOf(predicted[c][n])]
    <3>1. \A c \in EvalCode : targetMetricsFinite(p[c])
      BY <1>4, <2>3
    <3>2. scores(n) = UNION {score(c, p[c], TrainingDays(n, d)) : c \in EvalCode}
      BY <2>2, <2>3
    <3> HIDE DEF p, scores
    <3> QED BY <2>1, <2>2, <2>3, <3>1, <3>2
  <2>4. CASE n[1] = "N0-last"
    <3> DEFINE p == [c \in EvalCode |-> naiveLastPrediction(sample(c))]
    <3>1. \A c \in EvalCode : targetMetricsFinite(p[c])
      BY <1>2, Scorable
    <3>2. scores(n) = UNION {score(c, p[c], {}) : c \in EvalCode}
      BY <2>2, <2>4
    <3>3. n \notin Model /\ n \notin Filtered
      BY <2>2, <2>4
    <3> HIDE DEF p, scores, windowDays, agrees
    <3> QED BY <2>1, <3>1, <3>2, <3>3
  <2>5. CASE n[1] = "N0-range"
    <3> DEFINE p == [c \in EvalCode |-> naiveRangePrediction(sample(c))]
    <3>1. \A c \in EvalCode : targetMetricsFinite(p[c])
      BY <1>2, Scorable
    <3>2. scores(n) = UNION {score(c, p[c], {}) : c \in EvalCode}
      BY <2>2, <2>5
    <3>3. n \notin Model /\ n \notin Filtered
      BY <2>2, <2>5
    <3> HIDE DEF p, scores, windowDays, agrees
    <3> QED BY <2>1, <3>1, <3>2, <3>3
  <2>6. CASE n[1] = "E0"
    <3> DEFINE p == [c \in EvalCode |-> ReturnOf(e0[c])]
    <3>1. \A c \in EvalCode : targetMetricsFinite(p[c])
      BY <1>4
    <3>2. scores(n) = UNION {score(c, p[c], windowDays) : c \in EvalCode}
      BY <2>2, <2>6
    <3>3. n \notin Model /\ n \notin Filtered
      BY <2>2, <2>6
    <3> HIDE DEF p, scores, windowDays, agrees
    <3> QED BY <2>1, <3>1, <3>2, <3>3
  <2>7. CASE n[1] = "E1"
    <3> DEFINE p == [c \in EvalCode |-> ReturnOf(e1[c])]
    <3>1. \A c \in EvalCode : targetMetricsFinite(p[c])
      BY <1>4
    <3>2. scores(n) = UNION {score(c, p[c], windowDays) : c \in EvalCode}
      BY <2>2, <2>7
    <3>3. n \notin Model /\ n \notin Filtered
      BY <2>2, <2>7
    <3> HIDE DEF p, scores, windowDays, agrees
    <3> QED BY <2>1, <3>1, <3>2, <3>3
  <2>8. CASE n[1] = "E1-filtered"
    <3> DEFINE p == [c \in EvalCode |-> ReturnOf(e1[c])]
    <3>1. \A c \in agrees : targetMetricsFinite(p[c])
      BY <1>4
    <3>2. scores(n) = UNION {score(c, p[c], windowDays) : c \in agrees}
      BY <2>2, <2>8
    <3>3. n \notin Model /\ n \in Filtered
      BY <2>2, <2>8
    <3>4. agrees \in SUBSET EvalCode
      OBVIOUS
    <3> HIDE DEF p, scores, windowDays, agrees
    <3>5. agrees = IF n \in Filtered THEN agrees ELSE EvalCode
      BY <3>3
    <3> QED BY <2>10, <3>1, <3>2, <3>3, <3>4, <3>5
  <2>9. CASE n[1] = "B0-filtered"
    <3> DEFINE p == [c \in EvalCode |-> ReturnOf(predicted[c][B0])]
    <3>1. \A c \in agrees : targetMetricsFinite(p[c])
      BY <1>4 DEF Model
    <3>2. scores(n) = UNION {score(c, p[c], DaysBefore(d)) : c \in agrees}
      BY <2>2, <2>9
    <3>3. n \notin Model /\ n \in Filtered
      BY <2>2, <2>9
    <3>4. agrees \in SUBSET EvalCode
      OBVIOUS
    <3> HIDE DEF p, scores, windowDays, agrees
    <3>5. agrees = IF n \in Filtered THEN agrees ELSE EvalCode
      BY <3>3
    <3> QED BY <2>10, <3>1, <3>2, <3>3, <3>4, <3>5
  <2> QED BY <2>2, <2>3, <2>4, <2>5, <2>6, <2>7, <2>8, <2>9
<1> HIDE DEF scores
<1>6. \A n \in Name : evidence'[n] = evidence[n] \cup scores(n)
  BY <1>1
<1>7. evidence' = [n \in Name |-> evidence'[n]]
  BY <1>1
<1>8. agrees \in SUBSET EvalCode
  OBVIOUS
<1> HIDE DEF agrees, windowDays
<1>9. \A n \in Name : \E p, days :
                  /\ evidence'[n] = evidence[n] \cup
                       Scores(IF n \in Filtered THEN agrees ELSE EvalCode, d, actual, p, days \cap sampled)
                  /\ n \in Model => days = TrainingDays(n, d)
                  /\ n \notin Model => \/ days = {} \/ days = DaysBefore(d) \/ days = windowDays
  BY <1>5, <1>6
<1> QED BY <1>1, <1>7, <1>8, <1>9 DEF windowDays

\* A set with one element of each of a finite set is as large.
LEMMA OneOfEach ==
    ASSUME NEW A, IsFiniteSet(A), NEW B, NEW f \in [A -> B], \A b \in B : \E a \in A : f[a] = b,
           \A a, b \in A : f[a] = f[b] => a = b
    PROVE  IsFiniteSet(B) /\ Cardinality(B) = Cardinality(A)
<1>1. f \in Surjection(A, B)
  BY Fun_IsSurj
<1>2. f \in Injection(A, B)
  BY Fun_IsInj
<1>3. f \in Bijection(A, B)
  BY <1>1, <1>2, Fun_IsBij
<1>4. ExistsBijection(A, B)
  BY <1>3 DEF ExistsBijection
<1> QED BY <1>4, FS_Bijection

\* There is one observation of each code.
LEMMA ScoresCount ==
    ASSUME NEW codes, IsFiniteSet(codes), NEW d, NEW actual, NEW p, NEW days
    PROVE  /\ IsFiniteSet(Scores(codes, d, actual, p, days))
           /\ Cardinality(Scores(codes, d, actual, p, days)) = Cardinality(codes)
<1> DEFINE f == [c \in codes |-> [of |-> Observed(c, d, actual[c], p[c]), state |-> marketState(closes, d),
                                  trained |-> days]]
           S == Scores(codes, d, actual, p, days)
<1>1. f \in [codes -> S] /\ \A s \in S : \E c \in codes : f[c] = s
  BY DEF Scores
<1>2. \A c \in codes : f[c].of.code = c
  BY DEF Observed
<1> HIDE DEF f, S
<1>3. \A b, c \in codes : f[b] = f[c] => b = c
  BY <1>2
<1> QED BY <1>1, <1>3, OneOfEach DEF S

\* The bars it judges are those of the codes.
LEMMA ScoresJudge ==
    ASSUME NEW codes, NEW d, NEW actual, NEW p, NEW days
    PROVE  /\ JudgedBars(Scores(codes, d, actual, p, days))
                = {[date |-> d, code |-> c, at |-> 1, actual |-> ReturnOf(actual[c])] : c \in codes}
           /\ \A s \in Scores(codes, d, actual, p, days) : s.of.date = d /\ s.trained = days
<1>1. \A c : LET o == Observed(c, d, actual[c], p[c])
             IN  o.date = d /\ o.code = c /\ o.at = 1 /\ o.actual = ReturnOf(actual[c])
  BY DEF Observed
<1>2. Observations(Scores(codes, d, actual, p, days)) = {Observed(c, d, actual[c], p[c]) : c \in codes}
  <2>1. \A c : [of |-> Observed(c, d, actual[c], p[c]), state |-> marketState(closes, d),
               trained |-> days].of = Observed(c, d, actual[c], p[c])
    OBVIOUS
  <2> SUFFICES ASSUME NEW o
               PROVE  (\E s \in Scores(codes, d, actual, p, days) : o = s.of)
                      <=> \E c \in codes : o = Observed(c, d, actual[c], p[c])
    BY DEF Observations
  <2> QED BY <2>1 DEF Scores
<1>3. JudgedBars(Scores(codes, d, actual, p, days))
        = {[date |-> d, code |-> c, at |-> 1, actual |-> ReturnOf(actual[c])] : c \in codes}
  <2> SUFFICES ASSUME NEW o
               PROVE  o \in {[date |-> x.date, code |-> x.code, at |-> x.at, actual |-> x.actual] :
                                x \in {Observed(c, d, actual[c], p[c]) : c \in codes}}
                      <=> o \in {[date |-> d, code |-> c, at |-> 1, actual |-> ReturnOf(actual[c])] : c \in codes}
    BY <1>2 DEF JudgedBars
  <2> QED BY <1>1
<1>4. \A s \in Scores(codes, d, actual, p, days) : s.of.date = d /\ s.trained = days
  BY <1>1 DEF Scores
<1> QED BY <1>3, <1>4

LEMMA JudgedTogether ==
    \A S, T : JudgedBars(S \cup T) = JudgedBars(S) \cup JudgedBars(T)
BY DEF JudgedBars, Observations

\* Nothing has been judged.
LEMMA RollInitInv == RollInit => RollInv
<1> SUFFICES ASSUME RollInit PROVE RollInv
  OBVIOUS
<1>1. \A n \in Name : evidence[n] = {}
  BY DEF RollInit, Nobody
<1>2. evidence = [n \in Name |-> evidence[n]]
  BY DEF RollInit, Nobody
<1>3. {E1, E1Filtered, B0Filtered} \subseteq Name
  BY DEF Name, E1, E1Filtered, B0Filtered, Filtered
<1>4. CommonBars
  BY <1>1, <1>3, FS_EmptySet DEF CommonBars, JudgedBars, Observations, RollInit, E1, E1Filtered, B0Filtered
<1>5. TrainedBefore /\ Behind
  BY <1>1 DEF TrainedBefore, Behind
<1>6. OverallIsOverall
  BY DEF OverallIsOverall, RollInit
<1>7. Counted /\ RollTyped
  BY <1>1, <1>2, FS_EmptySet DEF Counted, RollTyped, RollInit
<1> QED BY <1>4, <1>5, <1>6, <1>7 DEF RollInv, FairComparison

\* A date that is passed over is done, and adds nothing.
LEMMA SkipDateInv ==
    ASSUME RollInv, NEW d \in ValidationDates, NEW sampled, NEW available, SkipDate(d, available, sampled)
    PROVE  RollInv'
<1>1. /\ todo' = todo \ {d} /\ evidence' = evidence /\ filter' = filter /\ report' = NaN
  BY DEF SkipDate
<1>2. CommonBars' /\ TrainedBefore'
  BY <1>1 DEF RollInv, FairComparison, CommonBars, TrainedBefore, JudgedBars, Observations
<1>3. OverallIsOverall'
  BY <1>1 DEF OverallIsOverall
<1>4. RollTyped' /\ Behind' /\ Counted'
  BY <1>1 DEF RollInv, RollTyped, Behind, Counted
<1> QED BY <1>2, <1>3, <1>4 DEF RollInv, FairComparison

\* A date that is scored adds an observation of each of its codes to every window, with
\* the same baselines, and to the filtered ones of the codes that are kept.
LEMMA ScoreDateInv ==
    ASSUME RollInv, NEW d \in ValidationDates, NEW sampled,
           NEW actual \in [EvalCode -> Move], NEW e0 \in [EvalCode -> Move], NEW e1 \in [EvalCode -> Move],
           NEW predicted \in [EvalCode -> [Model -> Move]],
           ScoreDate(d, sampled, actual, predicted, e0, e1)
    PROVE  RollInv'
<1>1. /\ todo' = todo \ {d} /\ d \in todo /\ report' = NaN /\ SkipReason(TRUE, sampled, d) = ""
  BY DEF ScoreDate
<1>2. PICK agrees \in SUBSET EvalCode :
        /\ filter' = [total |-> filter.total + Cardinality(EvalCode),
                      retained |-> filter.retained + Cardinality(agrees)]
        /\ evidence' = [n \in Name |-> evidence'[n]]
        /\ \A n \in Name : \E p, days :
             /\ evidence'[n] = evidence[n] \cup
                  Scores(IF n \in Filtered THEN agrees ELSE EvalCode, d, actual, p, days \cap sampled)
             /\ n \in Model => days = TrainingDays(n, d)
             /\ n \notin Model => \/ days = {} \/ days = DaysBefore(d)
                                  \/ days = UNION {TrainingDays(w, d) : w \in WindowModels}
  BY DateAdds
<1> DEFINE barsOf(codes) == {[date |-> d, code |-> c, at |-> 1, actual |-> ReturnOf(actual[c])] : c \in codes}
           codesOf(n) == IF n \in Filtered THEN agrees ELSE EvalCode
<1>3. {E1, E1Filtered, B0Filtered} \subseteq Name /\ E1 \notin Filtered
      /\ E1Filtered \in Filtered /\ B0Filtered \in Filtered
  BY DEF Name, E1, E1Filtered, B0Filtered, Filtered
<1>4. IsFiniteSet(EvalCode) /\ IsFiniteSet(agrees)
  BY RollNumbers, FS_Subset
<1>5. \A n \in Name : JudgedBars(evidence'[n]) = JudgedBars(evidence[n]) \cup barsOf(codesOf(n))
  <2> SUFFICES ASSUME NEW n \in Name
               PROVE  JudgedBars(evidence'[n]) = JudgedBars(evidence[n]) \cup barsOf(codesOf(n))
    OBVIOUS
  <2>1. PICK p, days : evidence'[n] = evidence[n] \cup Scores(codesOf(n), d, actual, p, days \cap sampled)
    BY <1>2
  <2>2. JudgedBars(Scores(codesOf(n), d, actual, p, days \cap sampled)) = barsOf(codesOf(n))
    BY ScoresJudge
  <2> QED BY <2>1, <2>2, JudgedTogether
<1>6. \A n \in Name : /\ IsFiniteSet(evidence'[n])
                      /\ Cardinality(evidence'[n]) = Cardinality(evidence[n]) + Cardinality(codesOf(n))
  <2> SUFFICES ASSUME NEW n \in Name
               PROVE  /\ IsFiniteSet(evidence'[n])
                      /\ Cardinality(evidence'[n]) = Cardinality(evidence[n]) + Cardinality(codesOf(n))
    OBVIOUS
  <2>1. PICK p, days : evidence'[n] = evidence[n] \cup Scores(codesOf(n), d, actual, p, days \cap sampled)
    BY <1>2
  <2> DEFINE new == Scores(codesOf(n), d, actual, p, days \cap sampled)
  <2>2. \A s \in new : s.of.date = d
    BY ScoresJudge
  <2>3. \A s \in evidence[n] : s.of.date # d
    BY <1>1 DEF RollInv, Behind
  <2>4. evidence[n] \cap new = {}
    <3> HIDE DEF new
    <3> QED BY <2>2, <2>3
  <2>5. IsFiniteSet(codesOf(n))
    BY <1>4
  <2>6. IsFiniteSet(new) /\ Cardinality(new) = Cardinality(codesOf(n))
    BY <2>5, ScoresCount
  <2>7. IsFiniteSet(evidence[n])
    BY DEF RollInv, Counted
  <2> HIDE DEF new, codesOf
  <2>8. /\ IsFiniteSet(evidence[n] \cup new)
        /\ Cardinality(evidence[n] \cup new)
             = Cardinality(evidence[n]) + Cardinality(new) - Cardinality(evidence[n] \cap new)
    BY <2>6, <2>7, FS_Union
  <2>9. Cardinality(evidence[n] \cap new) = 0
    BY <2>4, FS_EmptySet
  <2>10. Cardinality(evidence[n]) \in Nat /\ Cardinality(new) \in Nat
    BY <2>6, <2>7, FS_CardinalityType
  <2> QED BY <2>1, <2>6, <2>8, <2>9, <2>10 DEF new
<1>7. CommonBars'
  <2>1. \A n, m \in Name \ Filtered : JudgedBars(evidence'[n]) = JudgedBars(evidence'[m])
    BY <1>5 DEF RollInv, FairComparison, CommonBars
  <2>2. JudgedBars(evidence'[E1Filtered]) = JudgedBars(evidence'[B0Filtered])
    BY <1>3, <1>5 DEF RollInv, FairComparison, CommonBars, E1Filtered, B0Filtered
  <2>3. JudgedBars(evidence'[E1Filtered]) \subseteq JudgedBars(evidence'[E1])
    <3>1. barsOf(codesOf(E1Filtered)) \subseteq barsOf(codesOf(E1))
      BY <1>3
    <3>2. JudgedBars(evidence[E1Filtered]) \subseteq JudgedBars(evidence[E1])
      BY DEF RollInv, FairComparison, CommonBars, E1Filtered, E1
    <3> HIDE DEF barsOf, codesOf
    <3> QED BY <1>3, <1>5, <3>1, <3>2
  <2>4. /\ Cardinality(evidence[E1]) = filter.total
        /\ Cardinality(evidence[E1Filtered]) = filter.retained
    BY DEF RollInv, FairComparison, CommonBars, E1Filtered, E1
  <2>5. /\ Cardinality(evidence'[E1]) = filter'.total
        /\ Cardinality(evidence'[E1Filtered]) = filter'.retained
    BY <1>2, <1>3, <1>6, <2>4
  <2> QED BY <2>1, <2>2, <2>3, <2>5 DEF CommonBars, JudgedBars, Observations, E1, E1Filtered, B0Filtered
<1>8. TrainedBefore'
  <2>0. d \in TradingDays
    BY RollNumbers DEF TradingDays
  <2>1. \A w \in Windows : /\ TrainingDays(Window(w), d) = d - w .. d - 1
                           /\ d - w .. d - 1 \subseteq DaysBefore(d)
                           /\ TrainingDays(Window(w), d) \subseteq sampled
    BY <1>1, <2>0, NoSkip, WindowDays
  <2>2. \A x \in DaysBefore(d) : x < d
    BY DEF DaysBefore
  <2>3. TrainingDays(B0, d) = DaysBefore(d)
    BY DEF TrainingDays
  <2>4. \A w \in Windows : Window(w)[2] = w /\ Window(w) # B0
    BY DEF Window, B0
  <2> SUFFICES ASSUME NEW n \in Name, NEW s \in evidence'[n]
               PROVE  /\ \A x \in s.trained : x < s.of.date
                      /\ n \in WindowModels => s.trained = s.of.date - n[2] .. s.of.date - 1
                      /\ n = B0 => \A w \in Windows : s.of.date - w .. s.of.date - 1 \subseteq s.trained
    BY DEF TrainedBefore
  <2>5. CASE s \in evidence[n]
    BY <2>5 DEF RollInv, FairComparison, TrainedBefore
  <2>6. CASE s \notin evidence[n]
    <3>1. PICK p, days :
             /\ evidence'[n] = evidence[n] \cup Scores(codesOf(n), d, actual, p, days \cap sampled)
             /\ n \in Model => days = TrainingDays(n, d)
             /\ n \notin Model => \/ days = {} \/ days = DaysBefore(d)
                                  \/ days = UNION {TrainingDays(w, d) : w \in WindowModels}
      BY <1>2
    <3> HIDE DEF codesOf
    <3>2. s.of.date = d /\ s.trained = days \cap sampled
      BY <2>6, <3>1, ScoresJudge
    <3>3. \A m \in WindowModels : \E w \in Windows : m = Window(w)
      BY DEF WindowModels
    <3>4. days \subseteq DaysBefore(d)
      <4>1. CASE n \in Model
        BY <2>1, <2>3, <3>1, <3>3, <4>1 DEF Model
      <4>2. CASE n \notin Model
        <5>1. UNION {TrainingDays(w, d) : w \in WindowModels} \subseteq DaysBefore(d)
          <6> SUFFICES ASSUME NEW m \in WindowModels PROVE TrainingDays(m, d) \subseteq DaysBefore(d)
            OBVIOUS
          <6>1. PICK w \in Windows : m = Window(w)
            BY <3>3
          <6> QED BY <2>1, <6>1
        <5> QED BY <3>1, <4>2, <5>1
      <4> QED BY <4>1, <4>2
    <3>5. CASE n \in WindowModels
      <4>1. PICK w \in Windows : n = Window(w)
        BY <3>3, <3>5
      <4>2. days = d - w .. d - 1 /\ days \subseteq sampled
        BY <2>1, <3>1, <3>5, <4>1 DEF Model
      <4>3. s.trained = d - n[2] .. d - 1
        BY <2>4, <3>2, <4>1, <4>2
      <4>4. n # B0
        BY <2>4, <4>1
      <4> QED BY <2>2, <3>2, <3>4, <4>3, <4>4
    <3>6. CASE n = B0
      <4>1. days = DaysBefore(d)
        BY <2>3, <3>1, <3>6 DEF Model
      <4>2. n \notin WindowModels
        BY <2>4, <3>3, <3>6
      <4>3. \A w \in Windows : d - w .. d - 1 \subseteq days \cap sampled
        BY <2>1, <4>1
      <4> QED BY <2>2, <3>2, <3>4, <4>2, <4>3
    <3>7. CASE n \notin WindowModels /\ n # B0
      BY <2>2, <3>2, <3>4, <3>7
    <3> QED BY <3>5, <3>6, <3>7
  <2> QED BY <2>5, <2>6
<1>9. Behind'
  <2> SUFFICES ASSUME NEW n \in Name, NEW s \in evidence'[n] PROVE s.of.date \in ValidationDates \ todo'
    BY DEF Behind
  <2>1. PICK p, days : evidence'[n] = evidence[n] \cup Scores(codesOf(n), d, actual, p, days \cap sampled)
    BY <1>2
  <2>2. \A t \in Scores(codesOf(n), d, actual, p, days \cap sampled) : t.of.date = d
    BY ScoresJudge
  <2> HIDE DEF codesOf
  <2> QED BY <1>1, <2>1, <2>2 DEF RollInv, Behind
<1>10. OverallIsOverall'
  BY <1>1 DEF OverallIsOverall
<1>11. Counted'
  <2>1. Cardinality(EvalCode) \in Nat /\ Cardinality(agrees) \in Nat
    BY <1>4, FS_CardinalityType
  <2> QED BY <1>2, <1>6, <2>1 DEF RollInv, Counted
<1>12. RollTyped'
  BY <1>1, <1>2 DEF RollInv, RollTyped
<1> QED BY <1>7, <1>8, <1>9, <1>10, <1>11, <1>12 DEF RollInv, FairComparison

\* A record is of all it was made of, and of its slice or of a class alone.
LEMMA OfRecords ==
    ASSUME NEW subject, NEW slice, NEW scored
    PROVE  \A r \in directionRecords(subject, slice, scored) :
             /\ r.key.subject = subject /\ r.of = Observations(scored)
             /\ r.key.slice = slice \/ \E c \in {"up", "down"} : r.key.slice = {<<"class", c>>}
BY DEF directionRecords, baseRecord

\* The record of a class has a namesake in the batch without market states, if there is one.
LEMMA Namesake ==
    ASSUME NEW subject, NEW slice, NEW scored, NEW others
    PROVE  \A r \in directionRecords(subject, slice, scored) : r.key.slice # slice =>
             \E q \in directionRecords(subject, {}, others) : q.key = r.key
<1> SUFFICES ASSUME NEW r \in directionRecords(subject, slice, scored), r.key.slice # slice
             PROVE  \E q \in directionRecords(subject, {}, others) : q.key = r.key
  OBVIOUS
<1>1. PICK a \in Aggregation, c \in {"up", "down"} :
           r = baseRecord("recall", subject, a, {<<"class", c>>}, Observations(scored))
  BY DEF directionRecords, baseRecord
<1> DEFINE q == baseRecord("recall", subject, a, {<<"class", c>>}, Observations(others))
<1>2. q \in directionRecords(subject, {}, others)
  BY DEF directionRecords
<1>3. q.key = r.key
  BY <1>1 DEF baseRecord
<1> QED BY <1>2, <1>3

\* A class is no market state.
LEMMA SliceIs ==
    /\ \A c, s : {<<"class", c>>} # {<<"regime", s>>} /\ <<"regime", s>> \notin {<<"class", c>>}
    /\ \A s, t : <<"regime", t>> \in {<<"regime", s>>} => t = s
<1>1. \A c, s : <<"class", c>> # <<"regime", s>>
  <2> SUFFICES ASSUME NEW c, NEW s, <<"class", c>> = <<"regime", s>> PROVE FALSE
    OBVIOUS
  <2>1. <<"class", c>>[1] = "class" /\ <<"regime", s>>[1] = "regime"
    OBVIOUS
  <2> QED BY <2>1
<1>2. \A s, t : <<"regime", t>> = <<"regime", s>> => t = s
  OBVIOUS
<1> QED BY <1>1, <1>2

\* The report is of what was judged.
LEMMA WriteReportInv == RollInv /\ WriteReport => RollInv'
<1> SUFFICES ASSUME RollInv, WriteReport PROVE RollInv'
  OBVIOUS
<1>1. UNCHANGED <<closes, todo, skipped, evidence, filter>>
  BY DEF WriteReport
<1>2. RollTyped' /\ Behind' /\ Counted' /\ CommonBars' /\ TrainedBefore'
  BY <1>1 DEF RollInv, FairComparison, RollTyped, Behind, Counted, CommonBars, TrainedBefore,
              JudgedBars, Observations
<1> DEFINE strategies == Name \ WindowModels
           states == {t \in State : \E m \in strategies : InState(evidence[m], t) # {}}
           first == UNION {directionRecords(n, {}, evidence[n]) : n \in {m \in Name : evidence[m] # {}}}
           second == UNION {directionRecords(n, {<<"regime", s>>}, InState(evidence[n], s)) :
                               n \in strategies, s \in states}
           Overall(r) ==
             LET scored == evidence[r.key.subject] slice == r.key.slice IN
             IF \E t \in State : <<"regime", t>> \in slice
             THEN \A t \in State : <<"regime", t>> \in slice => r.of = Observations(InState(scored, t))
             ELSE r.of = Observations(scored)
<1>3. builtRecords = <<first, second>>
  BY DEF builtRecords
<1>4. \A r \in UniqueRecords(builtRecords) :
        r \in first \/ (r \in second /\ \A q \in first : q.key # r.key)
  <2> HIDE DEF first, second
  <2> SUFFICES ASSUME NEW i \in {1, 2}, NEW r \in builtRecords[i],
                      r.key \notin UNION {{q.key : q \in builtRecords[j]} : j \in 1 .. i - 1}
               PROVE  r \in first \/ (r \in second /\ \A q \in first : q.key # r.key)
    <3>1. DOMAIN builtRecords = {1, 2}
      BY <1>3
    <3> QED BY <3>1 DEF UniqueRecords
  <2>1. CASE i = 1
    BY <1>3, <2>1
  <2>2. CASE i = 2
    <3>1. 1 \in 1 .. i - 1
      BY <2>2
    <3>2. \A q \in builtRecords[1] : q.key # r.key
      BY <3>1
    <3> QED BY <1>3, <2>2, <3>2
  <2> QED BY <2>1, <2>2
<1>5. ASSUME NEW r \in first PROVE Overall(r)
  <2>1. PICK n \in Name : r \in directionRecords(n, {}, evidence[n])
    BY <1>5
  <2>2. /\ r.key.subject = n /\ r.of = Observations(evidence[n])
        /\ r.key.slice = {} \/ \E c \in {"up", "down"} : r.key.slice = {<<"class", c>>}
    BY <2>1, OfRecords
  <2>3. \A t : <<"regime", t>> \notin r.key.slice
    BY <2>2, SliceIs
  <2> QED BY <2>2, <2>3
<1>6. ASSUME NEW r \in second, \A q \in first : q.key # r.key PROVE Overall(r)
  <2>1. PICK n \in strategies, s \in states :
          r \in directionRecords(n, {<<"regime", s>>}, InState(evidence[n], s))
    BY <1>6
  <2>2. r.key.subject = n /\ r.of = Observations(InState(evidence[n], s)) /\ n \in Name /\ s \in State
    BY <2>1, OfRecords
  <2>3. CASE r.key.slice = {<<"regime", s>>}
    BY <2>2, <2>3, SliceIs
  <2>4. CASE r.key.slice # {<<"regime", s>>}
    <3>1. \A t : <<"regime", t>> \notin r.key.slice
      <4>1. \E c \in {"up", "down"} : r.key.slice = {<<"class", c>>}
        BY <2>1, <2>4, OfRecords
      <4> QED BY <4>1, SliceIs
    <3>2. evidence[n] = {}
      <4> SUFFICES ASSUME evidence[n] # {} PROVE FALSE
        OBVIOUS
      <4>1. PICK q \in directionRecords(n, {}, evidence[n]) : q.key = r.key
        BY <2>1, <2>4, Namesake
      <4>2. q \in first
        BY <2>2, <4>1
      <4> QED BY <1>6, <4>1, <4>2
    <3>3. r.of = Observations(evidence[n])
      BY <2>2, <3>2 DEF InState
    <3> QED BY <2>2, <3>1, <3>3
  <2> QED BY <2>3, <2>4
<1>7. OverallIsOverall'
  <2> SUFFICES ASSUME NEW r \in report'.records PROVE Overall(r)
    BY <1>1 DEF OverallIsOverall, InState, Observations
  <2>1. CASE report'.records = {}
    BY <2>1
  <2>2. CASE report'.records = UniqueRecords(builtRecords)
    <3> HIDE DEF first, second, Overall
    <3> QED BY <1>4, <1>5, <1>6, <2>2
  <2>3. report'.records = {} \/ report'.records = UniqueRecords(builtRecords)
    BY DEF WriteReport
  <2> QED BY <2>1, <2>2, <2>3
<1> QED BY <1>2, <1>7 DEF RollInv, FairComparison

\* What the strategies are compared by is fair, for any trading days, dates, codes and
\* windows, whatever is predicted and however the days without data fall.
\* (EvaluateRollingWindows)
THEOREM FairComparisonHolds == RollSpec => []FairComparison
<1>1. RollInv /\ [RollNext]_rollVars => RollInv'
  <2> SUFFICES ASSUME RollInv, [RollNext]_rollVars PROVE RollInv'
    OBVIOUS
  <2>1. CASE WriteReport
    BY <2>1, WriteReportInv
  <2>2. CASE \E d \in ValidationDates : \E sampled \in SUBSET (DaysBefore(d) \cup {d}), available \in BOOLEAN :
               SkipDate(d, available, sampled)
    BY <2>2, SkipDateInv
  <2>3. CASE \E d \in ValidationDates : \E sampled \in SUBSET (DaysBefore(d) \cup {d}) :
             \E actual, e0, e1 \in [EvalCode -> Move], predicted \in [EvalCode -> [Model -> Move]] :
               ScoreDate(d, sampled, actual, predicted, e0, e1)
    BY <2>3, ScoreDateInv
  <2>4. CASE UNCHANGED rollVars
    BY <2>4 DEF rollVars, RollInv, FairComparison, RollTyped, Behind, Counted, CommonBars,
                TrainedBefore, OverallIsOverall, JudgedBars, Observations, InState
  <2> QED BY <2>1, <2>2, <2>3, <2>4 DEF RollNext
<1>2. RollInv => FairComparison
  BY DEF RollInv
<1> QED BY <1>1, <1>2, RollInitInv, PTL DEF RollSpec

-----------------------------------------------------------------------------
(***************************************************************************)
(* ForecastFit, for any pool, sectors, windows and history of the archive. *)
(*                                                                         *)
(* A snapshot of a morning is the one that the archive would still give,   *)
(* loaded as it was then (FitInv). What is loaded later begins later. The  *)
(* end of a stock's bars is the same if enough of them are loaded; the bar *)
(* before a session is loaded if one is; and should a sector's returns     *)
(* differ in a session, a stock has only begun to be loaded there, whose   *)
(* bars since make as many sessions in which they agree. FlattenSeq is a   *)
(* recursion over the sessions: what it gives is shown by the least        *)
(* session at which it would not.                                          *)
(***************************************************************************)

\* A set of natural numbers has a least one.
LEMMA LeastIn ==
    ASSUME NEW X \in SUBSET Nat, X # {}
    PROVE  \E x \in X : \A y \in X : x <= y
<1>1. IsWellFoundedOn(OpToRel(<, Nat), Nat)
  BY NatLessThanWellFounded
<1>2. PICK x \in X : \A y \in X : ~(<<y, x>> \in OpToRel(<, Nat))
  BY <1>1, WFMin
<1>3. \A y \in X : x <= y
  <2> SUFFICES ASSUME NEW y \in X, ~(x <= y) PROVE FALSE
    OBVIOUS
  <2>1. x \in Nat /\ y \in Nat /\ y < x
    OBVIOUS
  <2>2. <<y, x>> \in OpToRel(<, Nat)
    BY <2>1, Zenon DEF OpToRel
  <2> QED BY <1>2, <2>2
<1> QED BY <1>3

\* A set of numbers with a bound has a greatest one.
LEMMA GreatestOf ==
    ASSUME NEW X \in SUBSET Int, X # {}, NEW n \in Int, \A x \in X : x <= n
    PROVE  \E x \in X : \A y \in X : y <= x
<1> DEFINE gaps == {n - x : x \in X}
<1>1. gaps \in SUBSET Nat /\ gaps # {}
  <2>1. \A x \in X : x \in Int /\ n - x \in Nat
    OBVIOUS
  <2> QED BY <2>1
<1>2. PICK g \in gaps : \A h \in gaps : g <= h
  BY <1>1, LeastIn
<1>3. PICK x \in X : g = n - x
  BY <1>2
<1>4. \A y \in X : y <= x
  <2> SUFFICES ASSUME NEW y \in X PROVE y <= x
    OBVIOUS
  <2>1. x \in Int /\ y \in Int /\ g <= n - y
    BY <1>2
  <2> QED BY <1>3, <2>1
<1> QED BY <1>4

-----------------------------------------------------------------------------
\* A sequence of whatever it holds.
IsList(list) == list \in Seq({list[i] : i \in DOMAIN list})

\* Appending leaves what is there, and adds the element.
LEMMA ListAppend ==
    ASSUME NEW list, IsList(list), NEW e
    PROVE  /\ Len(list) \in Nat /\ IsList(Append(list, e)) /\ Len(Append(list, e)) = Len(list) + 1
           /\ \A i \in 1 .. Len(list) : Append(list, e)[i] = list[i]
           /\ Append(list, e)[Len(list) + 1] = e
<1> DEFINE S == {list[i] : i \in DOMAIN list} \cup {e}
           more == Append(list, e)
           n == Len(list)
<1>1. list \in Seq(S) /\ e \in S
  BY DEF IsList
<1> HIDE DEF S
<1>2. /\ n \in Nat /\ more \in Seq(S) /\ Len(more) = n + 1 /\ DOMAIN more = 1 .. n + 1
      /\ \A i \in 1 .. n : more[i] = list[i]
      /\ more[n + 1] = e
  BY <1>1
<1>3. more = [i \in 1 .. n + 1 |-> more[i]]
  <2> HIDE DEF more, n
  <2>1. more \in [1 .. Len(more) -> S]
    BY <1>2, LenProperties
  <2> QED BY <1>2, <2>1
<1>4. more \in Seq({more[i] : i \in DOMAIN more})
  <2> HIDE DEF more, n
  <2>1. more \in [1 .. n + 1 -> {more[i] : i \in DOMAIN more}] /\ n + 1 \in Nat
    BY <1>2, <1>3
  <2> QED BY <2>1
<1> QED BY <1>2, <1>4 DEF IsList

-----------------------------------------------------------------------------
\* Where the brackets are does not matter.
LEMMA Regroup ==
    ASSUME NEW S, NEW x \in Seq(S), NEW y \in Seq(S), NEW z \in Seq(S)
    PROVE  (x \o y) \o z = x \o (y \o z)
BY ConcatAssociative

\* f is what is flattened up to each element of s.
Flattens(f, s, S) ==
    /\ f \in [0 .. Len(s) -> Seq(S)]
    /\ f[0] = << >>
    /\ \A i \in 1 .. Len(s) : f[i] = f[i - 1] \o s[i]

FlatChain(f, s, m) == f = [i \in 1 .. m |-> IF i = 1 THEN s[i] ELSE f[i - 1] \o s[i]]

\* The recursion of FlattenSeq has a solution, whatever is flattened.
LEMMA FlatChains ==
    ASSUME NEW s
    PROVE  \A m \in Nat : \E f : FlatChain(f, s, m)
<1> DEFINE Undefined == {m \in Nat : ~\E f : FlatChain(f, s, m)}
<1> SUFFICES ASSUME Undefined # {} PROVE FALSE
  OBVIOUS
<1>1. PICK m \in Undefined : \A k \in Undefined : m <= k
  BY LeastIn
<1>2. m # 0
  <2> DEFINE f == [i \in 1 .. 0 |-> IF i = 1 THEN s[i] ELSE << >>]
  <2>1. f = [i \in 1 .. 0 |-> IF i = 1 THEN s[i] ELSE f[i - 1] \o s[i]]
    OBVIOUS
  <2> HIDE DEF f
  <2>2. FlatChain(f, s, 0)
    BY <2>1 DEF FlatChain
  <2> QED BY <2>2
<1>3. m \in Nat /\ m - 1 \in Nat /\ m - 1 \notin Undefined
  BY <1>1, <1>2
<1>4. PICK g : FlatChain(g, s, m - 1)
  BY <1>3
<1> DEFINE f == [i \in 1 .. m |-> IF i = m THEN IF m = 1 THEN s[m] ELSE g[m - 1] \o s[m] ELSE g[i]]
<1>5. \A i \in 1 .. m - 1 : g[i] = IF i = 1 THEN s[i] ELSE g[i - 1] \o s[i]
  BY <1>4 DEF FlatChain
<1>6. \A i \in 1 .. m - 1 : f[i] = g[i]
  <2>1. \A i \in 1 .. m - 1 : i \in 1 .. m /\ i # m
    BY <1>3
  <2> QED BY <2>1
<1>7. ASSUME NEW i \in 1 .. m PROVE f[i] = IF i = 1 THEN s[i] ELSE f[i - 1] \o s[i]
  <2>1. CASE i = m
    <3>1. f[m] = IF m = 1 THEN s[m] ELSE g[m - 1] \o s[m]
      BY <1>2, <1>3
    <3>2. m # 1 => f[m - 1] = g[m - 1]
      BY <1>3, <1>6
    <3> HIDE DEF f
    <3> QED BY <2>1, <3>1, <3>2
  <2>2. CASE i # m
    <3>1. i \in 1 .. m - 1 /\ (i # 1 => i - 1 \in 1 .. m - 1)
      BY <1>3, <2>2
    <3> HIDE DEF f
    <3> QED BY <1>5, <1>6, <3>1
  <2> QED BY <2>1, <2>2
<1>8. f = [i \in 1 .. m |-> f[i]]
  OBVIOUS
<1>9. FlatChain(f, s, m)
  <2> HIDE DEF f
  <2> QED BY <1>7, <1>8 DEF FlatChain
<1> QED BY <1>9

\* FlattenSeq is the last of the steps, each of which adds its element.
LEMMA FlattenIs ==
    ASSUME NEW S, NEW s \in Seq(Seq(S))
    PROVE  \E f : Flattens(f, s, S) /\ FlattenSeq(s) = f[Len(s)]
<1> DEFINE n == Len(s)
           g == CHOOSE h : FlatChain(h, s, n)
           f == [i \in 0 .. n |-> IF i = 0 THEN << >> ELSE g[i]]
<1>0. n \in Nat
  OBVIOUS
<1>1. \E h : FlatChain(h, s, n)
  BY <1>0, FlatChains
<1>2. FlatChain(g, s, n)
  BY <1>1
<1>3. \A i \in 1 .. n : g[i] = IF i = 1 THEN s[i] ELSE g[i - 1] \o s[i]
  BY <1>2 DEF FlatChain
<1>4. n # 0 => FlattenSeq(s) = g[n]
  BY DEF FlattenSeq, FlatChain
<1>5. n = 0 => FlattenSeq(s) = << >>
  BY DEF FlattenSeq
<1> HIDE DEF g
<1>6. f[0] = << >> /\ (\A i \in 1 .. n : f[i] = g[i]) /\ f = [i \in 0 .. n |-> f[i]]
  BY <1>0
<1>7. \A i \in 1 .. n : s[i] \in Seq(S)
  OBVIOUS
<1> HIDE DEF f
<1>8. \A i \in 1 .. n : f[i] = f[i - 1] \o s[i]
  <2> SUFFICES ASSUME NEW i \in 1 .. n PROVE f[i] = f[i - 1] \o s[i]
    OBVIOUS
  <2>1. CASE i = 1
    <3>1. f[1] = s[1] /\ f[0] = << >> /\ s[1] \in Seq(S)
      BY <1>3, <1>6, <1>7, <2>1
    <3>2. << >> \o s[1] = s[1]
      BY <3>1, ConcatEmptySeq
    <3>3. i - 1 = 0
      BY <2>1
    <3>4. f[i] = s[1] /\ f[i - 1] = << >> /\ s[i] = s[1]
      BY <2>1, <3>1, <3>3
    <3> QED BY <3>2, <3>4
  <2>2. CASE i # 1
    <3>1. i - 1 \in 1 .. n
      BY <1>0, <2>2
    <3> QED BY <1>3, <1>6, <2>2, <3>1
  <2> QED BY <2>1, <2>2
<1> DEFINE Bad == {i \in 0 .. n : f[i] \notin Seq(S)}
<1>9. Bad = {}
  <2> SUFFICES ASSUME Bad # {} PROVE FALSE
    OBVIOUS
  <2>1. Bad \in SUBSET Nat
    OBVIOUS
  <2>2. PICK i \in Bad : \A j \in Bad : i <= j
    <3> HIDE DEF Bad
    <3> QED BY <2>1, LeastIn
  <2>3. i # 0
    <3>1. << >> \in Seq(S)
      OBVIOUS
    <3> QED BY <1>6, <2>2, <3>1
  <2>4. i \in 1 .. n /\ i - 1 \in 0 .. n /\ i - 1 \notin Bad
    BY <1>0, <2>2, <2>3
  <2>5. f[i - 1] \in Seq(S) /\ s[i] \in Seq(S)
    BY <1>7, <2>4
  <2>6. f[i - 1] \o s[i] \in Seq(S)
    BY <2>5, ConcatProperties
  <2> QED BY <1>8, <2>2, <2>4, <2>6
<1>10. f \in [0 .. n -> Seq(S)]
  BY <1>6, <1>9
<1>11. FlattenSeq(s) = f[n]
  <2>1. n \in 1 .. n \/ n = 0
    BY <1>0
  <2> HIDE DEF n
  <2> QED BY <1>4, <1>5, <1>6, <2>1
<1> QED BY <1>6, <1>8, <1>10, <1>11 DEF Flattens

\* Where there was nothing nothing is.
LEMMA FlattensNothing ==
    ASSUME NEW S, NEW s \in Seq(Seq(S)), NEW f, Flattens(f, s, S),
           NEW m \in 0 .. Len(s), \A i \in 1 .. m : s[i] = << >>
    PROVE  f[m] = << >>
<1> DEFINE Bad == {i \in 0 .. m : f[i] # << >>}
<1>1. Bad = {}
  <2> SUFFICES ASSUME Bad # {} PROVE FALSE
    OBVIOUS
  <2>1. Bad \in SUBSET Nat
    OBVIOUS
  <2>2. PICK i \in Bad : \A j \in Bad : i <= j
    <3> HIDE DEF Bad
    <3> QED BY <2>1, LeastIn
  <2>3. i # 0
    BY <2>2 DEF Flattens
  <2>4. i \in 1 .. m /\ i \in 1 .. Len(s) /\ i - 1 \in 0 .. m /\ i - 1 \notin Bad
    BY <2>2, <2>3
  <2>5. f[i] = << >> \o << >>
    BY <2>4 DEF Flattens
  <2>6. << >> \o << >> = << >>
    BY ConcatEmptySeq, EmptySeq
  <2> QED BY <2>2, <2>5, <2>6
<1> QED BY <1>1

\* What is flattened depends on what has been seen.
LEMMA FlattensAlike ==
    ASSUME NEW S, NEW s \in Seq(Seq(S)), NEW t \in Seq(Seq(S)), NEW f, NEW g,
           Flattens(f, s, S), Flattens(g, t, S),
           NEW m \in 0 .. Len(s), m <= Len(t), \A i \in 1 .. m : s[i] = t[i]
    PROVE  f[m] = g[m]
<1> DEFINE Bad == {i \in 0 .. m : f[i] # g[i]}
<1>1. Bad = {}
  <2> SUFFICES ASSUME Bad # {} PROVE FALSE
    OBVIOUS
  <2>1. Bad \in SUBSET Nat
    OBVIOUS
  <2>2. PICK i \in Bad : \A j \in Bad : i <= j
    <3> HIDE DEF Bad
    <3> QED BY <2>1, LeastIn
  <2>3. i # 0
    BY <2>2 DEF Flattens
  <2>4. i \in 1 .. m /\ i \in 1 .. Len(s) /\ i \in 1 .. Len(t) /\ i - 1 \in 0 .. m /\ i - 1 \notin Bad
    BY <2>2, <2>3
  <2>5. f[i] = f[i - 1] \o s[i] /\ g[i] = g[i - 1] \o t[i] /\ s[i] = t[i] /\ f[i - 1] = g[i - 1]
    BY <2>4 DEF Flattens
  <2> QED BY <2>2, <2>5
<1> QED BY <1>1

\* What is flattened only grows.
LEMMA FlattensGrows ==
    ASSUME NEW S, NEW s \in Seq(Seq(S)), NEW f, Flattens(f, s, S), NEW m \in 0 .. Len(s)
    PROVE  Len(f[m]) <= Len(f[Len(s)])
<1> DEFINE n == Len(s)
           Bad == {i \in m .. n : ~(Len(f[m]) <= Len(f[i]))}
<1>0. n \in Nat /\ m \in Nat /\ m <= n /\ f[m] \in Seq(S) /\ Len(f[m]) \in Nat
  BY DEF Flattens
<1>1. Bad = {}
  <2> SUFFICES ASSUME Bad # {} PROVE FALSE
    OBVIOUS
  <2>1. Bad \in SUBSET Nat
    BY <1>0
  <2>2. PICK i \in Bad : \A j \in Bad : i <= j
    <3> HIDE DEF Bad
    <3> QED BY <2>1, LeastIn
  <2>3. i # m
    BY <1>0, <2>2
  <2>4. i \in 1 .. n /\ i - 1 \in m .. n /\ i - 1 \in 0 .. n /\ i - 1 \notin Bad
    <3>1. i \in m .. n /\ i # m
      BY <2>2, <2>3
    <3>2. i \in 1 .. n /\ i - 1 \in m .. n /\ i - 1 \in 0 .. n /\ ~(i <= i - 1)
      <4> HIDE DEF n
      <4> QED BY <1>0, <3>1
    <3>3. i - 1 \notin Bad
      <4> HIDE DEF Bad
      <4> QED BY <2>2, <3>2
    <3> QED BY <3>2, <3>3
  <2>5. f[i] = f[i - 1] \o s[i] /\ f[i - 1] \in Seq(S) /\ s[i] \in Seq(S)
    <3>1. s[i] \in Seq(S)
      BY <2>4, ElementOfSeq
    <3> QED BY <2>4, <3>1 DEF Flattens
  <2>6. Len(f[i]) = Len(f[i - 1]) + Len(s[i]) /\ Len(f[i - 1]) \in Nat /\ Len(s[i]) \in Nat
    BY <2>5, ConcatProperties
  <2>7. Len(f[m]) <= Len(f[i - 1])
    BY <2>4
  <2> DEFINE a == Len(f[m])
             b == Len(f[i - 1])
             e == Len(f[i])
             d == Len(s[i])
  <2>8. a \in Nat /\ b \in Nat /\ d \in Nat /\ e = b + d /\ a <= b /\ ~(a <= e)
    BY <1>0, <2>2, <2>6, <2>7
  <2> HIDE DEF a, b, d, e
  <2> QED BY <2>8
<1>2. n \in m .. n
  <2> HIDE DEF n
  <2> QED BY <1>0
<1> QED BY <1>1, <1>2

SameAfter(s, t, k) == \A i \in k + 1 .. Len(s) : s[i] = t[i]
KeepsUp(s, h, b, k) ==
    \A i \in k + 1 .. Len(s) : /\ h[i - 1] # <<>> => Len(s[i]) >= Len(b[i])
                              /\ Len(b[i]) <= 1

\* Two that are the same from some element on end with the same, which is as long as
\* a third one less one element, if it has an element of each other one of that.
Shared(S, s, t, f, g, B, b, h, k) ==
    /\ s \in Seq(Seq(S)) /\ t \in Seq(Seq(S)) /\ Flattens(f, s, S) /\ Flattens(g, t, S)
    /\ b \in Seq(Seq(B)) /\ Flattens(h, b, B)
    /\ Len(t) = Len(s) /\ Len(b) = Len(s) /\ k \in 0 .. Len(s)
    /\ SameAfter(s, t, k) /\ KeepsUp(s, h, b, k) /\ Len(h[k]) <= 1

SharedEnd(S, f, g, h, k, n) ==
    \E rest \in Seq(S) : f[n] = f[k] \o rest /\ g[n] = g[k] \o rest /\ Len(rest) >= Len(h[n]) - 1

LEMMA FlattensShare ==
    ASSUME NEW S, NEW s, NEW t, NEW f, NEW g, NEW B, NEW b, NEW h, NEW k, Shared(S, s, t, f, g, B, b, h, k)
    PROVE  SharedEnd(S, f, g, h, k, Len(s))
<1> s \in Seq(Seq(S)) /\ t \in Seq(Seq(S)) /\ Flattens(f, s, S) /\ Flattens(g, t, S)
  BY DEF Shared
<1> b \in Seq(Seq(B)) /\ Flattens(h, b, B)
  BY DEF Shared
<1> Len(t) = Len(s) /\ Len(b) = Len(s) /\ k \in 0 .. Len(s)
  BY DEF Shared
<1> SameAfter(s, t, k) /\ KeepsUp(s, h, b, k) /\ Len(h[k]) <= 1
  BY DEF Shared
<1> DEFINE n == Len(s)
           Shares(i) == \E rest \in Seq(S) : f[i] = f[k] \o rest /\ g[i] = g[k] \o rest /\ Len(rest) >= Len(h[i]) - 1
           Bad == {i \in k .. n : ~Shares(i)}
<1>0. n \in Nat /\ k \in Nat /\ k <= n
  OBVIOUS
<1>1. Bad = {}
  <2> SUFFICES ASSUME Bad # {} PROVE FALSE
    OBVIOUS
  <2>1. Bad \in SUBSET Nat
    BY <1>0
  <2>2. PICK i \in Bad : \A j \in Bad : i <= j
    <3> HIDE DEF Bad
    <3> QED BY <2>1, LeastIn
  <2>3. i # k
    <3> SUFFICES Shares(k)
      BY <2>2
    <3>1. f[k] \in Seq(S) /\ g[k] \in Seq(S) /\ h[k] \in Seq(B)
      BY DEF Flattens
    <3>2. f[k] \o << >> = f[k] /\ g[k] \o << >> = g[k]
      BY <3>1, ConcatEmptySeq
    <3>3. << >> \in Seq(S) /\ Len(<< >>) = 0 /\ Len(h[k]) \in Nat
      BY <3>1, EmptySeq
    <3>4. 0 >= Len(h[k]) - 1
      BY <3>3
    <3>5. /\ f[k] = f[k] \o << >> /\ g[k] = g[k] \o << >> /\ Len(<< >>) >= Len(h[k]) - 1
      BY <3>2, <3>3, <3>4
    <3> QED BY <3>3, <3>5, Zenon
  <2>4. /\ i \in k + 1 .. n /\ i \in 1 .. n /\ i - 1 \in k .. n /\ i - 1 \in 0 .. n /\ i - 1 \notin Bad
        /\ i \in 0 .. n /\ s[i] = t[i] /\ Len(b[i]) <= 1
        /\ h[i - 1] # <<>> => Len(s[i]) >= Len(b[i])
    <3>1. i \in k .. n /\ i # k
      BY <2>2, <2>3
    <3>2. i \in k + 1 .. n /\ i \in 1 .. n /\ i - 1 \in k .. n /\ i - 1 \in 0 .. n /\ i \in 0 .. n /\ ~(i <= i - 1)
      <4> HIDE DEF n
      <4> QED BY <1>0, <3>1
    <3>3. i - 1 \notin Bad
      <4> HIDE DEF Bad
      <4> QED BY <2>2, <3>2
    <3>4. /\ s[i] = t[i] /\ Len(b[i]) <= 1
          /\ h[i - 1] # <<>> => Len(s[i]) >= Len(b[i])
      <4>1. i \in k + 1 .. Len(s)
        BY <3>2
      <4>2. s[i] = t[i]
        BY <4>1, Zenon DEF SameAfter
      <4>3. Len(b[i]) <= 1 /\ (h[i - 1] # <<>> => Len(s[i]) >= Len(b[i]))
        BY <4>1 DEF KeepsUp
      <4> QED BY <4>2, <4>3
    <3> QED BY <3>2, <3>3, <3>4
  <2>5. PICK rest \in Seq(S) : f[i - 1] = f[k] \o rest /\ g[i - 1] = g[k] \o rest /\ Len(rest) >= Len(h[i - 1]) - 1
    BY <2>4
  <2>6. /\ f[i] = f[i - 1] \o s[i] /\ g[i] = g[i - 1] \o s[i] /\ h[i] = h[i - 1] \o b[i]
        /\ s[i] \in Seq(S) /\ f[k] \in Seq(S) /\ g[k] \in Seq(S) /\ h[i - 1] \in Seq(B) /\ b[i] \in Seq(B)
    <3>1. s[i] \in Seq(S) /\ b[i] \in Seq(B)
      BY <2>4, ElementOfSeq
    <3>2. f[k] \in Seq(S) /\ g[k] \in Seq(S)
      BY <1>0 DEF Flattens
    <3>3. h[i - 1] \in Seq(B)
      BY <2>4 DEF Flattens
    <3>4. f[i] = f[i - 1] \o s[i]
      BY <2>4 DEF Flattens
    <3>5. g[i] = g[i - 1] \o t[i] /\ t[i] = s[i]
      BY <2>4 DEF Flattens
    <3>6. h[i] = h[i - 1] \o b[i]
      BY <2>4 DEF Flattens
    <3> QED BY <3>1, <3>2, <3>3, <3>4, <3>5, <3>6
  <2> DEFINE more == rest \o s[i]
  <2>7. more \in Seq(S) /\ Len(more) = Len(rest) + Len(s[i])
    BY <2>6, ConcatProperties
  <2>8. f[i] = f[k] \o more /\ g[i] = g[k] \o more
    <3>1. f[k] \in Seq(S) /\ g[k] \in Seq(S) /\ s[i] \in Seq(S)
      BY <2>6
    <3>2. ASSUME NEW start \in Seq(S), NEW end \in Seq(S)
          PROVE  (start \o rest) \o end = start \o (rest \o end)
      <4>1. rest \in Seq(S)
        BY <2>5
      <4> QED BY ONLY <4>1, Regroup
    <3>3. /\ (f[k] \o rest) \o s[i] = f[k] \o (rest \o s[i])
          /\ (g[k] \o rest) \o s[i] = g[k] \o (rest \o s[i])
      BY <3>1, <3>2
    <3> QED BY <2>5, <2>6, <3>3
  <2>9. Len(h[i]) = Len(h[i - 1]) + Len(b[i])
    BY <2>6, ConcatProperties
  <2>10. Len(rest) \in Nat /\ Len(s[i]) \in Nat /\ Len(h[i - 1]) \in Nat /\ Len(b[i]) \in Nat
    BY <2>6, LenProperties
  <2>11. Len(more) >= Len(h[i]) - 1
    <3> DEFINE lm == Len(more)
               lr == Len(rest)
               ls == Len(s[i])
               lh == Len(h[i - 1])
               lb == Len(b[i])
               ln == Len(h[i])
    <3>0. /\ lm = lr + ls /\ ln = lh + lb /\ lr >= lh - 1 /\ lb <= 1
          /\ lr \in Nat /\ ls \in Nat /\ lh \in Nat /\ lb \in Nat
      BY <2>4, <2>5, <2>7, <2>9, <2>10
    <3>1. h[i - 1] # << >> => ls >= lb
      BY <2>4
    <3>2. h[i - 1] = << >> => lh = 0
      OBVIOUS
    <3> HIDE DEF lm, lr, ls, lh, lb, ln
    <3>3. ls >= lb \/ lh = 0
      BY <3>1, <3>2
    <3>4. lm >= ln - 1
      BY <3>0, <3>3
    <3> QED BY <3>4 DEF lm, ln
  <2>12. Shares(i)
    <3> HIDE DEF more
    <3> QED BY <2>7, <2>8, <2>11
  <2> QED BY <2>2, <2>12
<1>2. Shares(n)
  <2> HIDE DEF n, Shares
  <2>1. n \in k .. n
    BY <1>0
  <2> QED BY <1>1, <2>1
<1> QED BY <1>2 DEF SharedEnd

\* The end of what ends with it.
LEMMA LastOfEnd ==
    ASSUME NEW S, NEW start \in Seq(S), NEW rest \in Seq(S), NEW n \in Nat, n <= Len(rest)
    PROVE  LastOf(start \o rest, n) = LastOf(rest, n)
<1> DEFINE whole == start \o rest
           w == Len(whole)
           r == Len(rest)
<1>1. /\ whole \in Seq(S) /\ w = Len(start) + r /\ Len(start) \in Nat /\ r \in Nat
      /\ \A i \in 1 .. Len(start) + r : whole[i] = IF i <= Len(start) THEN start[i] ELSE rest[i - Len(start)]
  BY ConcatProperties
<1> HIDE DEF whole
<1>2. \A i \in w - n + 1 .. w : i \in 1 .. w /\ whole[i] \in S
  BY <1>1
<1>3. \A i \in r - n + 1 .. r : i \in 1 .. r /\ rest[i] \in S
  BY <1>1
<1>4. /\ LastOf(whole, n) \in Seq(S) /\ Len(LastOf(whole, n)) = n
      /\ \A i \in 1 .. n : LastOf(whole, n)[i] = whole[w - n + i]
  <2>1. w - n + 1 \in Int /\ w \in Int /\ w - (w - n + 1) + 1 = n
    BY <1>1
  <2>2. /\ LastOf(whole, n) \in Seq(S)
        /\ Len(LastOf(whole, n)) = IF w - n + 1 <= w THEN w - (w - n + 1) + 1 ELSE 0
        /\ \A i \in 1 .. w - (w - n + 1) + 1 : LastOf(whole, n)[i] = whole[w - n + 1 + i - 1]
    <3> HIDE DEF w
    <3> QED BY <1>2, <2>1, SubSeqProperties DEF LastOf, w
  <2>3. \A i \in 1 .. n : w - n + 1 + i - 1 = w - n + i
    BY <2>1
  <2>4. w - n + 1 <= w \/ n = 0
    BY <2>1
  <2> HIDE DEF w
  <2> QED BY <2>1, <2>2, <2>3, <2>4
<1>5. /\ LastOf(rest, n) \in Seq(S) /\ Len(LastOf(rest, n)) = n
      /\ \A i \in 1 .. n : LastOf(rest, n)[i] = rest[r - n + i]
  <2>1. r - n + 1 \in Int /\ r \in Int /\ r - (r - n + 1) + 1 = n
    BY <1>1
  <2>2. /\ LastOf(rest, n) \in Seq(S)
        /\ Len(LastOf(rest, n)) = IF r - n + 1 <= r THEN r - (r - n + 1) + 1 ELSE 0
        /\ \A i \in 1 .. r - (r - n + 1) + 1 : LastOf(rest, n)[i] = rest[r - n + 1 + i - 1]
    <3> HIDE DEF r
    <3> QED BY <1>3, <2>1, SubSeqProperties DEF LastOf, r
  <2> QED BY <1>1, <2>1, <2>2
<1>6. \A i \in 1 .. n : whole[w - n + i] = rest[r - n + i]
  <2> SUFFICES ASSUME NEW i \in 1 .. n PROVE whole[w - n + i] = rest[r - n + i]
    OBVIOUS
  <2>1. w - n + i \in 1 .. Len(start) + r /\ ~(w - n + i <= Len(start)) /\ w - n + i - Len(start) = r - n + i
    BY <1>1
  <2> QED BY <1>1, <2>1
<1> QED BY <1>4, <1>5, <1>6, SeqEqual DEF whole

-----------------------------------------------------------------------------
\* The bars of a stock, day by day.
BarsOf(c) == {StoredBar(c, d) : d \in 1 .. Today}
DayBars(c, from, through) ==
    [day \in 1 .. through |-> IF from <= day /\ HasBar(c, day) THEN <<StoredBar(c, day)>> ELSE <<>>]

\* At most one bar a day.
LEMMA DayBarsAre ==
    ASSUME NEW c, NEW from \in Int, NEW n \in Nat
    PROVE  /\ DayBars(c, from, n) \in Seq(Seq(BarsOf(c))) /\ Len(DayBars(c, from, n)) = n
           /\ \A i \in 1 .. n :
                 /\ from <= i /\ HasBar(c, i) => DayBars(c, from, n)[i] = <<StoredBar(c, i)>> /\ Len(DayBars(c, from, n)[i]) = 1
                 /\ ~(from <= i /\ HasBar(c, i)) => DayBars(c, from, n)[i] = <<>> /\ Len(DayBars(c, from, n)[i]) = 0
                 /\ Len(DayBars(c, from, n)[i]) <= 1
<1> DEFINE B == BarsOf(c)
           b == DayBars(c, from, n)
<1>1. \A i \in 1 .. n : HasBar(c, i) => StoredBar(c, i) \in B
  BY DEF HasBar, BarsOf
<1> HIDE DEF B
<1>2. \A i \in 1 .. n : /\ from <= i /\ HasBar(c, i) => b[i] = <<StoredBar(c, i)>>
                        /\ ~(from <= i /\ HasBar(c, i)) => b[i] = <<>>
  BY DEF DayBars
<1>3. \A i \in 1 .. n : /\ b[i] \in Seq(B)
                        /\ from <= i /\ HasBar(c, i) => Len(b[i]) = 1
                        /\ ~(from <= i /\ HasBar(c, i)) => Len(b[i]) = 0
                        /\ Len(b[i]) <= 1
  <2> SUFFICES ASSUME NEW i \in 1 .. n
               PROVE  /\ b[i] \in Seq(B)
                      /\ from <= i /\ HasBar(c, i) => Len(b[i]) = 1
                      /\ ~(from <= i /\ HasBar(c, i)) => Len(b[i]) = 0
                      /\ Len(b[i]) <= 1
    OBVIOUS
  <2> DEFINE x == StoredBar(c, i)
             y == b[i]
  <2>1. CASE from <= i /\ HasBar(c, i)
    <3>1. y = <<x>> /\ x \in B
      BY <1>1, <1>2, <2>1
    <3> HIDE DEF x, y
    <3>2. y \in Seq(B) /\ Len(y) = 1
      BY <3>1
    <3> QED BY <2>1, <3>2 DEF y
  <2>2. CASE ~(from <= i /\ HasBar(c, i))
    <3>1. y = <<>>
      BY <1>2, <2>2
    <3> HIDE DEF y
    <3>2. y \in Seq(B) /\ Len(y) = 0
      BY <3>1
    <3> QED BY <2>2, <3>2 DEF y
  <2> QED BY <2>1, <2>2
<1>4. b = [i \in 1 .. n |-> b[i]]
  BY DEF DayBars
<1> HIDE DEF b
<1>5. b \in Seq(Seq(B)) /\ Len(b) = n
  <2>1. b \in [1 .. n -> Seq(B)]
    BY <1>3, <1>4
  <2> QED BY <2>1
<1> QED BY <1>2, <1>3, <1>5 DEF b, B

\* One where the stock has one, from the first day on.
LEMMA OneBarADay ==
    ASSUME NEW c, NEW from \in Int, NEW n \in Nat, NEW i \in 1 .. n
    PROVE  Len(DayBars(c, from, n)[i]) = IF from <= i /\ HasBar(c, i) THEN 1 ELSE 0
<1>1. CASE from <= i /\ HasBar(c, i)
  BY <1>1, DayBarsAre
<1>2. CASE ~(from <= i /\ HasBar(c, i))
  BY <1>2, DayBarsAre
<1> QED BY <1>1, <1>2

\* The bars through a session are the days flattened.
LEMMA BarsFlatten ==
    ASSUME NEW c, NEW from \in Int, NEW n \in Nat
    PROVE  \E f : Flattens(f, DayBars(c, from, n), BarsOf(c)) /\ BarsThrough(c, from, n) = f[n]
<1>1. DayBars(c, from, n) \in Seq(Seq(BarsOf(c))) /\ Len(DayBars(c, from, n)) = n
  BY DayBarsAre
<1>2. BarsThrough(c, from, n) = FlattenSeq(DayBars(c, from, n))
  BY DEF BarsThrough, DayBars
<1> QED BY <1>1, <1>2, FlattenIs

\* No day's bars come before those of an earlier day.
LEMMA BarsUpTo ==
    ASSUME NEW c, NEW from \in Int, NEW n \in Nat, NEW f,
           Flattens(f, DayBars(c, from, n), BarsOf(c)), NEW m \in 0 .. n
    PROVE  f[m] = BarsThrough(c, from, m) /\ f[m] \in Seq(BarsOf(c))
<1>1. PICK g : Flattens(g, DayBars(c, from, m), BarsOf(c)) /\ BarsThrough(c, from, m) = g[m]
  BY BarsFlatten
<1>2. /\ DayBars(c, from, n) \in Seq(Seq(BarsOf(c))) /\ Len(DayBars(c, from, n)) = n
      /\ DayBars(c, from, m) \in Seq(Seq(BarsOf(c))) /\ Len(DayBars(c, from, m)) = m
  BY DayBarsAre
<1>3. \A i \in 1 .. m : DayBars(c, from, n)[i] = DayBars(c, from, m)[i]
  BY DEF DayBars
<1>4. f[m] = g[m]
  BY <1>1, <1>2, <1>3, FlattensAlike
<1>5. f[m] \in Seq(BarsOf(c))
  BY <1>2 DEF Flattens
<1> QED BY <1>1, <1>4, <1>5

LEMMA BarsGrow ==
    ASSUME NEW c, NEW from \in Int, NEW n \in Nat, NEW m \in 0 .. n
    PROVE  /\ BarsThrough(c, from, n) \in Seq(BarsOf(c)) /\ BarsThrough(c, from, m) \in Seq(BarsOf(c))
           /\ Len(BarsThrough(c, from, m)) <= Len(BarsThrough(c, from, n))
<1>1. PICK f : Flattens(f, DayBars(c, from, n), BarsOf(c)) /\ BarsThrough(c, from, n) = f[n]
  BY BarsFlatten
<1>2. DayBars(c, from, n) \in Seq(Seq(BarsOf(c))) /\ Len(DayBars(c, from, n)) = n
  BY DayBarsAre
<1>3. f[m] = BarsThrough(c, from, m) /\ f[m] \in Seq(BarsOf(c)) /\ f[n] \in Seq(BarsOf(c))
  BY <1>1, BarsUpTo
<1>4. Len(f[m]) <= Len(f[n])
  BY <1>1, <1>2, FlattensGrows
<1> QED BY <1>1, <1>3, <1>4

\* Until there is a bar there is none, and then there is one.
LEMMA FirstBars ==
    ASSUME NEW c, NEW from \in Int, NEW n \in Nat, n # 0, BarsBefore(c, from, n) = {}
    PROVE  Len(BarsThrough(c, from, n)) <= 1 /\ BarsThrough(c, from, n - 1) = <<>>
<1>1. PICK f : Flattens(f, DayBars(c, from, n), BarsOf(c)) /\ BarsThrough(c, from, n) = f[n]
  BY BarsFlatten
<1> DEFINE b == DayBars(c, from, n)
<1>2. b \in Seq(Seq(BarsOf(c))) /\ Len(b) = n /\ Len(b[n]) <= 1
  <2>1. n \in 1 .. n
    OBVIOUS
  <2>2. b \in Seq(Seq(BarsOf(c))) /\ Len(b) = n
    BY DayBarsAre
  <2>3. \A i \in 1 .. n : Len(b[i]) <= 1
    BY DayBarsAre
  <2> QED BY <2>1, <2>2, <2>3
<1>3. \A i \in 1 .. n - 1 : b[i] = <<>>
  <2>1. \A i \in 1 .. n - 1 : i \in 1 .. n /\ ~(from <= i /\ HasBar(c, i))
    BY DEF BarsBefore
  <2> QED BY <2>1, DayBarsAre
<1>4. n - 1 \in 0 .. n
  OBVIOUS
<1>5. f[n - 1] = <<>>
  <2> HIDE DEF b
  <2> QED BY <1>1, <1>2, <1>3, <1>4, FlattensNothing DEF b
<1>6. f[n] = f[n - 1] \o b[n] /\ b[n] \in Seq(BarsOf(c))
  <2> HIDE DEF b
  <2>1. Flattens(f, b, BarsOf(c)) /\ n \in 1 .. Len(b)
    BY <1>1, <1>2 DEF b
  <2> QED BY <1>2, <2>1, ElementOfSeq DEF Flattens
<1> HIDE DEF b
<1>7. f[n] = b[n]
  BY <1>5, <1>6, ConcatEmptySeq
<1>8. BarsThrough(c, from, n - 1) = f[n - 1]
  BY <1>1, <1>4, BarsUpTo
<1> QED BY <1>1, <1>2, <1>5, <1>7, <1>8

\* What is loaded from a later day on is the end of what is loaded.
LEMMA BarsFromLater ==
    ASSUME NEW c, NEW from \in Int, NEW later \in Nat, from <= later, NEW n \in Nat, later # 0, later <= n
    PROVE  \E start \in Seq(BarsOf(c)) : BarsThrough(c, from, n) = start \o BarsThrough(c, later, n)
<1> DEFINE k == later - 1
           S == BarsOf(c)
           s == DayBars(c, from, n)
           t == DayBars(c, later, n)
<1>1. PICK f : Flattens(f, s, S) /\ BarsThrough(c, from, n) = f[n]
  BY BarsFlatten
<1>2. PICK g : Flattens(g, t, S) /\ BarsThrough(c, later, n) = g[n]
  BY BarsFlatten
<1>3. s \in Seq(Seq(S)) /\ Len(s) = n /\ t \in Seq(Seq(S)) /\ Len(t) = n /\ \A i \in 1 .. n : Len(t[i]) <= 1
  <2>1. s \in Seq(Seq(S)) /\ Len(s) = n
    BY DayBarsAre
  <2>2. t \in Seq(Seq(S)) /\ Len(t) = n
    BY DayBarsAre
  <2>3. \A i \in 1 .. n : Len(t[i]) <= 1
    BY OneBarADay
  <2> QED BY <2>1, <2>2, <2>3
<1>4. k \in 0 .. n /\ \A i \in k + 1 .. n : i \in 1 .. n /\ from <= i /\ later <= i
  OBVIOUS
<1>5. \A i \in k + 1 .. n : s[i] = t[i]
  BY <1>4 DEF DayBars
<1>6. \A i \in 1 .. k : t[i] = <<>>
  <2>1. \A i \in 1 .. k : i \in 1 .. n /\ ~(later <= i)
    BY <1>4
  <2>2. \A i \in 1 .. n : ~(later <= i) => t[i] = <<>>
    BY DEF DayBars
  <2> HIDE DEF t
  <2> QED BY <2>1, <2>2
<1> HIDE DEF k, s, t, S
<1>7. g[k] = <<>>
  BY <1>2, <1>3, <1>4, <1>6, FlattensNothing
<1>8. \A i \in k + 1 .. n : Len(s[i]) >= Len(t[i]) /\ Len(t[i]) <= 1
  <2> SUFFICES ASSUME NEW i \in k + 1 .. n PROVE Len(s[i]) >= Len(t[i]) /\ Len(t[i]) <= 1
    OBVIOUS
  <2>1. i \in 1 .. n /\ s[i] = t[i]
    BY <1>4, <1>5
  <2>2. t[i] \in Seq(S)
    BY <1>3, <2>1, ElementOfSeq
  <2>3. Len(t[i]) \in Nat
    BY <2>2
  <2> QED BY <1>3, <2>1, <2>3
<1>9. Len(g[k]) <= 1
  BY <1>7
<1>10. SharedEnd(S, f, g, g, k, n)
  <2>1. Len(s) = Len(t) /\ Len(t) = Len(s) /\ k \in 0 .. Len(s) /\ SameAfter(s, t, k) /\ KeepsUp(s, g, t, k)
    BY <1>3, <1>4, <1>5, <1>8 DEF SameAfter, KeepsUp
  <2>2. Flattens(f, s, S) /\ Flattens(g, t, S) /\ s \in Seq(Seq(S)) /\ t \in Seq(Seq(S))
    BY <1>1, <1>2, <1>3
  <2>3. Shared(S, s, t, f, g, S, t, g, k)
    BY <1>9, <2>1, <2>2 DEF Shared
  <2> QED BY <1>3, <2>3, FlattensShare
<1>11. PICK rest \in Seq(S) : f[n] = f[k] \o rest /\ g[n] = g[k] \o rest
  BY <1>10 DEF SharedEnd
<1>12. g[n] = rest
  BY <1>7, <1>11, ConcatEmptySeq
<1>13. f[k] \in Seq(S)
  BY <1>1, <1>3, <1>4 DEF Flattens
<1> QED BY <1>1, <1>2, <1>11, <1>12, <1>13 DEF S

-----------------------------------------------------------------------------
\* Of c, what is loaded from later on goes back to its first bar, or holds enough
\* bars until the sessions gone over begin.
Loaded(c, later, active) ==
    \/ \A d \in 1 .. later - 1 : ~HasBar(c, d)
    \/ /\ later \in Nat \ {0} /\ active \in Nat \ {0} /\ later <= active
       /\ Len(BarsThrough(c, later, active)) >= StockWindow
       /\ Len(BarsThrough(c, later, active)) >= BaselineWindow
       /\ Len(BarsThrough(c, later, active)) >= SectorWindow + 1

\* That is what Uncut says of each stock.
LEMMA UncutLoaded ==
    ASSUME NEW asof \in Nat, Uncut(asof), NEW c \in Ticker
    PROVE  Loaded(c, FirstLoaded(asof), ActiveFrom(asof))
<1> DEFINE later == FirstLoaded(asof)
           active == ActiveFrom(asof)
<1>0. later \in Int /\ active \in Int /\ later <= active
  BY FitAssumption DEF FirstLoaded, ActiveFrom
<1>1. CASE \A d \in 1 .. later - 1 : ~HasBar(c, d)
  BY <1>1 DEF Loaded
<1>2. CASE ~\A d \in 1 .. later - 1 : ~HasBar(c, d)
  <2>1. later \in Nat \ {0}
    <3> HIDE DEF later
    <3> QED BY <1>0, <1>2
  <2>2. active \in Nat \ {0}
    <3> HIDE DEF later, active
    <3> QED BY <1>0, <2>1
  <2>3. \A n \in {StockWindow, BaselineWindow, SectorWindow + 1} : Len(BarsThrough(c, later, active)) >= n
    BY <1>2 DEF Uncut
  <2> QED BY <1>0, <2>1, <2>2, <2>3 DEF Loaded
<1> QED BY <1>1, <1>2

\* Of the same bars.
LEMMA SameDays ==
    ASSUME NEW c, NEW from \in Int, NEW later \in Int, from <= later, NEW n \in Nat,
           \A d \in 1 .. later - 1 : ~HasBar(c, d)
    PROVE  BarsThrough(c, from, n) = BarsThrough(c, later, n)
<1>1. \A d \in 1 .. n : (from <= d /\ HasBar(c, d)) <=> (later <= d /\ HasBar(c, d))
  OBVIOUS
<1>2. DayBars(c, from, n) = DayBars(c, later, n)
  BY <1>1 DEF DayBars
<1> QED BY <1>2 DEF BarsThrough, DayBars

\* The last bars are the same, whatever was before them.
LEMMA SameEnd ==
    ASSUME NEW S, NEW start \in Seq(S), NEW history \in Seq(S),
           Len(history) >= StockWindow, Len(history) >= BaselineWindow
    PROVE  Recent(start \o history) = Recent(history) /\ StockFeatures(start \o history) = StockFeatures(history)
<1> DEFINE whole == start \o history
           w == Len(whole)
           r == Len(history)
           p == Len(start)
<1>0. StockWindow \in Nat /\ StockWindow >= 2 /\ BaselineWindow \in Nat
  BY FitAssumption
<1>1. /\ whole \in Seq(S) /\ w = p + r /\ p \in Nat /\ r \in Nat
      /\ \A i \in 1 .. p + r : whole[i] = IF i <= p THEN start[i] ELSE history[i - p]
  BY ConcatProperties
<1>2. LastOf(whole, BaselineWindow) = LastOf(history, BaselineWindow) /\ LastOf(whole, StockWindow) = LastOf(history, StockWindow)
  BY <1>0, LastOfEnd
<1>3. p = 0 => whole = history
  <2> SUFFICES ASSUME p = 0 PROVE whole = history
    OBVIOUS
  <2>1. start = <<>>
    BY EmptySeq
  <2> QED BY <2>1, ConcatEmptySeq
<1>4. r = BaselineWindow => LastOf(history, BaselineWindow) = history
  <2> SUFFICES ASSUME r = BaselineWindow PROVE SubSeq(history, r - BaselineWindow + 1, r) = history
    BY DEF LastOf
  <2>1. r - BaselineWindow + 1 = 1
    BY <1>1
  <2>2. SubSeq(history, 1, r) = history
    BY SubSeqFull
  <2> QED BY <2>1, <2>2
<1>5. Recent(whole) = Recent(history)
  <2>1. CASE p = 0
    BY <1>3, <2>1
  <2>2. CASE p # 0
    <3>1. w > BaselineWindow
      <4> HIDE DEF w, p, r
      <4>1. r >= BaselineWindow
        BY DEF r
      <4> QED BY <1>0, <1>1, <2>2, <4>1
    <3>2. r > BaselineWindow \/ r = BaselineWindow
      <4> HIDE DEF r
      <4>1. r >= BaselineWindow
        BY DEF r
      <4> QED BY <1>0, <1>1, <4>1
    <3> HIDE DEF whole
    <3>3. Recent(whole) = LastOf(whole, BaselineWindow)
      BY <3>1 DEF Recent
    <3>4. Recent(history) = LastOf(history, BaselineWindow)
      BY <1>4, <3>2 DEF Recent
    <3> QED BY <1>2, <3>3, <3>4
  <2> QED BY <2>1, <2>2
<1>6. whole[w] = history[r] /\ whole[w - 1] = history[r - 1] /\ ~(w < StockWindow) /\ ~(r < StockWindow)
  <2>0. r >= StockWindow
    OBVIOUS
  <2> HIDE DEF whole, w, r, p
  <2>1. /\ w \in 1 .. p + r /\ w - 1 \in 1 .. p + r /\ ~(w <= p) /\ ~(w - 1 <= p)
        /\ w - p = r /\ w - 1 - p = r - 1 /\ ~(w < StockWindow) /\ ~(r < StockWindow)
    <3>1. w = p + r /\ p \in Nat /\ r \in Nat
      BY <1>1
    <3>2. StockWindow \in Nat /\ StockWindow >= 2
      BY <1>0
    <3> QED BY ONLY <2>0, <3>1, <3>2
  <2>2. whole[w] = history[w - p] /\ whole[w - 1] = history[w - 1 - p]
    BY <1>1, <2>1
  <2> QED BY <2>1, <2>2
<1>7. StockFeatures(whole) = StockFeatures(history)
  <2> HIDE DEF whole
  <2> QED BY <1>2, <1>6 DEF StockFeatures
<1> QED BY <1>5, <1>7

\* The end that the baseline and the features of a stock are of is the same.
LEMMA SameBars ==
    ASSUME NEW c, NEW from \in Int, NEW later \in Int, from <= later, NEW active \in Int,
           NEW n \in Nat, active <= n, Loaded(c, later, active)
    PROVE  /\ Recent(BarsThrough(c, from, n)) = Recent(BarsThrough(c, later, n))
           /\ StockFeatures(BarsThrough(c, from, n)) = StockFeatures(BarsThrough(c, later, n))
<1>1. CASE \A d \in 1 .. later - 1 : ~HasBar(c, d)
  BY <1>1, SameDays
<1>2. CASE ~\A d \in 1 .. later - 1 : ~HasBar(c, d)
  <2>1. /\ later \in Nat \ {0} /\ active \in Nat \ {0} /\ later <= active
        /\ Len(BarsThrough(c, later, active)) >= StockWindow
        /\ Len(BarsThrough(c, later, active)) >= BaselineWindow
    BY <1>2 DEF Loaded
  <2> DEFINE S == BarsOf(c)
             history == BarsThrough(c, later, n)
             a == Len(BarsThrough(c, later, active))
  <2>2. active \in 0 .. n
    BY <2>1
  <2>3. /\ history \in Seq(S) /\ Len(BarsThrough(c, later, active)) <= Len(history) /\ a \in Nat /\ Len(history) \in Nat
    <3>1. /\ history \in Seq(S) /\ BarsThrough(c, later, active) \in Seq(S)
          /\ Len(BarsThrough(c, later, active)) <= Len(history)
      BY <2>1, <2>2, BarsGrow
    <3> QED BY <3>1, LenProperties
  <2>4. Len(history) >= StockWindow /\ Len(history) >= BaselineWindow
    <3>1. StockWindow \in Nat /\ BaselineWindow \in Nat
      BY FitAssumption
    <3> DEFINE l == Len(history)
    <3>2. l \in Nat /\ a \in Nat /\ a >= StockWindow /\ a >= BaselineWindow /\ a <= l
      BY <2>1, <2>3
    <3> HIDE DEF a, l
    <3>3. l >= StockWindow /\ l >= BaselineWindow
      BY <3>1, <3>2
    <3> QED BY <3>3 DEF l
  <2>5. PICK start \in Seq(S) : BarsThrough(c, from, n) = start \o history
    <3>1. later \in Nat /\ later # 0 /\ later <= n
      BY <2>1
    <3> QED BY <3>1, BarsFromLater
  <2> HIDE DEF S, history
  <2>6. Recent(start \o history) = Recent(history) /\ StockFeatures(start \o history) = StockFeatures(history)
    BY <2>3, <2>4, SameEnd
  <2> QED BY <2>5, <2>6 DEF history
<1> QED BY <1>1, <1>2

-----------------------------------------------------------------------------
\* Where what is loaded holds the bar before, the return is the same.
LEMMA SameReturn ==
    ASSUME NEW c, NEW from \in Int, NEW later \in Int, from <= later, NEW d \in Int, BarsBefore(c, later, d) # {}
    PROVE  DailyReturn(c, from, d) = DailyReturn(c, later, d)
<1> DEFINE B == BarsBefore(c, from, d)
           L == BarsBefore(c, later, d)
           Greatest(X) == CHOOSE e \in X : \A o \in X : o <= e
<1>1. /\ B \in SUBSET Int /\ L \in SUBSET Int /\ (\A e \in L : e \in B) /\ (\A e \in B : e <= d)
      /\ (\A e \in L : e <= d) /\ (\A e \in B : e >= later => e \in L) /\ \A e \in L : e >= later
  BY DEF BarsBefore
<1> HIDE DEF B, L
<1>2. L # {} /\ B # {}
  BY <1>1 DEF L
<1>3. /\ Greatest(L) \in L /\ \A o \in L : o <= Greatest(L)
  BY <1>1, <1>2, GreatestOf
<1>4. /\ Greatest(B) \in B /\ \A o \in B : o <= Greatest(B)
  BY <1>1, <1>2, GreatestOf
<1> DEFINE lb == Greatest(B)
           ll == Greatest(L)
<1>5. lb = ll
  <2>0. ll \in L /\ lb \in B /\ (\A o \in L : o <= ll) /\ (\A o \in B : o <= lb)
    BY <1>3, <1>4
  <2> HIDE DEF lb, ll
  <2>1. ll \in Int /\ lb \in Int /\ ll <= lb /\ ll >= later
    BY <1>1, <2>0
  <2>2. lb >= later
    BY <2>1
  <2>3. lb \in L
    BY <1>1, <2>0, <2>2
  <2>4. lb <= ll
    BY <2>0, <2>3
  <2> QED BY <2>1, <2>4
<1> QED BY <1>5 DEF DailyReturn, B, L

KeepsBars(pool, from, later, d) ==
    \A x \in pool : HasBar(x, d) /\ BarsBefore(x, from, d) # {} => BarsBefore(x, later, d) # {}

\* So are the returns of a session where every stock keeps a bar before it.
LEMMA SameReturns ==
    ASSUME NEW pool, NEW from \in Int, NEW later \in Int, from <= later, NEW d \in Int,
           KeepsBars(pool, from, later, d)
    PROVE  ReturnsOn(pool, from, d) = ReturnsOn(pool, later, d)
<1>1. \A x : BarsBefore(x, later, d) # {} => BarsBefore(x, from, d) # {}
  BY DEF BarsBefore
<1>2. {x \in pool : HasBar(x, d) /\ BarsBefore(x, from, d) # {}} = {x \in pool : HasBar(x, d) /\ BarsBefore(x, later, d) # {}}
  BY <1>1 DEF KeepsBars
<1> DEFINE P == {x \in pool : HasBar(x, d) /\ BarsBefore(x, later, d) # {}}
<1>3. \A x \in P : DailyReturn(x, from, d) = DailyReturn(x, later, d)
  BY SameReturn
<1>4. ReturnsOn(pool, from, d) = {[code |-> x, value |-> DailyReturn(x, from, d)] : x \in P}
  BY <1>2 DEF ReturnsOn
<1>5. ReturnsOn(pool, later, d) = {[code |-> x, value |-> DailyReturn(x, later, d)] : x \in P}
  BY DEF ReturnsOn
<1> HIDE DEF P
<1> QED BY <1>3, <1>4, <1>5

\* Since the sessions gone over begin, the bar before is loaded.
LEMMA BarBeforeLoaded ==
    ASSUME NEW c, NEW from \in Int, NEW later \in Int, from <= later, NEW active \in Int,
           NEW d \in Int, active <= d, Loaded(c, later, active), BarsBefore(c, from, d) # {}
    PROVE  BarsBefore(c, later, d) # {}
<1>1. CASE \A e \in 1 .. later - 1 : ~HasBar(c, e)
  <2>1. PICK e \in from .. d - 1 : HasBar(c, e)
    BY DEF BarsBefore
  <2>2. e \in Int /\ 1 <= e
    BY <2>1 DEF HasBar
  <2>3. e >= later
    BY <1>1, <2>1, <2>2
  <2> QED BY <2>1, <2>3 DEF BarsBefore
<1>2. CASE ~\A e \in 1 .. later - 1 : ~HasBar(c, e)
  <2>1. /\ later \in Nat \ {0} /\ active \in Nat \ {0} /\ later <= active
        /\ Len(BarsThrough(c, later, active)) >= StockWindow
    BY <1>2 DEF Loaded
  <2> SUFFICES ASSUME BarsBefore(c, later, d) = {} PROVE FALSE
    OBVIOUS
  <2>2. BarsBefore(c, later, active) = {}
    BY <2>1 DEF BarsBefore
  <2>3. Len(BarsThrough(c, later, active)) <= 1
    BY <2>1, <2>2, FirstBars
  <2>4. Len(BarsThrough(c, later, active)) \in Nat
    <3>1. BarsThrough(c, later, active) \in Seq(BarsOf(c))
      BY <2>1, BarsGrow
    <3> QED BY <3>1, LenProperties
  <2>5. StockWindow \in Nat /\ StockWindow >= 2
    BY FitAssumption
  <2> DEFINE l == Len(BarsThrough(c, later, active))
  <2>6. l \in Nat /\ l <= 1 /\ l >= StockWindow
    BY <2>1, <2>3, <2>4
  <2> HIDE DEF l
  <2> QED BY <2>5, <2>6
<1> QED BY <1>1, <1>2

-----------------------------------------------------------------------------
\* The sector's returns, session by session.
DayReturns(pool, from, through) ==
    [day \in 1 .. through |-> IF ReturnsOn(pool, from, day) = {} THEN <<>> ELSE <<ReturnsOn(pool, from, day)>>]
ReturnsOf(pool, from, later, n) ==
    {ReturnsOn(pool, from, d) : d \in 1 .. n} \cup {ReturnsOn(pool, later, d) : d \in 1 .. n}

\* At most one set of returns a session.
LEMMA DayReturnsAre ==
    ASSUME NEW pool, NEW from, NEW n \in Nat, NEW S, \A d \in 1 .. n : ReturnsOn(pool, from, d) \in S
    PROVE  /\ DayReturns(pool, from, n) \in Seq(Seq(S)) /\ Len(DayReturns(pool, from, n)) = n
           /\ \A d \in 1 .. n : ReturnsOn(pool, from, d) # {} => Len(DayReturns(pool, from, n)[d]) = 1
<1> DEFINE s == DayReturns(pool, from, n)
           R(d) == ReturnsOn(pool, from, d)
<1>1. \A d \in 1 .. n : s[d] = IF R(d) = {} THEN <<>> ELSE <<R(d)>>
  BY DEF DayReturns
<1>2. s = [d \in 1 .. n |-> s[d]]
  BY DEF DayReturns
<1>3. \A d \in 1 .. n : R(d) \in S
  OBVIOUS
<1> HIDE DEF s, R
<1>4. \A d \in 1 .. n : s[d] \in Seq(S) /\ (R(d) # {} => Len(s[d]) = 1)
  <2> SUFFICES ASSUME NEW d \in 1 .. n PROVE s[d] \in Seq(S) /\ (R(d) # {} => Len(s[d]) = 1)
    OBVIOUS
  <2> DEFINE x == R(d)
             y == s[d]
  <2>1. x \in S /\ y = IF x = {} THEN <<>> ELSE <<x>>
    BY <1>1, <1>3
  <2> HIDE DEF x, y
  <2>2. y \in Seq(S) /\ (x # {} => Len(y) = 1)
    BY <2>1
  <2> QED BY <2>2 DEF x, y
<1>5. s \in [1 .. n -> Seq(S)]
  BY <1>2, <1>4
<1>6. s \in Seq(Seq(S)) /\ Len(s) = n
  BY <1>5
<1> QED BY <1>4, <1>6 DEF s, R

\* The sector's returns are the sessions flattened.
LEMMA SectorFlatten ==
    ASSUME NEW pool, NEW from, NEW n \in Nat, NEW S, \A d \in 1 .. n : ReturnsOn(pool, from, d) \in S
    PROVE  \E f : Flattens(f, DayReturns(pool, from, n), S) /\ SectorReturns(pool, from, n) = f[n]
<1>1. DayReturns(pool, from, n) \in Seq(Seq(S)) /\ Len(DayReturns(pool, from, n)) = n
  BY DayReturnsAre
<1>2. SectorReturns(pool, from, n) = FlattenSeq(DayReturns(pool, from, n))
  BY DEF SectorReturns, DayReturns
<1> QED BY <1>1, <1>2, FlattenIs

\* The last sessions that the sector has returns of are the same: should the returns
\* of a session differ, a stock has just begun, and has enough bars since.
LEMMA SameSector ==
    ASSUME NEW pool, NEW from \in Int, NEW later \in Int, from <= later, NEW active \in Int,
           NEW n \in Nat, active <= n, \A x \in pool : Loaded(x, later, active)
    PROVE  \/ SectorReturns(pool, from, n) = SectorReturns(pool, later, n)
           \/ /\ ~(Len(SectorReturns(pool, from, n)) < SectorWindow)
              /\ ~(Len(SectorReturns(pool, later, n)) < SectorWindow)
              /\ LastOf(SectorReturns(pool, from, n), SectorWindow)
                    = LastOf(SectorReturns(pool, later, n), SectorWindow)
<1> DEFINE S == ReturnsOf(pool, from, later, n)
           s == DayReturns(pool, from, n)
           t == DayReturns(pool, later, n)
           Differ == {d \in 1 .. n : ReturnsOn(pool, from, d) # ReturnsOn(pool, later, d)}
<1>1. CASE Differ = {}
  <2>1. s = t
    BY <1>1 DEF DayReturns
  <2> QED BY <2>1 DEF SectorReturns, DayReturns
<1>2. CASE Differ # {}
  <2>1. PICK k \in Differ : \A d \in Differ : d <= k
    <3>1. Differ \in SUBSET Int /\ n \in Int /\ \A d \in Differ : d <= n
      OBVIOUS
    <3> HIDE DEF Differ
    <3>2. \E k \in Differ : \A d \in Differ : d <= k
      BY <1>2, <3>1, GreatestOf
    <3> QED BY <3>2
  <2>2. k \in 1 .. n /\ k \in 0 .. n /\ k \in Nat /\ k # 0 /\ \A d \in k + 1 .. n : d \in 1 .. n /\ ReturnsOn(pool, from, d) = ReturnsOn(pool, later, d)
    <3>1. k \in 1 .. n
      OBVIOUS
    <3>2. \A d \in k + 1 .. n : d \in 1 .. n /\ ~(d <= k)
      BY <3>1
    <3>3. \A d \in k + 1 .. n : ReturnsOn(pool, from, d) = ReturnsOn(pool, later, d)
      BY <2>1, <3>2
    <3> QED BY <3>1, <3>2, <3>3
  <2>3. ~KeepsBars(pool, from, later, k)
    BY <2>1, <2>2, SameReturns
  <2>4. PICK x \in pool : BarsBefore(x, from, k) # {} /\ BarsBefore(x, later, k) = {}
    BY <2>3 DEF KeepsBars
  <2>5. ~\A d \in 1 .. later - 1 : ~HasBar(x, d)
    <3>1. PICK d \in from .. k - 1 : HasBar(x, d)
      BY <2>4 DEF BarsBefore
    <3>2. d \notin later .. k - 1 /\ d \in Int /\ 1 <= d
      BY <2>4, <3>1 DEF BarsBefore, HasBar
    <3>3. d \in 1 .. later - 1
      BY <2>2, <3>1, <3>2
    <3> QED BY <3>1, <3>3
  <2>6. /\ later \in Nat \ {0} /\ active \in Nat \ {0} /\ later <= active
        /\ Len(BarsThrough(x, later, active)) >= SectorWindow + 1
    BY <2>5 DEF Loaded
  <2> DEFINE B == BarsOf(x)
             b == DayBars(x, later, n)
  <2>7. PICK h : Flattens(h, b, B) /\ BarsThrough(x, later, n) = h[n]
    BY BarsFlatten
  <2>8. b \in Seq(Seq(B)) /\ Len(b) = n
    BY DayBarsAre
  <2>9. /\ Len(h[k]) <= 1 /\ Len(h[n]) >= SectorWindow + 1 /\ Len(h[n]) \in Nat
    <3>1. h[k] = BarsThrough(x, later, k)
      BY <2>2, <2>7, BarsUpTo
    <3>2. Len(BarsThrough(x, later, k)) <= 1
      BY <2>2, <2>4, FirstBars
    <3>3. active \in 0 .. n
      BY <2>6
    <3>4. /\ BarsThrough(x, later, n) \in Seq(B) /\ BarsThrough(x, later, active) \in Seq(B)
          /\ Len(BarsThrough(x, later, active)) <= Len(BarsThrough(x, later, n))
      BY <3>3, BarsGrow
    <3> DEFINE l == Len(BarsThrough(x, later, active))
               m == Len(BarsThrough(x, later, n))
    <3>5. l \in Nat /\ m \in Nat /\ l <= m /\ l >= SectorWindow + 1 /\ SectorWindow \in Nat
      BY <2>6, <3>4, FitAssumption
    <3> HIDE DEF l, m
    <3>6. m >= SectorWindow + 1
      BY <3>5
    <3> QED BY <2>7, <3>1, <3>2, <3>5, <3>6 DEF m
  <2>10. /\ s \in Seq(Seq(S)) /\ Len(s) = n /\ t \in Seq(Seq(S)) /\ Len(t) = n
         /\ \A d \in 1 .. n : ReturnsOn(pool, later, d) # {} => Len(t[d]) = 1
    <3>1. \A d \in 1 .. n : ReturnsOn(pool, from, d) \in S /\ ReturnsOn(pool, later, d) \in S
      BY DEF ReturnsOf
    <3> HIDE DEF S
    <3> QED BY <3>1, DayReturnsAre
  <2>11. SameAfter(s, t, k)
    <3>1. \A d \in k + 1 .. n : s[d] = t[d]
      BY <2>2 DEF DayReturns
    <3> HIDE DEF s, t
    <3> QED BY <2>10, <3>1 DEF SameAfter
  <2>12. \A d \in k + 1 .. n : (h[d - 1] # <<>> => Len(s[d]) >= Len(b[d])) /\ Len(b[d]) <= 1
    <3> SUFFICES ASSUME NEW d \in k + 1 .. n
                 PROVE  (h[d - 1] # <<>> => Len(s[d]) >= Len(b[d])) /\ Len(b[d]) <= 1
      OBVIOUS
    <3>1. d \in 1 .. n /\ d \in Nat /\ d # 0 /\ d - 1 \in 0 .. n
      BY <2>2
    <3>2. /\ later <= d /\ HasBar(x, d) => Len(b[d]) = 1
          /\ ~(later <= d /\ HasBar(x, d)) => Len(b[d]) = 0
          /\ Len(b[d]) <= 1
      <4>1. Len(b[d]) = IF later <= d /\ HasBar(x, d) THEN 1 ELSE 0
        BY <3>1, OneBarADay
      <4> HIDE DEF b
      <4> QED BY <4>1
    <3>3. s[d] = t[d] /\ Len(s[d]) \in Nat
      <4>1. s[d] = t[d]
        BY <2>2 DEF DayReturns
      <4> HIDE DEF s, t, S
      <4>2. s[d] \in Seq(S)
        BY <2>10, <3>1, ElementOfSeq
      <4> QED BY <4>1, <4>2
    <3>4. ASSUME h[d - 1] # <<>>, later <= d, HasBar(x, d) PROVE Len(s[d]) = 1
      <4>1. h[d - 1] = BarsThrough(x, later, d - 1)
        BY <2>7, <3>1, BarsUpTo
      <4>2. BarsBefore(x, later, d) # {}
        BY <3>1, <3>4, <4>1, FirstBars
      <4>3. ReturnsOn(pool, later, d) # {}
        <5>1. [code |-> x, value |-> DailyReturn(x, later, d)] \in ReturnsOn(pool, later, d)
          BY <3>4, <4>2 DEF ReturnsOn
        <5> QED BY <5>1
      <4> QED BY <2>10, <3>1, <3>3, <4>3
    <3> HIDE DEF s, t, b
    <3> QED BY <3>2, <3>3, <3>4
  <2>13. PICK f : Flattens(f, s, S) /\ SectorReturns(pool, from, n) = f[n]
    <3>1. \A d \in 1 .. n : ReturnsOn(pool, from, d) \in S
      BY DEF ReturnsOf
    <3> HIDE DEF S
    <3> QED BY <3>1, SectorFlatten
  <2>14. PICK g : Flattens(g, t, S) /\ SectorReturns(pool, later, n) = g[n]
    <3>1. \A d \in 1 .. n : ReturnsOn(pool, later, d) \in S
      BY DEF ReturnsOf
    <3> HIDE DEF S
    <3> QED BY <3>1, SectorFlatten
  <2> HIDE DEF S, s, t, B, b
  <2>15. Shared(S, s, t, f, g, B, b, h, k)
    <3>1. KeepsUp(s, h, b, k)
      BY <2>10, <2>12 DEF KeepsUp
    <3> QED BY <2>2, <2>7, <2>8, <2>9, <2>10, <2>11, <2>13, <2>14, <3>1 DEF Shared
  <2>16. SharedEnd(S, f, g, h, k, n)
    BY <2>10, <2>15, FlattensShare
  <2>17. PICK rest \in Seq(S) : f[n] = f[k] \o rest /\ g[n] = g[k] \o rest /\ Len(rest) >= Len(h[n]) - 1
    BY <2>16 DEF SharedEnd
  <2>18. SectorWindow \in Nat /\ SectorWindow <= Len(rest)
    <3>1. SectorWindow \in Nat /\ Len(rest) \in Nat
      BY FitAssumption
    <3> DEFINE l == Len(h[n])
               r == Len(rest)
    <3>2. l \in Nat /\ r \in Nat /\ r >= l - 1 /\ l >= SectorWindow + 1
      BY <2>9, <2>17, <3>1
    <3> HIDE DEF l, r
    <3>3. SectorWindow <= r
      BY <3>1, <3>2
    <3> QED BY <3>1, <3>3 DEF r
  <2>19. f[k] \in Seq(S) /\ g[k] \in Seq(S)
    BY <2>2, <2>10, <2>13, <2>14 DEF Flattens
  <2>20. \A start \in Seq(S) : /\ LastOf(start \o rest, SectorWindow) = LastOf(rest, SectorWindow)
                               /\ ~(Len(start \o rest) < SectorWindow)
    <3> SUFFICES ASSUME NEW start \in Seq(S)
                 PROVE  /\ LastOf(start \o rest, SectorWindow) = LastOf(rest, SectorWindow)
                        /\ ~(Len(start \o rest) < SectorWindow)
      OBVIOUS
    <3>1. LastOf(start \o rest, SectorWindow) = LastOf(rest, SectorWindow)
      BY <2>18, LastOfEnd
    <3>2. Len(start \o rest) = Len(start) + Len(rest) /\ Len(start) \in Nat /\ Len(rest) \in Nat
      BY ConcatProperties
    <3> QED BY <2>18, <3>1, <3>2
  <2> QED BY <2>13, <2>14, <2>17, <2>19, <2>20
<1> QED BY <1>1, <1>2

\* The features of a sector are the same.
LEMMA SameSectorFeatures ==
    ASSUME NEW c, NEW from \in Int, NEW later \in Int, from <= later, NEW active \in Int,
           NEW n \in Nat, active <= n, \A x \in Ticker : Loaded(x, later, active)
    PROVE  SectorFeatures(c, from, n) = SectorFeatures(c, later, n)
<1> DEFINE pool == {x \in Ticker : SectorOf[x] = SectorOf[c]}
           old == SectorReturns(pool, from, n)
           new == SectorReturns(pool, later, n)
<1>1. \/ old = new
      \/ /\ ~(Len(old) < SectorWindow) /\ ~(Len(new) < SectorWindow)
         /\ LastOf(old, SectorWindow) = LastOf(new, SectorWindow)
  <2>1. \A x \in pool : Loaded(x, later, active)
    OBVIOUS
  <2> HIDE DEF pool
  <2> QED BY <2>1, SameSector
<1>2. /\ SectorFeatures(c, from, n) = IF Len(old) < SectorWindow THEN Nil ELSE LastOf(old, SectorWindow)
      /\ SectorFeatures(c, later, n) = IF Len(new) < SectorWindow THEN Nil ELSE LastOf(new, SectorWindow)
  BY DEF SectorFeatures
<1> HIDE DEF old, new
<1> QED BY <1>1, <1>2

-----------------------------------------------------------------------------
\* Of the market, nothing or the same.
LEMMA SameMarket ==
    ASSUME NEW from \in Int, NEW later \in Int, from <= later, NEW active \in Int, later <= active,
           NEW n \in Int, active <= n, \A x \in Ticker : Loaded(x, later, active)
    PROVE  MarketFeatures(later, active, n) \in {Nil, MarketFeatures(from, from, n)}
<1> DEFINE old == [i \in 1 .. MarketWindow |-> ReturnsOn(Ticker, from, n - MarketWindow + i - 1)]
           new == [i \in 1 .. MarketWindow |-> ReturnsOn(Ticker, later, n - MarketWindow + i - 1)]
<1>1. CASE n - active < MarketWindow
  BY <1>1 DEF MarketFeatures
<1>2. CASE ~(n - active < MarketWindow)
  <2>0. MarketWindow \in Nat
    BY FitAssumption
  <2>1. \A d \in Int : active <= d => ReturnsOn(Ticker, from, d) = ReturnsOn(Ticker, later, d)
    <3> SUFFICES ASSUME NEW d \in Int, active <= d
                 PROVE  ReturnsOn(Ticker, from, d) = ReturnsOn(Ticker, later, d)
      OBVIOUS
    <3>1. KeepsBars(Ticker, from, later, d)
      BY BarBeforeLoaded DEF KeepsBars
    <3> QED BY <3>1, SameReturns
  <2>2. \A i \in 1 .. MarketWindow : n - MarketWindow + i - 1 \in Int /\ active <= n - MarketWindow + i - 1
    BY <1>2, <2>0
  <2>3. old = new
    BY <2>1, <2>2
  <2>4. ReturnsOn(Ticker, from, n) = ReturnsOn(Ticker, later, n)
    BY <2>1
  <2>5. ~(n - from < MarketWindow)
    BY <1>2, <2>0
  <2>6. MarketFeatures(later, active, n) =
          IF n - active < MarketWindow \/ \E i \in 1 .. MarketWindow : new[i] = {} THEN Nil
          ELSE [latest |-> ReturnsOn(Ticker, later, n), before |-> new, recent |-> LastOf(new, RecentWindow)]
    BY DEF MarketFeatures
  <2>7. MarketFeatures(from, from, n) =
          IF n - from < MarketWindow \/ \E i \in 1 .. MarketWindow : old[i] = {} THEN Nil
          ELSE [latest |-> ReturnsOn(Ticker, from, n), before |-> old, recent |-> LastOf(old, RecentWindow)]
    BY DEF MarketFeatures
  <2> HIDE DEF old, new
  <2> QED BY <1>2, <2>3, <2>4, <2>5, <2>6, <2>7
<1> QED BY <1>1, <1>2

\* A reason is one.
Reasons == {"missing_reference", "adjusted_history_missing", "snapshot_not_ready", "source_inconsistent",
            "target_suspended", "target_status_unknown", "invalid_prices", "corporate_action"}

LEMMA ReasonsAre ==
    ASSUME NEW why \in Reasons
    PROVE  Why(why).reason # NoReason
<1>1. why # NoReason
  BY Zenon DEF Reasons, NoReason
<1>2. Why(why).reason = why
  BY DEF Why
<1> QED BY <1>1, <1>2, Zenon

\* A snapshot with a part that may be missing.
Snapshot(c, target, from, market) ==
    LET stock == StockFeatures(BarsThrough(c, from, target - 1)) IN
    [reason |-> NoReason, target |-> target, inputThrough |-> target - 1,
     reference |-> StoredBar(c, target - 1).close,
     baseline |-> baselineForecast(Recent(BarsThrough(c, from, target - 1))),
     features |-> [stock |-> stock, market |-> market,
                   sector |-> IF stock = Nil THEN Nil ELSE SectorFeatures(c, from, target - 1)]]

\* makeSnapshot, with the part of the market given.
LEMMA SnapshotIs ==
    ASSUME NEW c, NEW target, NEW from, NEW first
    PROVE  LET market == MarketFeatures(from, first, target - 1)
               snapshot == Snapshot(c, target, from, market)
           IN makeSnapshot(c, target, from, first) =
                IF ~HasBar(c, target - 1) \/ target - 1 < from THEN Why("missing_reference")
                ELSE IF ~sessions[c][target - 1].adjusted \/ ~validBar(StoredBar(c, target - 1))
                THEN Why("adjusted_history_missing")
                ELSE IF Ready(snapshot) THEN snapshot ELSE Why("snapshot_not_ready")
BY DEF makeSnapshot, Snapshot, Features

\* A snapshot of a later loading is the snapshot of an earlier one, the market aside.
LEMMA SameSnapshot ==
    ASSUME NEW c \in Ticker, NEW target \in Nat \ {0}, NEW from \in Int, NEW later \in Int, from <= later,
           NEW active \in Int, later <= active, active <= target - 1,
           \A x \in Ticker : Loaded(x, later, active),
           makeSnapshot(c, target, later, active).reason = NoReason
    PROVE  LET learned == makeSnapshot(c, target, later, active)
               served == makeSnapshot(c, target, from, from)
           IN /\ served.reason = NoReason
              /\ learned.features.market \in {Nil, served.features.market}
              /\ learned = [served EXCEPT !.features.market = learned.features.market]
<1> DEFINE n == target - 1
<1>0. n \in Nat /\ n \in Int /\ active <= n
  OBVIOUS
<1>00. Loaded(c, later, active)
  OBVIOUS
<1>1. /\ Recent(BarsThrough(c, from, n)) = Recent(BarsThrough(c, later, n))
      /\ StockFeatures(BarsThrough(c, from, n)) = StockFeatures(BarsThrough(c, later, n))
  <2> HIDE DEF n
  <2> QED BY <1>0, <1>00, SameBars
<1>2. SectorFeatures(c, from, n) = SectorFeatures(c, later, n)
  <2> HIDE DEF n
  <2> QED BY <1>0, SameSectorFeatures
<1> DEFINE new == MarketFeatures(later, active, n)
           old == MarketFeatures(from, from, n)
<1>3. new \in {Nil, old}
  <2> HIDE DEF n
  <2> QED BY <1>0, SameMarket
<1> DEFINE L == Snapshot(c, target, later, new)
           V == Snapshot(c, target, from, old)
           stock == StockFeatures(BarsThrough(c, from, n))
           sector == IF stock = Nil THEN Nil ELSE SectorFeatures(c, from, n)
           baseline == baselineForecast(Recent(BarsThrough(c, from, n)))
           reference == StoredBar(c, n).close
<1>4. V = [reason |-> NoReason, target |-> target, inputThrough |-> n, reference |-> reference,
           baseline |-> baseline, features |-> [stock |-> stock, market |-> old, sector |-> sector]]
  BY DEF Snapshot
<1>5. L = [reason |-> NoReason, target |-> target, inputThrough |-> n, reference |-> reference,
           baseline |-> baseline, features |-> [stock |-> stock, market |-> new, sector |-> sector]]
  BY <1>1, <1>2 DEF Snapshot
<1> HIDE DEF n, L, V, new, old, stock, sector, baseline, reference
<1>6. makeSnapshot(c, target, later, active) =
        IF ~HasBar(c, n) \/ n < later THEN Why("missing_reference")
        ELSE IF ~sessions[c][n].adjusted \/ ~validBar(StoredBar(c, n)) THEN Why("adjusted_history_missing")
        ELSE IF Ready(L) THEN L ELSE Why("snapshot_not_ready")
  BY SnapshotIs DEF n, L, new
<1>7. makeSnapshot(c, target, from, from) =
        IF ~HasBar(c, n) \/ n < from THEN Why("missing_reference")
        ELSE IF ~sessions[c][n].adjusted \/ ~validBar(StoredBar(c, n)) THEN Why("adjusted_history_missing")
        ELSE IF Ready(V) THEN V ELSE Why("snapshot_not_ready")
  BY SnapshotIs DEF n, V, old
<1>8. /\ Why("missing_reference").reason # NoReason /\ Why("adjusted_history_missing").reason # NoReason
      /\ Why("snapshot_not_ready").reason # NoReason
  BY ReasonsAre DEF Reasons
<1>9. /\ HasBar(c, n) /\ ~(n < later) /\ sessions[c][n].adjusted /\ validBar(StoredBar(c, n)) /\ Ready(L)
      /\ makeSnapshot(c, target, later, active) = L
  BY <1>6, <1>8
<1>10. Ready(V)
  <2>0. /\ L.baseline = baseline /\ L.features["stock"] = stock /\ L.features["market"] = new
        /\ L.features["sector"] = sector
    BY <1>5
  <2>1. baseline # Nil /\ (stock # Nil \/ new # Nil \/ sector # Nil)
    BY <1>9, <2>0 DEF Ready
  <2>2. stock # Nil \/ old # Nil \/ sector # Nil
    BY <1>3, <2>1
  <2>3. /\ V.baseline = baseline /\ V.features["stock"] = stock /\ V.features["market"] = old
        /\ V.features["sector"] = sector
    BY <1>4
  <2> QED BY <2>1, <2>2, <2>3 DEF Ready
<1>11. makeSnapshot(c, target, from, from) = V
  <2>1. ~(n < from)
    BY <1>0, <1>9
  <2> QED BY <1>7, <1>9, <1>10, <2>1
<1>12. /\ V.reason = NoReason /\ L.features.market = new /\ V.features.market = old
       /\ L = [V EXCEPT !.features.market = new]
  <2> DEFINE f == [stock |-> stock, market |-> old, sector |-> sector]
             g == [stock |-> stock, market |-> new, sector |-> sector]
  <2>1. g = [f EXCEPT !.market = new] /\ g.market = new /\ f.market = old
    <3>1. f = [stock |-> stock, market |-> old, sector |-> sector] /\ g = [stock |-> stock, market |-> new, sector |-> sector]
      OBVIOUS
    <3> HIDE DEF f, g
    <3> QED BY <3>1
  <2>2. /\ V = [reason |-> NoReason, target |-> target, inputThrough |-> n, reference |-> reference,
                baseline |-> baseline, features |-> f]
        /\ L = [reason |-> NoReason, target |-> target, inputThrough |-> n, reference |-> reference,
                baseline |-> baseline, features |-> g]
    BY <1>4, <1>5
  <2> HIDE DEF f, g
  <2>3. V.features = f /\ L.features = g /\ V.reason = NoReason
    BY <2>2
  <2>4. L = [V EXCEPT !.features = g]
    BY <2>2
  <2>5. [V EXCEPT !.features.market = new] = [V EXCEPT !.features = [V.features EXCEPT !.market = new]]
    OBVIOUS
  <2> QED BY <2>1, <2>3, <2>4, <2>5
<1> QED BY <1>3, <1>9, <1>11, <1>12

-----------------------------------------------------------------------------
\* What is stored is the sessions so far; of each morning, the snapshot that the
\* archive would still give, were it loaded as it was then.
FitInv ==
    /\ Today \in Nat
    /\ \A c \in Ticker : IsList(sessions[c]) /\ Len(sessions[c]) = Today
    /\ \A c \in Ticker : IsList(frozen[c]) /\ Len(frozen[c]) \in {Today, Today + 1}
    /\ \A c \in Ticker : \A t \in 1 .. Len(frozen[c]) :
          frozen[c][t] = makeSnapshot(c, t, FirstLoaded(t - 1), FirstLoaded(t - 1))

\* It is what is learned from.
LEMMA LearnedAsFrozen ==
    ASSUME FitInv
    PROVE  TrainedAsServed
<1> SUFFICES ASSUME Today > 0, Uncut(Today), NEW s \in Trainable(Today)
             PROVE  LET learned == s.sample.snapshot
                        served == frozen[s.code][learned.target]
                    IN /\ served.reason = NoReason
                       /\ learned.features.market \in {Nil, served.features.market}
                       /\ learned = [served EXCEPT !.features.market = learned.features.market]
  BY DEF TrainedAsServed
<1> DEFINE asof == Today
           later == FirstLoaded(asof)
           active == ActiveFrom(asof)
<1>0. asof \in Nat /\ later \in Int /\ active \in Int /\ later <= active
  BY FitAssumption DEF FitInv, FirstLoaded, ActiveFrom
<1>1. PICK c \in Ticker, target \in 1 .. asof :
         target > active /\ s = [code |-> c, sample |-> buildSample(c, target, asof)]
  <2>1. s \in BuildDataset(asof)
    BY DEF Trainable
  <2> QED BY <2>1 DEF BuildDataset
<1> DEFINE learned == makeSnapshot(c, target, later, active)
           sample == buildSample(c, target, asof)
<1>2. sample.reason = NoReason /\ s.code = c /\ s.sample = sample
  BY <1>1 DEF Trainable
<1>3. learned.reason = NoReason /\ sample.snapshot = learned
  <2> DEFINE high == sessions[c][target].bar.high
             low == sessions[c][target].bar.low
  <2>1. \/ \E why \in {"source_inconsistent", "target_suspended", "target_status_unknown", "invalid_prices",
                       "adjusted_history_missing", "corporate_action"} : sample = Why(why)
        \/ learned.reason # NoReason /\ sample = learned
        \/ learned.reason = NoReason /\ sample = [reason |-> NoReason, snapshot |-> learned, high |-> high, low |-> low]
    <3> HIDE DEF learned
    <3> QED BY DEF buildSample, learned
  <2>2. \A why \in {"source_inconsistent", "target_suspended", "target_status_unknown", "invalid_prices",
                    "adjusted_history_missing", "corporate_action"} : Why(why).reason # NoReason
    BY ReasonsAre DEF Reasons
  <2> HIDE DEF sample, learned, high, low
  <2> QED BY <1>2, <2>1, <2>2
<1> DEFINE from == FirstLoaded(target - 1)
           served == makeSnapshot(c, target, from, from)
<1>4. from \in Int /\ from <= later /\ active <= target - 1 /\ target \in Nat \ {0} /\ target \in 1 .. Len(frozen[c])
  <2>1. c \in Ticker /\ target \in 1 .. asof /\ active < target
    BY <1>1
  <2> HIDE DEF learned, sample, served, active
  <2>2. target \in Nat \ {0} /\ target <= asof /\ active <= target - 1
    BY <1>0, <2>1
  <2>3. from \in Int /\ from <= later
    BY <1>0, <2>2, FitAssumption DEF FirstLoaded
  <2>4. Len(frozen[c]) \in {asof, asof + 1}
    BY <2>1 DEF FitInv
  <2> HIDE DEF asof, later, from
  <2>5. target \in 1 .. Len(frozen[c])
    BY <1>0, <2>2, <2>4
  <2> QED BY <2>2, <2>3, <2>5
<1>5. frozen[c][target] = served
  BY <1>4 DEF FitInv
<1>6. \A x \in Ticker : Loaded(x, later, active)
  BY <1>0, UncutLoaded
<1>7. learned.target = target
  <2>1. \E market : learned = Snapshot(c, target, later, market) \/ learned = Why("missing_reference")
           \/ learned = Why("adjusted_history_missing") \/ learned = Why("snapshot_not_ready")
    BY SnapshotIs
  <2>2. Why("missing_reference").reason # NoReason /\ Why("adjusted_history_missing").reason # NoReason
        /\ Why("snapshot_not_ready").reason # NoReason
    BY ReasonsAre DEF Reasons
  <2>3. \A market : Snapshot(c, target, later, market).target = target
    BY DEF Snapshot
  <2> HIDE DEF learned
  <2> QED BY <1>3, <2>1, <2>2, <2>3
<1>8. /\ served.reason = NoReason
      /\ learned.features.market \in {Nil, served.features.market}
      /\ learned = [served EXCEPT !.features.market = learned.features.market]
  <2> HIDE DEF later, active, from, asof
  <2> QED BY <1>0, <1>3, <1>4, <1>6, SameSnapshot
<1> HIDE DEF learned, served, sample
<1> QED BY <1>2, <1>3, <1>5, <1>7, <1>8

-----------------------------------------------------------------------------
\* The sessions that have been are as they were.
Kept == /\ Today \in Nat /\ Today' \in Nat /\ Today <= Today'
        /\ \A x \in Ticker : \A d \in 1 .. Today : sessions'[x][d] = sessions[x][d]

\* A session that has been keeps its bar,
LEMMA KeptBars ==
    ASSUME Kept, NEW x \in Ticker, NEW d \in Int, d <= Today
    PROVE  HasBar(x, d)' = HasBar(x, d) /\ (1 <= d => StoredBar(x, d)' = StoredBar(x, d))
<1>1. d \in 1 .. Today <=> d \in 1 .. Today'
  BY DEF Kept
<1>2. d \in 1 .. Today => sessions'[x][d] = sessions[x][d]
  BY DEF Kept
<1>3. HasBar(x, d)' = HasBar(x, d)
  BY <1>1, <1>2 DEF HasBar
<1>4. 1 <= d => StoredBar(x, d)' = StoredBar(x, d)
  BY <1>2 DEF StoredBar, Kept
<1> QED BY <1>3, <1>4

\* the bars through it,
LEMMA KeptBarsThrough ==
    ASSUME Kept, NEW x \in Ticker, NEW from \in Int, NEW n \in Int, n <= Today
    PROVE  BarsThrough(x, from, n)' = BarsThrough(x, from, n)
<1>1. \A d \in 1 .. n : d \in Int /\ d <= Today /\ 1 <= d
  BY DEF Kept
<1>2. \A d \in 1 .. n : HasBar(x, d)' = HasBar(x, d) /\ StoredBar(x, d)' = StoredBar(x, d)
  BY <1>1, KeptBars
<1>3. DayBars(x, from, n)' = DayBars(x, from, n)
  BY <1>2 DEF DayBars
<1> QED BY <1>3 DEF BarsThrough, DayBars

\* its returns
LEMMA KeptReturns ==
    ASSUME Kept, NEW pool \in SUBSET Ticker, NEW from \in Int, NEW d \in Int, d <= Today
    PROVE  ReturnsOn(pool, from, d)' = ReturnsOn(pool, from, d)
<1>1. \A x \in pool : HasBar(x, d)' = HasBar(x, d) /\ (HasBar(x, d) => StoredBar(x, d)' = StoredBar(x, d))
  BY KeptBars DEF HasBar
<1>2. \A x \in pool : BarsBefore(x, from, d)' = BarsBefore(x, from, d)
  <2> SUFFICES ASSUME NEW x \in pool PROVE BarsBefore(x, from, d)' = BarsBefore(x, from, d)
    OBVIOUS
  <2>1. \A e \in from .. d - 1 : e \in Int /\ e <= Today
    BY DEF Kept
  <2>2. \A e \in from .. d - 1 : HasBar(x, e)' = HasBar(x, e)
    BY <2>1, KeptBars
  <2> QED BY <2>2 DEF BarsBefore
<1> DEFINE P == {x \in pool : HasBar(x, d) /\ BarsBefore(x, from, d) # {}}
<1>3. P' = P
  BY <1>1, <1>2
<1>4. \A x \in P : DailyReturn(x, from, d)' = DailyReturn(x, from, d)
  <2> SUFFICES ASSUME NEW x \in P PROVE DailyReturn(x, from, d)' = DailyReturn(x, from, d)
    OBVIOUS
  <2> DEFINE B == BarsBefore(x, from, d)
             e == CHOOSE e \in B : \A o \in B : o <= e
  <2>1. B \in SUBSET Int /\ B # {} /\ (\A o \in B : o <= d - 1 /\ HasBar(x, o)) /\ d - 1 \in Int
    BY DEF BarsBefore
  <2>2. e \in B
    <3> HIDE DEF B
    <3>1. \E y \in B : \A o \in B : o <= y
      BY <2>1, GreatestOf
    <3> QED BY <3>1
  <2>3. e \in Int /\ e <= Today /\ 1 <= e
    <3> HIDE DEF B, e
    <3>1. e \in Int /\ e <= d - 1 /\ HasBar(x, e)
      BY <2>1, <2>2
    <3> QED BY <3>1 DEF Kept, HasBar
  <2>4. StoredBar(x, e)' = StoredBar(x, e)
    <3> SUFFICES ASSUME NEW y \in Int, y <= Today, 1 <= y PROVE StoredBar(x, y)' = StoredBar(x, y)
      BY <1>2, <2>3
    <3> QED BY KeptBars
  <2>5. StoredBar(x, d)' = StoredBar(x, d)
    BY <1>1
  <2>6. B' = B
    BY <1>2
  <2> QED BY <2>4, <2>5, <2>6 DEF DailyReturn
<1>5. ReturnsOn(pool, from, d) = {[code |-> x, value |-> DailyReturn(x, from, d)] : x \in P}
  BY DEF ReturnsOn
<1>6. ReturnsOn(pool, from, d)' = {[code |-> x, value |-> DailyReturn(x, from, d)'] : x \in P'}
  BY DEF ReturnsOn
<1> HIDE DEF P
<1> QED BY <1>3, <1>4, <1>5, <1>6

\* and the snapshot that is made of the session after it.
LEMMA KeptSnapshot ==
    ASSUME Kept, NEW c \in Ticker, NEW target \in Int, target - 1 <= Today, NEW from \in Int, NEW first \in Int
    PROVE  makeSnapshot(c, target, from, first)' = makeSnapshot(c, target, from, first)
<1> DEFINE n == target - 1
<1>0. n \in Int /\ n <= Today
  OBVIOUS
<1>1. BarsThrough(c, from, n)' = BarsThrough(c, from, n)
  BY <1>0, KeptBarsThrough
<1>2. \A d \in Int : d <= n => ReturnsOn(Ticker, from, d)' = ReturnsOn(Ticker, from, d)
  <2>1. \A d \in Int : d <= n => d <= Today
    BY <1>0 DEF Kept
  <2>2. Ticker \in SUBSET Ticker
    OBVIOUS
  <2> QED BY <2>1, <2>2, KeptReturns
<1>3. MarketFeatures(from, first, n)' = MarketFeatures(from, first, n)
  <2> DEFINE before == [i \in 1 .. MarketWindow |-> ReturnsOn(Ticker, from, n - MarketWindow + i - 1)]
  <2>0. MarketWindow \in Nat
    BY FitAssumption
  <2>1. \A i \in 1 .. MarketWindow : n - MarketWindow + i - 1 \in Int /\ n - MarketWindow + i - 1 <= n
    BY <1>0, <2>0
  <2>2. before' = before
    BY <1>2, <2>1
  <2>3. ReturnsOn(Ticker, from, n)' = ReturnsOn(Ticker, from, n)
    BY <1>0, <1>2
  <2>4. MarketFeatures(from, first, n) =
          IF n - first < MarketWindow \/ \E i \in 1 .. MarketWindow : before[i] = {} THEN Nil
          ELSE [latest |-> ReturnsOn(Ticker, from, n), before |-> before, recent |-> LastOf(before, RecentWindow)]
    BY DEF MarketFeatures
  <2>5. MarketFeatures(from, first, n)' =
          IF n - first < MarketWindow \/ \E i \in 1 .. MarketWindow : before'[i] = {} THEN Nil
          ELSE [latest |-> ReturnsOn(Ticker, from, n)', before |-> before', recent |-> LastOf(before', RecentWindow)]
    BY DEF MarketFeatures
  <2> HIDE DEF before
  <2> QED BY <2>2, <2>3, <2>4, <2>5
<1>4. SectorFeatures(c, from, n)' = SectorFeatures(c, from, n)
  <2> DEFINE pool == {x \in Ticker : SectorOf[x] = SectorOf[c]}
  <2>1. pool \in SUBSET Ticker
    OBVIOUS
  <2>2. \A d \in 1 .. n : d \in Int /\ d <= Today
    BY <1>0 DEF Kept
  <2> HIDE DEF pool
  <2>3. \A d \in 1 .. n : ReturnsOn(pool, from, d)' = ReturnsOn(pool, from, d)
    BY <2>1, <2>2, KeptReturns
  <2>4. DayReturns(pool, from, n)' = DayReturns(pool, from, n)
    BY <2>3 DEF DayReturns
  <2>5. SectorReturns(pool, from, n)' = SectorReturns(pool, from, n)
    BY <2>4 DEF SectorReturns, DayReturns
  <2> QED BY <2>5 DEF SectorFeatures, pool
<1>5. HasBar(c, n)' = HasBar(c, n) /\ (HasBar(c, n) => StoredBar(c, n)' = StoredBar(c, n) /\ sessions'[c][n] = sessions[c][n])
  BY <1>0, KeptBars DEF HasBar, Kept
<1> DEFINE market == MarketFeatures(from, first, n)
           snapshot == Snapshot(c, target, from, market)
<1>6. HasBar(c, n) => snapshot' = snapshot
  BY <1>1, <1>3, <1>4, <1>5 DEF Snapshot
<1>7. makeSnapshot(c, target, from, first) =
        IF ~HasBar(c, n) \/ n < from THEN Why("missing_reference")
        ELSE IF ~sessions[c][n].adjusted \/ ~validBar(StoredBar(c, n)) THEN Why("adjusted_history_missing")
        ELSE IF Ready(snapshot) THEN snapshot ELSE Why("snapshot_not_ready")
  BY SnapshotIs
<1>8. makeSnapshot(c, target, from, first)' =
        IF ~HasBar(c, n)' \/ n < from THEN Why("missing_reference")
        ELSE IF ~sessions'[c][n].adjusted \/ ~validBar(StoredBar(c, n)') THEN Why("adjusted_history_missing")
        ELSE IF Ready(snapshot') THEN snapshot' ELSE Why("snapshot_not_ready")
  BY DEF makeSnapshot, Snapshot, Features
<1> HIDE DEF n, market, snapshot
<1> QED BY <1>5, <1>6, <1>7, <1>8

-----------------------------------------------------------------------------
\* Every morning freezes what it says, and an evening takes nothing back.
\* There is nothing yet.
LEMMA FitBegins ==
    ASSUME FitInit PROVE FitInv
<1>1. \A c \in Ticker : sessions[c] = << >> /\ frozen[c] = << >>
  BY DEF FitInit
<1>2. (CHOOSE c \in Ticker : TRUE) \in Ticker
  BY FitAssumption
<1>3. Today = 0
  BY <1>1, <1>2 DEF Today
<1>4. IsList(<< >>) /\ Len(<< >>) = 0
  BY DEF IsList
<1> QED BY <1>1, <1>3, <1>4 DEF FitInv

LEMMA FitGoesOn ==
    ASSUME FitInv, [FitNext]_fitVars PROVE FitInv'
<1> DEFINE some == CHOOSE c \in Ticker : TRUE
<1>0. some \in Ticker /\ Today = Len(sessions[some]) /\ Today' = Len(sessions'[some])
  BY FitAssumption DEF Today
<1> HIDE DEF some
<1>1. ASSUME BuildPredictionSnapshots PROVE FitInv'
  <2>1. sessions' = sessions /\ Today' = Today /\ Kept
    BY <1>0, <1>1 DEF BuildPredictionSnapshots, Kept, FitInv
  <2> DEFINE new(c) == makeSnapshot(c, Today + 1, FirstLoaded(Today), FirstLoaded(Today))
  <2>2. \A c \in Ticker : frozen'[c] = Append(frozen[c], new(c)) /\ IsList(frozen[c]) /\ Len(frozen[c]) = Today
    BY <1>1 DEF BuildPredictionSnapshots, FitInv
  <2> HIDE DEF new
  <2>3. \A c \in Ticker : /\ IsList(frozen'[c]) /\ Len(frozen'[c]) = Today + 1
                          /\ \A t \in 1 .. Today : frozen'[c][t] = frozen[c][t]
                          /\ frozen'[c][Today + 1] = new(c)
    <3> SUFFICES ASSUME NEW c \in Ticker
                 PROVE  /\ IsList(frozen'[c]) /\ Len(frozen'[c]) = Today + 1
                        /\ \A t \in 1 .. Today : frozen'[c][t] = frozen[c][t]
                        /\ frozen'[c][Today + 1] = new(c)
      OBVIOUS
    <3> DEFINE list == frozen[c]
               e == new(c)
               more == Append(list, e)
    <3>1. /\ IsList(more) /\ Len(more) = Len(list) + 1
          /\ \A i \in 1 .. Len(list) : more[i] = list[i]
          /\ more[Len(list) + 1] = e
      BY <2>2, ListAppend
    <3>2. frozen'[c] = more /\ Len(list) = Today
      BY <2>2
    <3> HIDE DEF more, list, e
    <3>3. more[Today + 1] = e /\ Len(more) = Today + 1 /\ \A i \in 1 .. Today : more[i] = list[i]
      BY <3>1, <3>2
    <3> QED BY <3>1, <3>2, <3>3 DEF list, e
  <2>4. ASSUME NEW c \in Ticker, NEW t \in 1 .. Today + 1
        PROVE  frozen'[c][t] = makeSnapshot(c, t, FirstLoaded(t - 1), FirstLoaded(t - 1))
    <3>0. Today \in Nat
      BY DEF FitInv
    <3>1. CASE t = Today + 1
      <4>1. t - 1 = Today
        BY <3>0, <3>1
      <4> QED BY <2>3, <3>1, <4>1 DEF new
    <3>2. CASE t # Today + 1
      <4>1. t \in 1 .. Today
        BY <3>0, <3>2
      <4> QED BY <2>2, <2>3, <4>1 DEF FitInv
    <3> QED BY <3>1, <3>2
  <2>5. \A c \in Ticker : \A t \in 1 .. Today + 1 :
           makeSnapshot(c, t, FirstLoaded(t - 1), FirstLoaded(t - 1))' = makeSnapshot(c, t, FirstLoaded(t - 1), FirstLoaded(t - 1))
    <3> SUFFICES ASSUME NEW c \in Ticker, NEW t \in 1 .. Today + 1
                 PROVE  makeSnapshot(c, t, FirstLoaded(t - 1), FirstLoaded(t - 1))'
                          = makeSnapshot(c, t, FirstLoaded(t - 1), FirstLoaded(t - 1))
      OBVIOUS
    <3>1. t \in Int /\ t - 1 <= Today /\ FirstLoaded(t - 1) \in Int
      BY FitAssumption DEF FirstLoaded, FitInv
    <3> QED BY <2>1, <3>1, KeptSnapshot
  <2> QED BY <2>1, <2>3, <2>4, <2>5 DEF FitInv
<1>2. ASSUME NEW kinds \in {k \in [Ticker -> UNION {Kind[c] : c \in Ticker}] : \A c \in Ticker : k[c] \in Kind[c]},
             SyncSession(kinds)
      PROVE  FitInv'
  <2>1. /\ \A c \in Ticker : Len(frozen[c]) = Today + 1
        /\ \A c \in Ticker : sessions'[c] = Append(sessions[c], SessionOf(c, kinds[c]))
        /\ frozen' = frozen
    BY <1>2 DEF SyncSession
  <2>2. \A c \in Ticker : /\ IsList(sessions'[c]) /\ Len(sessions'[c]) = Today + 1
                          /\ \A d \in 1 .. Today : sessions'[c][d] = sessions[c][d]
    <3> SUFFICES ASSUME NEW c \in Ticker
                 PROVE  /\ IsList(sessions'[c]) /\ Len(sessions'[c]) = Today + 1
                        /\ \A d \in 1 .. Today : sessions'[c][d] = sessions[c][d]
      OBVIOUS
    <3> DEFINE list == sessions[c]
               e == SessionOf(c, kinds[c])
               more == Append(list, e)
    <3>0. IsList(list) /\ Len(list) = Today
      BY DEF FitInv
    <3>1. /\ IsList(more) /\ Len(more) = Len(list) + 1
          /\ \A i \in 1 .. Len(list) : more[i] = list[i]
      <4> HIDE DEF list, e
      <4> QED BY <3>0, ListAppend
    <3>2. sessions'[c] = more
      BY <2>1
    <3> HIDE DEF more, list, e
    <3>3. Len(more) = Today + 1 /\ \A i \in 1 .. Today : more[i] = list[i]
      BY <3>0, <3>1
    <3> QED BY <3>1, <3>2, <3>3 DEF list
  <2>3. Today \in Nat /\ Today' = Today + 1 /\ Kept
    BY <1>0, <2>2 DEF FitInv, Kept
  <2>4. ASSUME NEW c \in Ticker, NEW t \in 1 .. Today + 1
        PROVE  frozen'[c][t] = makeSnapshot(c, t, FirstLoaded(t - 1), FirstLoaded(t - 1))'
    <3>1. t \in Int /\ t - 1 <= Today /\ FirstLoaded(t - 1) \in Int
      BY <2>3, FitAssumption DEF FirstLoaded
    <3>2. frozen[c][t] = makeSnapshot(c, t, FirstLoaded(t - 1), FirstLoaded(t - 1))
      BY <2>1 DEF FitInv
    <3> QED BY <2>1, <2>3, <3>1, <3>2, KeptSnapshot
  <2>5. \A c \in Ticker : IsList(frozen[c]) /\ Len(frozen[c]) \in {Today', Today' + 1}
    BY <2>1, <2>3 DEF FitInv
  <2> QED BY <2>1, <2>2, <2>3, <2>4, <2>5 DEF FitInv
<1>3. ASSUME UNCHANGED fitVars PROVE FitInv'
  <2>1. sessions' = sessions /\ frozen' = frozen /\ Today' = Today /\ Kept
    BY <1>0, <1>3 DEF fitVars, Kept, FitInv
  <2>2. ASSUME NEW c \in Ticker, NEW t \in 1 .. Len(frozen[c])
        PROVE  frozen'[c][t] = makeSnapshot(c, t, FirstLoaded(t - 1), FirstLoaded(t - 1))'
    <3>0. Today \in Nat /\ Len(frozen[c]) \in {Today, Today + 1}
      BY DEF FitInv
    <3>1. t \in Int /\ t - 1 <= Today /\ FirstLoaded(t - 1) \in Int
      <4> DEFINE l == Len(frozen[c])
      <4>1. l \in {Today, Today + 1} /\ t \in 1 .. l
        BY <3>0
      <4> HIDE DEF l
      <4> QED BY <3>0, <4>1, FitAssumption DEF FirstLoaded
    <3>2. frozen[c][t] = makeSnapshot(c, t, FirstLoaded(t - 1), FirstLoaded(t - 1))
      BY DEF FitInv
    <3> QED BY <2>1, <3>1, <3>2, KeptSnapshot
  <2> QED BY <2>1, <2>2 DEF FitInv
<1> QED BY <1>1, <1>2, <1>3 DEF FitNext

\* A sample that is learned from has the inputs that the forecast of its session was
\* made from that morning (makeSnapshot in BuildPredictionSnapshots and in
\* buildSample), for every history of the archive and every length of the windows,
\* where what is loaded before the sessions gone over is not cut short.
THEOREM TrainedAsServedHolds == FitSpec => []TrainedAsServed
<1>1. FitInit => FitInv
  BY FitBegins
<1>2. FitInv /\ [FitNext]_fitVars => FitInv'
  BY FitGoesOn
<1>3. FitInv => TrainedAsServed
  BY LearnedAsFrozen
<1> QED BY <1>1, <1>2, <1>3, PTL DEF FitSpec

-----------------------------------------------------------------------------
(***************************************************************************)
(* TradeRules, for any sessions, costs, bounds and batches.                *)
(*                                                                         *)
(* What a position holds is what its fills bought and did not sell (Core), *)
(* so on the morning of a day it is all sellable and all held before that  *)
(* day; only a purchase of the day adds what cannot be sold. Nothing has   *)
(* been decided as long as no stop is, and then the opening price was      *)
(* above the stop and below the target, unless something was bought        *)
(* (Undecided): that is why a stop within the day fills inside the loss    *)
(* and a target inside the range. Total is a recursion over the list: what *)
(* it gives is shown by the least place at which it would not.             *)
(***************************************************************************)

\* An element of a list.
LEMMA ElementOf ==
    ASSUME NEW S, NEW s \in Seq(S), NEW i \in 1 .. Len(s)
    PROVE  s[i] \in S
OBVIOUS

\* The recursion of Total, up to m elements of v.
SumChain(f, v, m) == f = [i \in 0 .. m |-> IF i = 0 THEN 0 ELSE f[i - 1] + v[i]]

\* The recursion of Total has a solution, however far it goes.
LEMMA SumChains ==
    ASSUME NEW v
    PROVE  \A m \in Nat : \E f : SumChain(f, v, m)
<1> DEFINE Undefined == {m \in Nat : ~\E f : SumChain(f, v, m)}
<1> SUFFICES ASSUME Undefined # {} PROVE FALSE
  OBVIOUS
<1>1. PICK m \in Undefined : \A k \in Undefined : m <= k
  BY LeastIn
<1>2. m # 0
  <2> DEFINE f == [i \in 0 .. 0 |-> 0]
  <2>1. f = [i \in 0 .. 0 |-> IF i = 0 THEN 0 ELSE f[i - 1] + v[i]]
    OBVIOUS
  <2> HIDE DEF f
  <2>2. SumChain(f, v, 0)
    BY <2>1 DEF SumChain
  <2> QED BY <2>2
<1>3. m \in Nat /\ m - 1 \in Nat /\ m - 1 \notin Undefined
  BY <1>1, <1>2
<1>4. PICK g : SumChain(g, v, m - 1)
  BY <1>3
<1> DEFINE f == [i \in 0 .. m |-> IF i = m THEN g[m - 1] + v[m] ELSE g[i]]
<1>5. \A i \in 0 .. m - 1 : g[i] = IF i = 0 THEN 0 ELSE g[i - 1] + v[i]
  BY <1>4 DEF SumChain
<1>6. \A i \in 0 .. m - 1 : f[i] = g[i]
  <2>1. \A i \in 0 .. m - 1 : i \in 0 .. m /\ i # m
    BY <1>3
  <2> QED BY <2>1
<1>7. ASSUME NEW i \in 0 .. m PROVE f[i] = IF i = 0 THEN 0 ELSE f[i - 1] + v[i]
  <2>1. CASE i = m
    <3>1. f[m] = g[m - 1] + v[m]
      BY <1>2, <1>3
    <3>2. f[m - 1] = g[m - 1]
      BY <1>3, <1>6
    <3> HIDE DEF f
    <3> QED BY <1>2, <2>1, <3>1, <3>2
  <2>2. CASE i # m
    <3>1. i \in 0 .. m - 1 /\ (i # 0 => i - 1 \in 0 .. m - 1)
      BY <1>3, <2>2
    <3> HIDE DEF f
    <3> QED BY <1>5, <1>6, <3>1
  <2> QED BY <2>1, <2>2
<1>8. f = [i \in 0 .. m |-> f[i]]
  OBVIOUS
<1>9. SumChain(f, v, m)
  <2> HIDE DEF f
  <2> QED BY <1>7, <1>8 DEF SumChain
<1> QED BY <1>9

\* f adds the elements of v up.
Sums(f, v) ==
    /\ f \in [0 .. Len(v) -> Int] /\ f[0] = 0
    /\ \A i \in 1 .. Len(v) : f[i] = f[i - 1] + v[i]

\* Total is the last of the sums.
LEMMA TotalSums ==
    ASSUME NEW v \in Seq(Int)
    PROVE  \E f : Sums(f, v) /\ Total(v) = f[Len(v)]
<1> DEFINE n == Len(v)
           f == CHOOSE g : SumChain(g, v, n)
<1>0. n \in Nat
  OBVIOUS
<1>1. SumChain(f, v, n)
  BY <1>0, SumChains
<1>2. f = [i \in 0 .. n |-> IF i = 0 THEN 0 ELSE f[i - 1] + v[i]]
  BY <1>1 DEF SumChain
<1>3. Total(v) = f[n]
  BY DEF Total, SumChain
<1> HIDE DEF f
<1>4. f[0] = 0 /\ (\A i \in 1 .. n : f[i] = f[i - 1] + v[i]) /\ f = [i \in 0 .. n |-> f[i]]
  BY <1>0, <1>2
<1> DEFINE Bad == {i \in 0 .. n : f[i] \notin Int}
<1>5. Bad = {}
  <2> SUFFICES ASSUME Bad # {} PROVE FALSE
    OBVIOUS
  <2>1. Bad \in SUBSET Nat
    OBVIOUS
  <2>2. PICK i \in Bad : \A j \in Bad : i <= j
    <3> HIDE DEF Bad
    <3> QED BY <2>1, LeastIn
  <2>3. i # 0
    BY <1>4, <2>2
  <2>4. i \in 1 .. n /\ i - 1 \in 0 .. n /\ i - 1 \notin Bad
    BY <1>0, <2>2, <2>3
  <2>5. f[i - 1] \in Int /\ v[i] \in Int
    BY <2>4
  <2>6. f[i] = f[i - 1] + v[i]
    BY <1>4, <2>4
  <2>7. f[i] \notin Int
    BY <2>2
  <2> QED BY <2>5, <2>6, <2>7
<1>6. f \in [0 .. n -> Int]
  BY <1>4, <1>5
<1> QED BY <1>3, <1>4, <1>6 DEF Sums

\* Sums of elements that add up add up.
AddUp(u, v, w) == \A i \in 1 .. Len(u) : w[i] = u[i] + v[i]

\* The total of sums is the sum of the totals.
LEMMA TotalPlus ==
    ASSUME NEW u \in Seq(Int), NEW v \in Seq(Int), NEW w \in Seq(Int),
           Len(u) = Len(v), Len(u) = Len(w), AddUp(u, v, w)
    PROVE  Total(w) = Total(u) + Total(v)
<1>1. PICK f : Sums(f, u) /\ Total(u) = f[Len(u)]
  BY TotalSums
<1>2. PICK g : Sums(g, v) /\ Total(v) = g[Len(v)]
  BY TotalSums
<1>3. PICK h : Sums(h, w) /\ Total(w) = h[Len(w)]
  BY TotalSums
<1> DEFINE n == Len(u)
           Bad == {i \in 0 .. n : h[i] # f[i] + g[i]}
<1>0. n \in Nat
  OBVIOUS
<1>4. Bad = {}
  <2> SUFFICES ASSUME Bad # {} PROVE FALSE
    OBVIOUS
  <2>1. Bad \in SUBSET Nat
    OBVIOUS
  <2>2. PICK i \in Bad : \A j \in Bad : i <= j
    <3> HIDE DEF Bad
    <3> QED BY <2>1, LeastIn
  <2>3. i # 0
    BY <1>1, <1>2, <1>3, <2>2 DEF Sums
  <2>4. i \in 1 .. n /\ i - 1 \in 0 .. n /\ i - 1 \notin Bad
    BY <1>0, <2>2, <2>3
  <2>5. /\ f[i] = f[i - 1] + u[i] /\ g[i] = g[i - 1] + v[i] /\ h[i] = h[i - 1] + w[i]
        /\ f[i - 1] \in Int /\ g[i - 1] \in Int
    BY <1>1, <1>2, <1>3, <2>4 DEF Sums
  <2>6. u[i] \in Int /\ v[i] \in Int /\ w[i] = u[i] + v[i]
    <3>1. i \in 1 .. Len(u) /\ i \in 1 .. Len(v)
      BY <2>4
    <3>2. u[i] \in Int /\ v[i] \in Int
      BY <3>1, ElementOf
    <3>3. w[i] = u[i] + v[i]
      BY <3>1 DEF AddUp
    <3> QED BY <3>2, <3>3
  <2>7. h[i - 1] = f[i - 1] + g[i - 1]
    BY <2>4
  <2>8. h[i] # f[i] + g[i]
    BY <2>2
  <2> QED BY <2>5, <2>6, <2>7, <2>8
<1>5. n \in 0 .. n /\ n \notin Bad
  BY <1>0, <1>4
<1> QED BY <1>1, <1>2, <1>3, <1>5

\* One more element adds itself.
LEMMA TotalAppend ==
    ASSUME NEW v \in Seq(Int), NEW x \in Int
    PROVE  Total(v) \in Int /\ Total(Append(v, x)) = Total(v) + x
<1> DEFINE w == Append(v, x)
           n == Len(v)
<1>0. /\ w \in Seq(Int) /\ n \in Nat /\ Len(w) = n + 1 /\ w[n + 1] = x
      /\ \A i \in 1 .. n : w[i] = v[i]
  OBVIOUS
<1>1. PICK f : Sums(f, v) /\ Total(v) = f[Len(v)]
  BY TotalSums
<1> HIDE DEF w
<1>2. PICK g : Sums(g, w) /\ Total(w) = g[Len(w)]
  BY <1>0, TotalSums
<1> DEFINE Bad == {i \in 0 .. n : g[i] # f[i]}
<1>3. Bad = {}
  <2> SUFFICES ASSUME Bad # {} PROVE FALSE
    OBVIOUS
  <2>1. Bad \in SUBSET Nat
    OBVIOUS
  <2>2. PICK i \in Bad : \A j \in Bad : i <= j
    <3> HIDE DEF Bad
    <3> QED BY <2>1, LeastIn
  <2>3. i # 0
    BY <1>1, <1>2, <2>2 DEF Sums
  <2>4. i \in 1 .. n /\ i \in 1 .. n + 1 /\ i - 1 \in 0 .. n /\ i - 1 \notin Bad
    BY <1>0, <2>2, <2>3
  <2>5. f[i] = f[i - 1] + v[i] /\ g[i] = g[i - 1] + w[i] /\ w[i] = v[i]
    BY <1>0, <1>1, <1>2, <2>4 DEF Sums
  <2> QED BY <2>2, <2>4, <2>5
<1>4. n \in 0 .. n /\ n + 1 \in 1 .. n + 1 /\ n + 1 - 1 = n
  BY <1>0
<1>5. g[n + 1] = g[n] + x /\ g[n] = f[n]
  BY <1>0, <1>2, <1>3, <1>4 DEF Sums
<1>6. f[n] \in Int
  BY <1>0, <1>1, <1>4 DEF Sums
<1> QED BY <1>0, <1>1, <1>2, <1>5, <1>6 DEF w

\* Nothing adds up to nothing.
LEMMA TotalNone == Total(<< >>) = 0
<1>1. << >> \in Seq(Int) /\ Len(<< >>) = 0
  OBVIOUS
<1>2. PICK f : Sums(f, << >>) /\ Total(<< >>) = f[0]
  BY <1>1, TotalSums
<1> QED BY <1>2 DEF Sums

\* What is nowhere negative adds up to what is not.
LEMMA TotalNat ==
    ASSUME NEW v \in Seq(Nat)
    PROVE  Total(v) \in Nat
<1>1. v \in Seq(Int)
  OBVIOUS
<1>2. PICK f : Sums(f, v) /\ Total(v) = f[Len(v)]
  BY <1>1, TotalSums
<1> DEFINE n == Len(v)
           Bad == {i \in 0 .. n : f[i] \notin Nat}
<1>0. n \in Nat
  OBVIOUS
<1>3. Bad = {}
  <2> SUFFICES ASSUME Bad # {} PROVE FALSE
    OBVIOUS
  <2>1. Bad \in SUBSET Nat
    OBVIOUS
  <2>2. PICK i \in Bad : \A j \in Bad : i <= j
    <3> HIDE DEF Bad
    <3> QED BY <2>1, LeastIn
  <2>3. i # 0
    BY <1>2, <2>2 DEF Sums
  <2>4. i \in 1 .. n /\ i - 1 \in 0 .. n /\ i - 1 \notin Bad
    BY <1>0, <2>2, <2>3
  <2>5. f[i - 1] \in Nat /\ v[i] \in Nat /\ f[i] = f[i - 1] + v[i]
    BY <1>2, <2>4 DEF Sums
  <2> QED BY <2>2, <2>5
<1>4. n \in 0 .. n /\ n \notin Bad
  BY <1>0, <1>3
<1> QED BY <1>2, <1>4

FillReasons == {"signal", "stop", "stop_gap", "target", "timeout"}
LotSet == [n : Nat, bought : Nat]
FillSet == [day : Nat, side : {"buy", "sell"}, price : Int, n : Nat, reason : FillReasons]
Positions == [lots : Seq(LotSet), invested : Int, realized : Int]

\* What a position holds, what was bought and sold, and what was held before a day, as
\* operators of the lists.
LotsIn(ls, day, sellable) ==
    Total([i \in 1 .. Len(ls) |-> IF sellable /\ ls[i].bought >= day THEN 0 ELSE ls[i].n])
SideIn(fs, side) == Total([i \in 1 .. Len(fs) |-> IF fs[i].side = side THEN fs[i].n ELSE 0])
HeldIn(fs, day) ==
    Total([i \in 1 .. Len(fs) |-> IF fs[i].day >= day THEN 0
                                  ELSE IF fs[i].side = "buy" THEN fs[i].n ELSE 0 - fs[i].n])

\* Shares are a number.
LEMMA LotsAre ==
    ASSUME NEW ls \in Seq(LotSet), NEW day \in Int, NEW sellable \in BOOLEAN
    PROVE  LotsIn(ls, day, sellable) \in Nat
<1> DEFINE v == [i \in 1 .. Len(ls) |-> IF sellable /\ ls[i].bought >= day THEN 0 ELSE ls[i].n]
<1>1. \A i \in 1 .. Len(ls) : ls[i] \in LotSet
  BY ElementOf
<1>2. v \in Seq(Nat)
  BY <1>1 DEF LotSet
<1> HIDE DEF v
<1>3. Total(v) \in Nat
  BY <1>2, TotalNat
<1> QED BY <1>3 DEF LotsIn, v

\* A list and one more element, as a function.
LEMMA AppendIs ==
    ASSUME NEW S, NEW s \in Seq(S), NEW x \in S
    PROVE  Append(s, x) = [i \in 1 .. Len(s) + 1 |-> IF i = Len(s) + 1 THEN x ELSE s[i]]
<1> DEFINE t == Append(s, x)
           n == Len(s) + 1
<1>1. t \in Seq(S) /\ Len(t) = n /\ n \in Nat
  OBVIOUS
<1>2. t[n] = x /\ \A i \in 1 .. n : i # n => t[i] = s[i]
  OBVIOUS
<1> HIDE DEF t, n
<1>3. t = [i \in 1 .. n |-> t[i]]
  BY <1>1
<1>4. t = [i \in 1 .. n |-> IF i = n THEN x ELSE s[i]]
  BY <1>2, <1>3
<1> QED BY <1>4 DEF t, n

\* One more lot adds its shares, unless it is of the day and cannot be sold.
LEMMA LotsAppend ==
    ASSUME NEW ls \in Seq(LotSet), NEW l \in LotSet, NEW day \in Int, NEW sellable \in BOOLEAN
    PROVE  LotsIn(Append(ls, l), day, sellable) =
               LotsIn(ls, day, sellable) + (IF sellable /\ l.bought >= day THEN 0 ELSE l.n)
<1> DEFINE v == [i \in 1 .. Len(ls) |-> IF sellable /\ ls[i].bought >= day THEN 0 ELSE ls[i].n]
           ms == Append(ls, l)
           w == [i \in 1 .. Len(ms) |-> IF sellable /\ ms[i].bought >= day THEN 0 ELSE ms[i].n]
           x == IF sellable /\ l.bought >= day THEN 0 ELSE l.n
<1>1. \A i \in 1 .. Len(ls) : ls[i] \in LotSet
  BY ElementOf
<1>2. v \in Seq(Int) /\ x \in Int /\ Len(v) = Len(ls)
  BY <1>1 DEF LotSet
<1>3. Len(ms) = Len(ls) + 1 /\ ms[Len(ls) + 1] = l /\ \A i \in 1 .. Len(ls) : ms[i] = ls[i]
  OBVIOUS
<1> HIDE DEF ms
<1>4. w = Append(v, x)
  <2>1. Len(ls) \in Nat
    OBVIOUS
  <2>2. w = [i \in 1 .. Len(ls) + 1 |-> IF i = Len(ls) + 1 THEN x ELSE v[i]]
    BY <1>3, <2>1
  <2> HIDE DEF w, v, x
  <2>3. Append(v, x) = [i \in 1 .. Len(ls) + 1 |-> IF i = Len(ls) + 1 THEN x ELSE v[i]]
    BY <1>2, AppendIs
  <2> QED BY <2>2, <2>3
<1> HIDE DEF w, v, x
<1>5. Total(w) = Total(v) + x
  BY <1>2, <1>4, TotalAppend
<1> QED BY <1>5 DEF LotsIn, v, w, x, ms

\* What was all bought before the day can all be sold.
LEMMA LotsBefore ==
    ASSUME NEW ls \in Seq(LotSet), NEW day \in Int, \A i \in 1 .. Len(ls) : ls[i].bought < day
    PROVE  LotsIn(ls, day, TRUE) = LotsIn(ls, 0, FALSE)
<1>0. \A i \in 1 .. Len(ls) : ls[i] \in LotSet
  BY ElementOf
<1>1. \A i \in 1 .. Len(ls) : ls[i].bought < day /\ ls[i].bought \in Nat
  BY <1>0 DEF LotSet
<1>2. [i \in 1 .. Len(ls) |-> IF TRUE /\ ls[i].bought >= day THEN 0 ELSE ls[i].n]
       = [i \in 1 .. Len(ls) |-> IF FALSE /\ ls[i].bought >= 0 THEN 0 ELSE ls[i].n]
  BY <1>1
<1> QED BY <1>2, Zenon DEF LotsIn

\* The lots that are left after a sale.
LotsLeft(ls, day) == [i \in 1 .. Len(ls) |-> IF ls[i].bought < day THEN [ls[i] EXCEPT !.n = 0] ELSE ls[i]]

\* A sale leaves what could not be sold.
LEMMA LotsSold ==
    ASSUME NEW ls \in Seq(LotSet), NEW day \in Int
    PROVE  /\ LotsLeft(ls, day) \in Seq(LotSet) /\ Len(LotsLeft(ls, day)) = Len(ls)
           /\ \A i \in 1 .. Len(ls) : LotsLeft(ls, day)[i].bought = ls[i].bought
           /\ LotsIn(ls, 0, FALSE) = LotsIn(LotsLeft(ls, day), 0, FALSE) + LotsIn(ls, day, TRUE)
<1> DEFINE ms == LotsLeft(ls, day)
           u == [i \in 1 .. Len(ms) |-> IF FALSE /\ ms[i].bought >= 0 THEN 0 ELSE ms[i].n]
           v == [i \in 1 .. Len(ls) |-> IF TRUE /\ ls[i].bought >= day THEN 0 ELSE ls[i].n]
           w == [i \in 1 .. Len(ls) |-> IF FALSE /\ ls[i].bought >= 0 THEN 0 ELSE ls[i].n]
<1>1. \A i \in 1 .. Len(ls) : ls[i] \in LotSet
  BY ElementOf
<1>2. ASSUME NEW i \in 1 .. Len(ls)
      PROVE  /\ ms[i] \in LotSet /\ ms[i].bought = ls[i].bought
             /\ ms[i].n = IF ls[i].bought < day THEN 0 ELSE ls[i].n
  <2> DEFINE l == ls[i]
  <2>1. l \in LotSet
    BY <1>1
  <2>2. ms[i] = IF l.bought < day THEN [l EXCEPT !.n = 0] ELSE l
    BY DEF LotsLeft
  <2> HIDE DEF l, ms
  <2>3. [l EXCEPT !.n = 0] \in LotSet /\ [l EXCEPT !.n = 0].bought = l.bought /\ [l EXCEPT !.n = 0].n = 0
    BY <2>1 DEF LotSet
  <2>4. ms[i] \in LotSet /\ ms[i].bought = l.bought /\ ms[i].n = IF l.bought < day THEN 0 ELSE l.n
    BY <2>1, <2>2, <2>3
  <2> QED BY <2>4 DEF l
<1>3. ms = [i \in 1 .. Len(ls) |-> ms[i]]
  BY DEF LotsLeft
<1> HIDE DEF ms
<1>4. ms \in Seq(LotSet) /\ Len(ms) = Len(ls)
  BY <1>2, <1>3
<1>5. \A i \in 1 .. Len(ls) : /\ ls[i].n \in Nat /\ ls[i].bought \in Nat
                               /\ ms[i].n \in Nat
  BY <1>1, <1>2 DEF LotSet
<1>6. u \in Seq(Int) /\ v \in Seq(Int) /\ w \in Seq(Int) /\ Len(u) = Len(v) /\ Len(u) = Len(w) /\ Len(u) = Len(ls)
  BY <1>4, <1>5
<1>7. AddUp(u, v, w)
  <2> SUFFICES ASSUME NEW i \in 1 .. Len(u) PROVE w[i] = u[i] + v[i]
    BY DEF AddUp
  <2>1. i \in 1 .. Len(ls)
    BY <1>6
  <2> QED BY <1>2, <1>4, <1>5, <2>1
<1> HIDE DEF u, v, w
<1>8. Total(w) = Total(u) + Total(v)
  BY <1>6, <1>7, TotalPlus
<1>9. LotsIn(ls, 0, FALSE) = LotsIn(ms, 0, FALSE) + LotsIn(ls, day, TRUE)
  BY <1>8 DEF LotsIn, u, v, w
<1> QED BY <1>2, <1>4, <1>9 DEF ms

\* The fills of a list.
LEMMA FillElements ==
    ASSUME NEW fs \in Seq(FillSet)
    PROVE  \A i \in 1 .. Len(fs) : /\ fs[i] \in FillSet /\ fs[i].day \in Nat /\ fs[i].n \in Nat
                                   /\ fs[i].side \in {"buy", "sell"} /\ fs[i].price \in Int
<1>1. \A i \in 1 .. Len(fs) : fs[i] \in FillSet
  BY ElementOf
<1> QED BY <1>1 DEF FillSet

\* What was bought, or sold, is a number.
LEMMA SidesAre ==
    ASSUME NEW fs \in Seq(FillSet), NEW side
    PROVE  SideIn(fs, side) \in Nat
<1> DEFINE v == [i \in 1 .. Len(fs) |-> IF fs[i].side = side THEN fs[i].n ELSE 0]
<1>1. v \in Seq(Nat)
  BY FillElements
<1> HIDE DEF v
<1>2. Total(v) \in Nat
  BY <1>1, TotalNat
<1> QED BY <1>2 DEF SideIn, v

\* One more fill adds to its side.
LEMMA SideAppend ==
    ASSUME NEW fs \in Seq(FillSet), NEW f \in FillSet, NEW side
    PROVE  SideIn(Append(fs, f), side) = SideIn(fs, side) + (IF f.side = side THEN f.n ELSE 0)
<1> DEFINE v == [i \in 1 .. Len(fs) |-> IF fs[i].side = side THEN fs[i].n ELSE 0]
           gs == Append(fs, f)
           w == [i \in 1 .. Len(gs) |-> IF gs[i].side = side THEN gs[i].n ELSE 0]
           x == IF f.side = side THEN f.n ELSE 0
<1>1. v \in Seq(Int) /\ x \in Int /\ Len(v) = Len(fs)
  <2>1. x \in Int
    BY DEF FillSet
  <2>2. v \in Seq(Int) /\ Len(v) = Len(fs)
    BY FillElements
  <2> QED BY <2>1, <2>2
<1>2. Len(gs) = Len(fs) + 1 /\ gs[Len(fs) + 1] = f /\ \A i \in 1 .. Len(fs) : gs[i] = fs[i]
  OBVIOUS
<1> HIDE DEF gs
<1>3. w = Append(v, x)
  <2>1. Len(fs) \in Nat
    OBVIOUS
  <2>2. w = [i \in 1 .. Len(fs) + 1 |-> IF i = Len(fs) + 1 THEN x ELSE v[i]]
    BY <1>2, <2>1
  <2> HIDE DEF w, v, x
  <2>3. Append(v, x) = [i \in 1 .. Len(v) + 1 |-> IF i = Len(v) + 1 THEN x ELSE v[i]]
    <3>1. v \in Seq(Int) /\ x \in Int
      BY <1>1
    <3>2. \A a \in Seq(Int) : \A e \in Int :
             Append(a, e) = [i \in 1 .. Len(a) + 1 |-> IF i = Len(a) + 1 THEN e ELSE a[i]]
      BY AppendIs, Zenon
    <3> QED BY <3>1, <3>2, Zenon
  <2>4. Len(v) = Len(fs)
    BY <1>1
  <2> QED BY <2>2, <2>3, <2>4
<1> HIDE DEF w, v, x
<1>4. Total(w) = Total(v) + x
  BY <1>1, <1>3, TotalAppend
<1> QED BY <1>4 DEF SideIn, v, w, x, gs

\* A fill of a day changes nothing of what was held before it.
LEMMA HeldAppend ==
    ASSUME NEW fs \in Seq(FillSet), NEW f \in FillSet, NEW day \in Nat, f.day >= day
    PROVE  HeldIn(Append(fs, f), day) = HeldIn(fs, day)
<1> DEFINE v == [i \in 1 .. Len(fs) |-> IF fs[i].day >= day THEN 0
                                  ELSE IF fs[i].side = "buy" THEN fs[i].n ELSE 0 - fs[i].n]
           gs == Append(fs, f)
           w == [i \in 1 .. Len(gs) |-> IF gs[i].day >= day THEN 0
                                  ELSE IF gs[i].side = "buy" THEN gs[i].n ELSE 0 - gs[i].n]
<1>1. v \in Seq(Int) /\ Len(v) = Len(fs)
  BY FillElements
<1>2. Len(gs) = Len(fs) + 1 /\ gs[Len(fs) + 1] = f /\ \A i \in 1 .. Len(fs) : gs[i] = fs[i]
  OBVIOUS
<1> HIDE DEF gs
<1>3. w = Append(v, 0)
  <2>1. Len(fs) \in Nat
    OBVIOUS
  <2>2. w = [i \in 1 .. Len(fs) + 1 |-> IF i = Len(fs) + 1 THEN 0 ELSE v[i]]
    BY <1>2, <2>1
  <2> HIDE DEF w, v
  <2>3. Append(v, 0) = [i \in 1 .. Len(fs) + 1 |-> IF i = Len(fs) + 1 THEN 0 ELSE v[i]]
    BY <1>1, AppendIs
  <2> QED BY <2>2, <2>3
<1> HIDE DEF w, v
<1>4. Total(v) \in Int /\ Total(w) = Total(v) + 0
  BY <1>1, <1>3, TotalAppend
<1>5. Total(w) = Total(v)
  BY <1>4
<1> QED BY <1>5 DEF HeldIn, v, w, gs

\* Before a day that has no fill yet, what was bought and not sold was held.
LEMMA HeldAll ==
    ASSUME NEW fs \in Seq(FillSet), NEW day \in Nat, \A i \in 1 .. Len(fs) : fs[i].day < day
    PROVE  HeldIn(fs, day) = SideIn(fs, "buy") - SideIn(fs, "sell")
<1> DEFINE u == [i \in 1 .. Len(fs) |-> IF fs[i].day >= day THEN 0
                                  ELSE IF fs[i].side = "buy" THEN fs[i].n ELSE 0 - fs[i].n]
           v == [i \in 1 .. Len(fs) |-> IF fs[i].side = "sell" THEN fs[i].n ELSE 0]
           w == [i \in 1 .. Len(fs) |-> IF fs[i].side = "buy" THEN fs[i].n ELSE 0]
<1>1. /\ u \in Seq(Int) /\ v \in Seq(Int) /\ w \in Seq(Int)
      /\ Len(u) = Len(v) /\ Len(u) = Len(w) /\ Len(u) = Len(fs)
  BY FillElements
<1>2. AddUp(u, v, w)
  <2> SUFFICES ASSUME NEW i \in 1 .. Len(u) PROVE w[i] = u[i] + v[i]
    BY DEF AddUp
  <2>1. i \in 1 .. Len(fs)
    BY <1>1
  <2> DEFINE n == fs[i].n
             d == fs[i].day
             s == fs[i].side
  <2>2. n \in Nat /\ d \in Nat /\ d < day /\ s \in {"buy", "sell"}
    BY <2>1, FillElements
  <2>3. /\ u[i] = IF d >= day THEN 0 ELSE IF s = "buy" THEN n ELSE 0 - n
        /\ v[i] = IF s = "sell" THEN n ELSE 0
        /\ w[i] = IF s = "buy" THEN n ELSE 0
    BY <2>1
  <2> HIDE DEF n, d, s, u, v, w
  <2> QED BY <2>2, <2>3
<1> HIDE DEF u, v, w
<1>3. Total(w) = Total(u) + Total(v)
  BY <1>1, <1>2, TotalPlus
<1>4. Total(u) = Total(w) - Total(v)
  <2>1. 0 \in Int
    OBVIOUS
  <2>2. Total(u) \in Int
    BY <1>1, <2>1, TotalAppend
  <2>3. Total(v) \in Int
    BY <1>1, <2>1, TotalAppend
  <2> QED BY <1>3, <2>2, <2>3
<1> QED BY <1>4 DEF HeldIn, SideIn, u, v, w

(* Prices. *)

\* The larger of two,
LEMMA MaxOfTwo ==
    ASSUME NEW x \in Int, NEW y \in Int
    PROVE  Max({x, y}) = IF x >= y THEN x ELSE y
<1> DEFINE m == IF x >= y THEN x ELSE y
<1>1. m \in {x, y} /\ \A z \in {x, y} : m >= z
  OBVIOUS
<1>2. \A z \in {x, y} : (\A a \in {x, y} : z >= a) => z = m
  OBVIOUS
<1> HIDE DEF m
<1>3. (CHOOSE z \in {x, y} : \A a \in {x, y} : z >= a) = m
  BY <1>1, <1>2
<1> QED BY <1>3 DEF Max, m

\* and the smaller.
LEMMA MinOfTwo ==
    ASSUME NEW x \in Int, NEW y \in Int
    PROVE  Min({x, y}) = IF x <= y THEN x ELSE y
<1> DEFINE m == IF x <= y THEN x ELSE y
<1>1. m \in {x, y} /\ \A z \in {x, y} : m <= z
  OBVIOUS
<1>2. \A z \in {x, y} : (\A a \in {x, y} : z <= a) => z = m
  OBVIOUS
<1> HIDE DEF m
<1>3. (CHOOSE z \in {x, y} : \A a \in {x, y} : z <= a) = m
  BY <1>1, <1>2
<1> QED BY <1>3 DEF Min, m

\* A position, as operators of its lots.
LEMMA AllOf ==
    ASSUME NEW p \in Positions
    PROVE  /\ p.lots \in Seq(LotSet) /\ p.invested \in Int /\ p.realized \in Int
           /\ All(p) = LotsIn(p.lots, 0, FALSE) /\ All(p) \in Nat
           /\ \A day, sellable : Lots(p, day, sellable) = LotsIn(p.lots, day, sellable)
<1>1. p.lots \in Seq(LotSet) /\ p.invested \in Int /\ p.realized \in Int
  BY DEF Positions
<1>2. \A day, sellable : Lots(p, day, sellable) = LotsIn(p.lots, day, sellable)
  BY DEF Lots, LotsIn
<1>3. LotsIn(p.lots, 0, FALSE) \in Nat
  <2>1. 0 \in Int /\ FALSE \in BOOLEAN
    OBVIOUS
  <2> QED BY <1>1, <2>1, LotsAre
<1> QED BY <1>1, <1>2, <1>3 DEF All

\* The costs, bounds and days are numbers.
LEMMA Numbers == /\ Slip \in Nat /\ Fee \in Nat /\ Limit \in Nat /\ Gap \in Nat /\ Cash \in Nat
                 /\ Horizon \in Nat /\ Loss \in Nat /\ Goal \in Nat /\ Batches \in Nat \ {0}
BY TradeAssumption

\* What a price brings, as a bound on the shares' worth.
LEMMA WorthIs ==
    ASSUME NEW p \in Positions, All(p) # 0, NEW x \in Int, NEW goal \in Int
    PROVE  /\ Needed(p, goal) \in Int
           /\ Reaches(p, x, goal) <=> (100 * All(p)) * x >= Needed(p, goal)
           /\ Loses(p, x) <=> (100 * All(p)) * x <= Needed(p, 0 - Loss)
<1> DEFINE n == All(p)
           a == p.invested
           r == p.realized
<1>1. n \in Nat /\ n # 0 /\ a \in Int /\ r \in Int /\ Fee \in Nat /\ Loss \in Nat
  BY AllOf, Numbers
<1>2. Worth(p, x) = 100 * (r + (x * n - Fee))
  BY <1>1 DEF Worth, proceeds
<1>3. \A g \in Int : Needed(p, g) = a * (100 + g) - 100 * (r - Fee)
  BY DEF Needed
<1>4. Reaches(p, x, goal) <=> Worth(p, x) >= a * (100 + goal)
  BY DEF Reaches
<1>5. Loses(p, x) <=> Worth(p, x) <= a * (100 - Loss)
  BY DEF Loses
<1> DEFINE xn == x * n
           ag == a * (100 + goal)
           al == a * (100 - Loss)
<1>6. xn \in Int /\ ag \in Int /\ al \in Int /\ (100 * n) * x = 100 * xn
  BY <1>1
<1>7. a * (100 + (0 - Loss)) = al
  BY <1>1
<1>8. Needed(p, goal) = ag - 100 * (r - Fee) /\ Needed(p, 0 - Loss) = al - 100 * (r - Fee)
  <2>1. 0 - Loss \in Int
    BY <1>1
  <2> QED BY <1>3, <1>7, <2>1
<1>9. Worth(p, x) = 100 * (r + (xn - Fee))
  BY <1>2
<1> DEFINE product == (100 * n) * x
<1>10. product = 100 * xn
  BY <1>6
<1>11. (Reaches(p, x, goal) <=> Worth(p, x) >= ag) /\ (Loses(p, x) <=> Worth(p, x) <= al)
  BY <1>4, <1>5
<1> HIDE DEF xn, ag, al, product, n, a, r
<1>12. /\ Needed(p, goal) \in Int
       /\ Reaches(p, x, goal) <=> product >= Needed(p, goal)
       /\ Loses(p, x) <=> product <= Needed(p, 0 - Loss)
  BY <1>1, <1>6, <1>8, <1>9, <1>10, <1>11
<1> QED BY <1>12 DEF product, n

\* What a division is.
LEMMA Divided ==
    ASSUME NEW m \in Nat, m # 0, NEW d \in Int
    PROVE  d \div m \in Int /\ m * (d \div m) <= d /\ d < m * (d \div m) + m
OBVIOUS

\* Multiplying keeps the order.
LEMMA LessWhenMultiplied ==
    ASSUME NEW m \in Nat, m # 0, NEW x \in Int, NEW y \in Int
    PROVE  x < y <=> m * x < m * y
OBVIOUS

\* The price sought lies just above those that do not reach the goal.
LEMMA PriceIsLeast ==
    ASSUME NEW p \in Positions, All(p) # 0, NEW x \in Int, NEW goal \in Int
    PROVE  /\ priceFor(p, goal) \in Nat
           /\ Reaches(p, x, goal) => priceFor(p, goal) <= x \/ priceFor(p, goal) = 0
           /\ ~Reaches(p, x, goal) => x < priceFor(p, goal)
<1> DEFINE m == 100 * All(p)
           d == 0 - Needed(p, goal)
           q == d \div m
           k == 0 - q
<1>1. m \in Nat /\ m # 0
  <2>1. All(p) \in Nat
    BY AllOf
  <2> QED BY <2>1
<1>2. d \in Int /\ (Reaches(p, x, goal) <=> m * x >= 0 - d)
  <2>1. Needed(p, goal) \in Int /\ (Reaches(p, x, goal) <=> m * x >= Needed(p, goal))
    BY WorthIs
  <2>2. 0 - d = Needed(p, goal)
    BY <2>1
  <2> HIDE DEF m
  <2> QED BY <2>1, <2>2
<1>3. priceFor(p, goal) = Max({0, k})
  BY DEF priceFor
<1> HIDE DEF m, d
<1>4. q \in Int /\ m * q <= d /\ d < m * q + m
  BY <1>1, <1>2, Divided
<1> HIDE DEF q
<1>5. k \in Int /\ m * (0 - q) = 0 - m * q /\ m * (k - 1) = 0 - m * q - m
  BY <1>1, <1>4
<1>6. Max({0, k}) = IF 0 >= k THEN 0 ELSE k
  BY <1>5, MaxOfTwo
<1>7. ASSUME m * x >= 0 - d PROVE k <= x
  <2> DEFINE y == k - 1
  <2>1. y \in Int /\ m * y < m * x
    <3> DEFINE mx == m * x
               mq == m * q
    <3>1. mx \in Int /\ mq \in Int /\ mx >= 0 - d /\ d < mq + m /\ m * y = 0 - mq - m
      BY <1>1, <1>4, <1>5, <1>7
    <3> HIDE DEF mx, mq
    <3>2. m * y < mx
      BY <1>1, <1>2, <3>1
    <3> QED BY <1>5, <3>2 DEF mx
  <2> HIDE DEF y
  <2>2. y < x
    BY <1>1, <2>1, LessWhenMultiplied
  <2> QED BY <1>5, <2>2 DEF y
<1>8. ASSUME m * x < 0 - d PROVE x < k
  <2>1. m * x < m * k
    <3> DEFINE mx == m * x
               mq == m * q
    <3>1. mx \in Int /\ mq \in Int /\ mx < 0 - d /\ mq <= d /\ m * k = 0 - mq
      BY <1>1, <1>4, <1>5, <1>8
    <3> HIDE DEF mx, mq, k
    <3>2. mx < m * k
      BY <1>1, <1>2, <3>1
    <3> QED BY <3>2 DEF mx
  <2> HIDE DEF k
  <2> QED BY <1>1, <1>5, <2>1, LessWhenMultiplied
<1>9. m * x \in Int
  BY <1>1
<1> DEFINE mx == m * x
           enough == Reaches(p, x, goal)
<1>10. (enough => k <= x) /\ (~enough => x < k)
  <2>1. enough <=> mx >= 0 - d
    BY <1>2
  <2>2. (mx >= 0 - d => k <= x) /\ (mx < 0 - d => x < k)
    BY <1>7, <1>8
  <2> HIDE DEF mx, enough, k
  <2>3. mx \in Int /\ (~(mx >= 0 - d) <=> mx < 0 - d)
    BY <1>2, <1>9 DEF mx
  <2> QED BY <2>1, <2>2, <2>3
<1> HIDE DEF k, enough
<1>11. priceFor(p, goal) = IF 0 >= k THEN 0 ELSE k
  BY <1>3, <1>6
<1>12. /\ priceFor(p, goal) \in Nat
       /\ enough => priceFor(p, goal) <= x \/ priceFor(p, goal) = 0
       /\ ~enough => x < priceFor(p, goal)
  BY <1>5, <1>10, <1>11
<1> QED BY <1>12 DEF enough

\* A stop is a price, and so is what it fills at.
LEMMA StopIsNat ==
    ASSUME NEW p \in Positions, All(p) # 0
    PROVE  stopPrice(p) \in Nat /\ mark(stopPrice(p)) \in Nat
<1> DEFINE m == 100 * All(p)
           d == Needed(p, 0 - Loss)
           k == d \div m + 1
<1>0. Slip \in Nat /\ 0 \in Int /\ Loss \in Nat /\ 0 - Loss \in Int
  BY Numbers
<1>1. m \in Nat /\ m # 0
  <2>1. All(p) \in Nat
    BY AllOf
  <2> QED BY <2>1
<1>2. d \in Int
  BY <1>0, WorthIs
<1>3. stopPrice(p) = Slip + Max({0, k})
  BY DEF stopPrice
<1> HIDE DEF m, d
<1>4. k \in Int
  BY <1>1, <1>2
<1> HIDE DEF k
<1>5. Max({0, k}) = IF 0 >= k THEN 0 ELSE k
  BY <1>4, MaxOfTwo
<1> QED BY <1>0, <1>3, <1>4, <1>5 DEF mark

\* What the trigger fills at, after slippage, stays inside the loss.
LEMMA StopStaysInside ==
    ASSUME NEW p \in Positions, All(p) # 0, NEW x \in Int, x >= mark(stopPrice(p))
    PROVE  stopPrice(p) \in Nat /\ mark(stopPrice(p)) \in Nat /\ ~Loses(p, x)
<1> DEFINE m == 100 * All(p)
           d == Needed(p, 0 - Loss)
           q == d \div m
           k == q + 1
<1>0. Slip \in Nat /\ Loss \in Nat /\ 0 - Loss \in Int
  BY Numbers
<1>1. m \in Nat /\ m # 0
  <2>1. All(p) \in Nat
    BY AllOf
  <2> QED BY <2>1
<1>2. d \in Int /\ (Loses(p, x) <=> m * x <= d)
  BY <1>0, WorthIs
<1>3. stopPrice(p) = Slip + Max({0, k})
  BY DEF stopPrice
<1> HIDE DEF m, d
<1>4. q \in Int /\ m * q <= d /\ d < m * q + m
  BY <1>1, <1>2, Divided
<1> HIDE DEF q
<1>5. k \in Int /\ m * k = m * q + m
  BY <1>1, <1>4
<1>6. Max({0, k}) = IF 0 >= k THEN 0 ELSE k
  BY <1>5, MaxOfTwo
<1> HIDE DEF k
<1>7. stopPrice(p) \in Nat /\ mark(stopPrice(p)) \in Nat /\ k <= mark(stopPrice(p))
  BY <1>0, <1>3, <1>5, <1>6 DEF mark
<1>8. k <= x
  BY <1>5, <1>7
<1>9. ~(x < k) /\ ~(m * x < m * k)
  BY <1>1, <1>5, <1>8, LessWhenMultiplied
<1> DEFINE mx == m * x
           mk == m * k
<1>10. mx \in Int /\ mk \in Int /\ m * q \in Int
  BY <1>1, <1>4, <1>5
<1> HIDE DEF mx, mk
<1>11. ~(mx < mk) /\ d < mk
  BY <1>4, <1>5, <1>9 DEF mx, mk
<1>12. ~(mx <= d)
  BY <1>2, <1>10, <1>11
<1> QED BY <1>2, <1>7, <1>12 DEF mx

LotDays(ls, d) == \A i \in 1 .. Len(ls) : ls[i].bought \in 1 .. d
FillDays(fs, d) == \A i \in 1 .. Len(fs) : fs[i].day \in 1 .. d
BuysBy(fs, day) == \A i \in 1 .. Len(fs) : fs[i].side = "buy" => fs[i].day <= day

\* One conjunct of FillsArePossible.
FillOk(f, had, b, previous) ==
    /\ f.price <= b.high /\ f.price >= b.low - (IF f.reason = "target" THEN Slip ELSE 0)
    /\ f.side = "sell" => f.n <= had /\ ~lockedDown(b, previous)
FillsOk(fs, bs) ==
    \A i \in 1 .. Len(fs) : FillOk(fs[i], HeldIn(fs, fs[i].day), bs[fs[i].day + 1], bs[fs[i].day])

\* What holds of a position, its fills and its stop on day d of the bars bs.
Core(p, fs, stop, reason, d, bs) ==
    /\ p \in Positions /\ fs \in Seq(FillSet)
    /\ LotDays(p.lots, d) /\ FillDays(fs, d) /\ FillsOk(fs, bs)
    /\ All(p) = SideIn(fs, "buy") - SideIn(fs, "sell")
    /\ stop \in 0 .. d /\ reason \in {"stop", "stop_gap"}
    /\ stop = 0 => reason = "stop"
    /\ stop # 0 => BuysBy(fs, stop)

\* A bar's prices are positive and inside its range.
LEMMA BarIs ==
    ASSUME NEW b \in Bars
    PROVE  /\ b.open \in Nat \ {0} /\ b.high \in Nat \ {0} /\ b.low \in Nat \ {0} /\ b.close \in Nat \ {0}
           /\ b.low <= b.open /\ b.open <= b.high /\ b.low <= b.close /\ b.close <= b.high
BY TradeAssumption

\* A new day begins with everything bought before it.
LEMMA CoreNextDay ==
    ASSUME NEW p, NEW fs, NEW stop, NEW reason, NEW bs \in Seq(Bars), NEW b \in Bars,
           Len(bs) # 0, Core(p, fs, stop, reason, Len(bs) - 1, bs)
    PROVE  /\ Core(p, fs, stop, reason, Len(bs), Append(bs, b))
           /\ LotsIn(p.lots, Len(bs), TRUE) = All(p) /\ HeldIn(fs, Len(bs)) = All(p)
           /\ stop < Len(bs)
<1> DEFINE day == Len(bs)
           cs == Append(bs, b)
<1>1. day \in Nat /\ day # 0 /\ \A i \in 1 .. day : cs[i] = bs[i]
  OBVIOUS
<1> HIDE DEF day, cs
<1>2. /\ p \in Positions /\ fs \in Seq(FillSet)
      /\ LotDays(p.lots, day - 1) /\ FillDays(fs, day - 1) /\ FillsOk(fs, bs)
      /\ All(p) = SideIn(fs, "buy") - SideIn(fs, "sell")
      /\ stop \in 0 .. day - 1 /\ reason \in {"stop", "stop_gap"}
      /\ (stop = 0 => reason = "stop") /\ (stop # 0 => BuysBy(fs, stop))
  BY DEF Core, day
<1>3. \A i \in 1 .. Len(p.lots) : p.lots[i].bought \in 1 .. day /\ p.lots[i].bought < day
  BY <1>1, <1>2 DEF LotDays
<1>4. \A i \in 1 .. Len(fs) : fs[i].day \in 1 .. day /\ fs[i].day < day /\ fs[i].day + 1 \in 1 .. day
  BY <1>1, <1>2 DEF FillDays
<1>5. LotsIn(p.lots, day, TRUE) = All(p)
  <2>1. p.lots \in Seq(LotSet) /\ All(p) = LotsIn(p.lots, 0, FALSE) /\ day \in Int
    <3>1. day \in Int
      BY <1>1
    <3> QED BY <1>2, <3>1, AllOf
  <2>2. \A i \in 1 .. Len(p.lots) : p.lots[i].bought < day
    BY <1>3
  <2>3. LotsIn(p.lots, day, TRUE) = LotsIn(p.lots, 0, FALSE)
    BY <2>1, <2>2, LotsBefore
  <2> QED BY <2>1, <2>3
<1>6. HeldIn(fs, day) = All(p)
  <2>1. \A i \in 1 .. Len(fs) : fs[i].day < day
    BY <1>4
  <2>2. HeldIn(fs, day) = SideIn(fs, "buy") - SideIn(fs, "sell")
    BY <1>1, <1>2, <2>1, HeldAll
  <2> QED BY <1>2, <2>2
<1>7. FillsOk(fs, cs)
  <2> SUFFICES ASSUME NEW i \in 1 .. Len(fs)
               PROVE  FillOk(fs[i], HeldIn(fs, fs[i].day), cs[fs[i].day + 1], cs[fs[i].day])
    BY DEF FillsOk
  <2>1. FillOk(fs[i], HeldIn(fs, fs[i].day), bs[fs[i].day + 1], bs[fs[i].day])
    BY <1>2 DEF FillsOk
  <2>2. cs[fs[i].day + 1] = bs[fs[i].day + 1] /\ cs[fs[i].day] = bs[fs[i].day]
    BY <1>1, <1>4
  <2> QED BY <2>1, <2>2
<1>8. LotDays(p.lots, day) /\ FillDays(fs, day)
  BY <1>3, <1>4 DEF LotDays, FillDays
<1>9. stop \in 0 .. day /\ stop < day
  BY <1>1, <1>2
<1>10. Core(p, fs, stop, reason, day, cs)
  BY <1>2, <1>7, <1>8, <1>9 DEF Core
<1> QED BY <1>5, <1>6, <1>9, <1>10 DEF day, cs

\* A further fill of the last day keeps the others possible.
LEMMA FillsAppend ==
    ASSUME NEW fs \in Seq(FillSet), NEW f \in FillSet, NEW day \in Nat, NEW bs,
           day # 0, FillDays(fs, day), f.day = day, FillsOk(fs, bs),
           FillOk(f, HeldIn(fs, day), bs[day + 1], bs[day])
    PROVE  /\ Append(fs, f) \in Seq(FillSet) /\ FillDays(Append(fs, f), day)
           /\ FillsOk(Append(fs, f), bs) /\ HeldIn(Append(fs, f), day) = HeldIn(fs, day)
           /\ Len(Append(fs, f)) = Len(fs) + 1 /\ Append(fs, f)[Len(fs) + 1] = f
<1> DEFINE gs == Append(fs, f)
           n == Len(fs) + 1
<1>1. gs \in Seq(FillSet) /\ Len(gs) = n /\ gs[n] = f /\ n \in Nat
  OBVIOUS
<1>2. \A i \in 1 .. n : i # n => gs[i] = fs[i] /\ i \in 1 .. Len(fs)
  OBVIOUS
<1>3. \A d \in 1 .. day : HeldIn(gs, d) = HeldIn(fs, d)
  <2> TAKE d \in 1 .. day
  <2>1. d \in Nat /\ f.day >= d
    OBVIOUS
  <2> QED BY <2>1, HeldAppend
<1> HIDE DEF gs, n
<1>4. \A i \in 1 .. n : gs[i].day \in 1 .. day
  BY <1>1, <1>2 DEF FillDays
<1>5. ASSUME NEW i \in 1 .. n
      PROVE  FillOk(gs[i], HeldIn(gs, gs[i].day), bs[gs[i].day + 1], bs[gs[i].day])
  <2>1. HeldIn(gs, gs[i].day) = HeldIn(fs, gs[i].day)
    BY <1>3, <1>4
  <2>2. CASE i = n
    <3>1. gs[i] = f /\ gs[i].day = day
      BY <1>1, <2>2
    <3> QED BY <2>1, <3>1
  <2>3. CASE i # n
    <3>1. gs[i] = fs[i] /\ i \in 1 .. Len(fs)
      BY <1>2, <2>3
    <3>2. FillOk(fs[i], HeldIn(fs, fs[i].day), bs[fs[i].day + 1], bs[fs[i].day])
      BY <3>1 DEF FillsOk
    <3> QED BY <2>1, <3>1, <3>2
  <2> QED BY <2>2, <2>3
<1>6. FillsOk(gs, bs) /\ FillDays(gs, day)
  BY <1>1, <1>4, <1>5 DEF FillsOk, FillDays
<1>7. HeldIn(gs, day) = HeldIn(fs, day)
  BY <1>3
<1> QED BY <1>1, <1>6, <1>7 DEF gs, n

SellFill(day, price, n, why) == [day |-> day, side |-> "sell", price |-> price, n |-> n, reason |-> why]

\* What a sale makes of a position.
SoldTo(p, q, day, price) ==
    /\ All(q) = All(p) - Lots(p, day, TRUE)
    /\ q.invested = p.invested
    /\ q.realized = p.realized + proceeds(price, Lots(p, day, TRUE))

\* A sale of what can be sold keeps a trade sound.
LEMMA CoreSell ==
    ASSUME NEW p, NEW fs, NEW stop, NEW reason, NEW day \in Nat, NEW bs, NEW price \in Int, NEW why \in FillReasons,
           day # 0, Core(p, fs, stop, reason, day, bs), Lots(p, day, TRUE) <= HeldIn(fs, day),
           FillOk(SellFill(day, price, Lots(p, day, TRUE), why), HeldIn(fs, day), bs[day + 1], bs[day])
    PROVE  /\ Core(sold(p, day, price), Append(fs, SellFill(day, price, Lots(p, day, TRUE), why)),
                   stop, reason, day, bs)
           /\ SoldTo(p, sold(p, day, price), day, price)
<1> DEFINE n == Lots(p, day, TRUE)
           f == SellFill(day, price, n, why)
           q == sold(p, day, price)
           gs == Append(fs, f)
<1>1. /\ p \in Positions /\ fs \in Seq(FillSet)
      /\ LotDays(p.lots, day) /\ FillDays(fs, day) /\ FillsOk(fs, bs)
      /\ All(p) = SideIn(fs, "buy") - SideIn(fs, "sell")
      /\ stop \in 0 .. day /\ reason \in {"stop", "stop_gap"}
      /\ (stop = 0 => reason = "stop") /\ (stop # 0 => BuysBy(fs, stop))
  BY DEF Core
<1>2. /\ p.lots \in Seq(LotSet) /\ p.invested \in Int /\ p.realized \in Int
      /\ All(p) = LotsIn(p.lots, 0, FALSE) /\ n = LotsIn(p.lots, day, TRUE)
  BY <1>1, AllOf
<1>0. day \in Int /\ TRUE \in BOOLEAN /\ Fee \in Nat
  BY Numbers
<1>3. n \in Nat
  BY <1>0, <1>2, LotsAre
<1>4. f \in FillSet /\ f.day = day /\ f.side = "sell" /\ f.n = n
  BY <1>3 DEF SellFill, FillSet
<1>5. proceeds(price, n) \in Int
  <2> HIDE DEF n
  <2> QED BY <1>0, <1>3 DEF proceeds
<1>6. q = [p EXCEPT !.lots = LotsLeft(p.lots, day), !.realized = p.realized + proceeds(price, n)]
  BY DEF sold, LotsLeft
<1> HIDE DEF q, n, f
<1> DEFINE ls == LotsLeft(p.lots, day)
           r == p.realized + proceeds(price, n)
<1>7. ls \in Seq(LotSet) /\ Len(ls) = Len(p.lots) /\ \A i \in 1 .. Len(p.lots) : ls[i].bought = p.lots[i].bought
  BY <1>0, <1>2, LotsSold
<1>8. LotsIn(p.lots, 0, FALSE) = LotsIn(ls, 0, FALSE) + n
  BY <1>0, <1>2, LotsSold
<1>9. r \in Int
  <2> DEFINE e == proceeds(price, n)
             z == p.realized
  <2>1. e \in Int /\ z \in Int /\ r = z + e
    BY <1>2, <1>5
  <2> HIDE DEF ls, r, e, z
  <2> QED BY <2>1
<1> HIDE DEF ls, r
<1>10. q.lots = ls /\ q.invested = p.invested /\ q.realized = r /\ q \in Positions
  <2>1. q = [p EXCEPT !.lots = ls, !.realized = r]
    BY <1>6 DEF ls, r
  <2> QED BY <1>1, <1>7, <1>9, <2>1 DEF Positions
<1>11. All(q) = All(p) - n
  <2>1. All(q) = LotsIn(ls, 0, FALSE) /\ All(q) \in Nat
    BY <1>10, AllOf
  <2> DEFINE a == LotsIn(ls, 0, FALSE)
             c == LotsIn(p.lots, 0, FALSE)
  <2>2. a \in Nat /\ c = a + n /\ All(q) = a /\ All(p) = c
    BY <1>2, <1>8, <2>1
  <2> HIDE DEF a, c
  <2> QED BY <1>3, <2>2
<1>12. LotDays(q.lots, day)
  BY <1>1, <1>7, <1>10 DEF LotDays
<1>13. /\ gs \in Seq(FillSet) /\ FillDays(gs, day) /\ FillsOk(gs, bs)
       /\ Len(gs) = Len(fs) + 1 /\ gs[Len(fs) + 1] = f
  BY <1>1, <1>4, FillsAppend DEF f, n
<1>14. SideIn(gs, "buy") = SideIn(fs, "buy") /\ SideIn(gs, "sell") = SideIn(fs, "sell") + n
  <2>1. SideIn(gs, "buy") = SideIn(fs, "buy") + (IF f.side = "buy" THEN f.n ELSE 0)
    BY <1>1, <1>4, SideAppend
  <2>2. SideIn(gs, "sell") = SideIn(fs, "sell") + (IF f.side = "sell" THEN f.n ELSE 0)
    BY <1>1, <1>4, SideAppend
  <2>3. SideIn(fs, "buy") \in Nat
    BY <1>1, SidesAre
  <2> HIDE DEF gs
  <2> QED BY <1>4, <2>1, <2>2, <2>3
<1>15. stop # 0 => BuysBy(gs, stop)
  <2> SUFFICES ASSUME stop # 0, NEW i \in 1 .. Len(gs), gs[i].side = "buy" PROVE gs[i].day <= stop
    BY DEF BuysBy
  <2>1. i # Len(fs) + 1
    BY <1>4, <1>13
  <2>2. i \in 1 .. Len(fs) /\ gs[i] = fs[i]
    BY <1>1, <1>13, <2>1
  <2> QED BY <1>1, <2>2 DEF BuysBy
<1> HIDE DEF gs
<1>16. All(q) = SideIn(gs, "buy") - SideIn(gs, "sell")
  <2>1. SideIn(fs, "buy") \in Nat /\ SideIn(fs, "sell") \in Nat
    <3>1. SideIn(fs, "buy") \in Nat
      BY <1>1, SidesAre
    <3>2. SideIn(fs, "sell") \in Nat
      BY <1>1, SidesAre
    <3> QED BY <3>1, <3>2
  <2> QED BY <1>1, <1>3, <1>11, <1>14, <2>1
<1>17. Core(q, gs, stop, reason, day, bs)
  BY <1>1, <1>10, <1>12, <1>13, <1>15, <1>16 DEF Core
<1>18. SoldTo(p, q, day, price)
  BY <1>10, <1>11 DEF SoldTo, r, n
<1> QED BY <1>17, <1>18 DEF q, gs, f, n

BuyFill(day, price, n) == [day |-> day, side |-> "buy", price |-> price, n |-> n, reason |-> "signal"]

\* p with one more lot of the day, for what it cost.
WithLot(p, n, day, cost) ==
    [p EXCEPT !.lots = Append(@, [n |-> n, bought |-> day]), !.invested = @ + cost]

\* What a purchase makes of a position and of its fills.
BoughtTo(p, q, fs, gs, n, day) ==
    /\ All(q) = All(p) + n
    /\ Lots(q, day, TRUE) = Lots(p, day, TRUE) /\ HeldIn(gs, day) = HeldIn(fs, day)

\* So does a purchase, as long as no stop was decided.
LEMMA CoreBuy ==
    ASSUME NEW p, NEW fs, NEW reason, NEW day \in Nat, NEW bs, NEW price \in Int, NEW n \in Nat, NEW cost \in Int,
           day # 0, Core(p, fs, 0, reason, day, bs),
           FillOk(BuyFill(day, price, n), HeldIn(fs, day), bs[day + 1], bs[day])
    PROVE  /\ Core(WithLot(p, n, day, cost), Append(fs, BuyFill(day, price, n)), 0, reason, day, bs)
           /\ BoughtTo(p, WithLot(p, n, day, cost), fs, Append(fs, BuyFill(day, price, n)), n, day)
<1> DEFINE l == [n |-> n, bought |-> day]
           f == BuyFill(day, price, n)
           q == WithLot(p, n, day, cost)
           gs == Append(fs, f)
           ls == Append(p.lots, l)
           c == p.invested + cost
<1>1. /\ p \in Positions /\ fs \in Seq(FillSet)
      /\ LotDays(p.lots, day) /\ FillDays(fs, day) /\ FillsOk(fs, bs)
      /\ All(p) = SideIn(fs, "buy") - SideIn(fs, "sell")
      /\ 0 \in 0 .. day /\ reason \in {"stop", "stop_gap"} /\ (0 = 0 => reason = "stop")
  BY DEF Core
<1>2. /\ p.lots \in Seq(LotSet) /\ p.invested \in Int /\ p.realized \in Int
      /\ All(p) = LotsIn(p.lots, 0, FALSE) /\ Lots(p, day, TRUE) = LotsIn(p.lots, day, TRUE)
      /\ All(p) \in Nat
  BY <1>1, AllOf
<1>0. day \in Int /\ TRUE \in BOOLEAN
  OBVIOUS
<1>3. l \in LotSet /\ l.bought = day /\ l.n = n
  BY DEF LotSet
<1>4. f \in FillSet /\ f.day = day /\ f.side = "buy" /\ f.n = n
  <2>1. "signal" \in FillReasons
    BY DEF FillReasons
  <2>2. "buy" \in {"buy", "sell"}
    OBVIOUS
  <2> QED BY <2>1, <2>2 DEF BuyFill, FillSet
<1>5. q = [p EXCEPT !.lots = ls, !.invested = c]
  BY DEF WithLot
<1>6. /\ ls \in Seq(LotSet) /\ Len(ls) = Len(p.lots) + 1 /\ ls[Len(p.lots) + 1] = l
      /\ \A i \in 1 .. Len(p.lots) : ls[i] = p.lots[i]
  BY <1>2, <1>3
<1>7. c \in Int
  BY <1>2
<1>8. LotsIn(ls, 0, FALSE) = LotsIn(p.lots, 0, FALSE) + n
  <2>1. LotsIn(ls, 0, FALSE) = LotsIn(p.lots, 0, FALSE) + (IF FALSE /\ l.bought >= 0 THEN 0 ELSE l.n)
    <3>1. 0 \in Int /\ FALSE \in BOOLEAN
      OBVIOUS
    <3> HIDE DEF l
    <3> QED BY <1>2, <1>3, <3>1, LotsAppend
  <2> QED BY <1>3, <2>1
<1>9. LotsIn(ls, day, TRUE) = LotsIn(p.lots, day, TRUE)
  <2>1. LotsIn(ls, day, TRUE) = LotsIn(p.lots, day, TRUE) + (IF TRUE /\ l.bought >= day THEN 0 ELSE l.n)
    <3> HIDE DEF l
    <3> QED BY <1>0, <1>2, <1>3, LotsAppend
  <2>2. LotsIn(p.lots, day, TRUE) \in Nat
    BY <1>0, <1>2, LotsAre
  <2> DEFINE a == LotsIn(ls, day, TRUE)
             e == LotsIn(p.lots, day, TRUE)
  <2>3. a = e + (IF TRUE /\ l.bought >= day THEN 0 ELSE l.n) /\ e \in Nat
    BY <2>1, <2>2
  <2> HIDE DEF a, e, l
  <2>4. a = e
    BY <1>3, <2>3
  <2> QED BY <2>4 DEF a, e
<1> HIDE DEF q, f, ls, l, c
<1>10. q.lots = ls /\ q.invested = c /\ q.realized = p.realized /\ q \in Positions
  BY <1>1, <1>5, <1>6, <1>7 DEF Positions
<1>11. All(q) = LotsIn(ls, 0, FALSE) /\ Lots(q, day, TRUE) = LotsIn(ls, day, TRUE)
  BY <1>10, AllOf
<1>12. All(q) = All(p) + n /\ Lots(q, day, TRUE) = Lots(p, day, TRUE)
  BY <1>2, <1>8, <1>9, <1>11
<1>13. LotDays(q.lots, day)
  <2> SUFFICES ASSUME NEW i \in 1 .. Len(ls) PROVE ls[i].bought \in 1 .. day
    BY <1>10 DEF LotDays
  <2>1. CASE i = Len(p.lots) + 1
    BY <1>3, <1>6, <2>1
  <2>2. CASE i # Len(p.lots) + 1
    <3>1. i \in 1 .. Len(p.lots) /\ ls[i] = p.lots[i]
      BY <1>2, <1>6, <2>2
    <3> QED BY <1>1, <3>1 DEF LotDays
  <2> QED BY <2>1, <2>2
<1>14. /\ gs \in Seq(FillSet) /\ FillDays(gs, day) /\ FillsOk(gs, bs)
       /\ HeldIn(gs, day) = HeldIn(fs, day)
  BY <1>1, <1>4, FillsAppend DEF f
<1>15. SideIn(gs, "buy") = SideIn(fs, "buy") + n /\ SideIn(gs, "sell") = SideIn(fs, "sell")
  <2>1. SideIn(gs, "buy") = SideIn(fs, "buy") + (IF f.side = "buy" THEN f.n ELSE 0)
    BY <1>1, <1>4, SideAppend
  <2>2. SideIn(gs, "sell") = SideIn(fs, "sell") + (IF f.side = "sell" THEN f.n ELSE 0)
    BY <1>1, <1>4, SideAppend
  <2>3. SideIn(fs, "sell") \in Nat
    BY <1>1, SidesAre
  <2> HIDE DEF gs
  <2> QED BY <1>4, <2>1, <2>2, <2>3
<1> HIDE DEF gs
<1>16. All(q) = SideIn(gs, "buy") - SideIn(gs, "sell")
  <2>1. SideIn(fs, "buy") \in Nat
    BY <1>1, SidesAre
  <2>2. SideIn(fs, "sell") \in Nat
    BY <1>1, SidesAre
  <2> QED BY <1>1, <1>12, <1>15, <2>1, <2>2
<1>17. Core(q, gs, 0, reason, day, bs)
  BY <1>1, <1>10, <1>13, <1>14, <1>16 DEF Core
<1>18. BoughtTo(p, q, fs, gs, n, day)
  BY <1>12, <1>14 DEF BoughtTo
<1> QED BY <1>17, <1>18 DEF q, gs, f

Statuses == {"entry_skipped", "unresolved", "invalid", "missing_add_context"} \cup Exits
TradeSet == [status : Statuses, p : Positions, filled : Nat, stop : Nat, reason : {"stop", "stop_gap"},
             blockedByT1 : BOOLEAN, over : BOOLEAN, fills : Seq(FillSet)]

TradeOk(t, d, bs) ==
    /\ t \in TradeSet /\ Core(t.p, t.fills, t.stop, t.reason, d, bs)
    /\ t.status \in Exits <=> t.filled > 0 /\ All(t.p) = 0
    /\ StopIsBounded(t)

PriceOk(price, b, why) == price <= b.high /\ price >= b.low - (IF why = "target" THEN Slip ELSE 0)

\* What can be sold is a number.
LEMMA LotsSellable ==
    ASSUME NEW p \in Positions, NEW day \in Nat
    PROVE  Lots(p, day, TRUE) \in Nat
<1>1. p.lots \in Seq(LotSet) /\ Lots(p, day, TRUE) = LotsIn(p.lots, day, TRUE)
  BY AllOf
<1>2. day \in Int /\ TRUE \in BOOLEAN
  OBVIOUS
<1>3. LotsIn(p.lots, day, TRUE) \in Nat
  BY <1>1, <1>2, LotsAre
<1> QED BY <1>1, <1>3

\* A list and one more element are a list.
LEMMA AppendIn ==
    ASSUME NEW S, NEW s \in Seq(S), NEW x \in S
    PROVE  Append(s, x) \in Seq(S)
OBVIOUS

\* Sold out inside the loss.
LEMMA LossInside ==
    ASSUME NEW p \in Positions, NEW q \in Positions, NEW x \in Int, All(p) # 0, All(q) = 0,
           q.invested = p.invested, q.realized = p.realized + proceeds(x, All(p)), x >= mark(stopPrice(p))
    PROVE  ~Loses(q, 0)
<1>1. ~Loses(p, x)
  BY StopStaysInside
<1>2. Worth(q, 0) = 100 * (q.realized + 0)
  BY DEF Worth, proceeds
<1>3. Worth(p, x) = 100 * (p.realized + proceeds(x, All(p)))
  BY DEF Worth
<1>4. q.realized \in Int
  BY DEF Positions
<1> DEFINE z == p.realized + proceeds(x, All(p))
<1>5. Worth(p, x) = 100 * z /\ q.realized = z /\ Worth(q, 0) = 100 * (z + 0)
  BY <1>2, <1>3
<1> HIDE DEF z
<1>6. Worth(p, x) = Worth(q, 0)
  BY <1>4, <1>5
<1> QED BY <1>1, <1>6 DEF Loses

\* Whether a trade is over says nothing of what it holds.
LEMMA OverOnly ==
    ASSUME NEW t, NEW d, NEW bs, NEW over \in BOOLEAN, TradeOk(t, d, bs)
    PROVE  /\ TradeOk([t EXCEPT !.over = over], d, bs)
           /\ [t EXCEPT !.over = over].over = over
           /\ [t EXCEPT !.over = over].filled = t.filled /\ [t EXCEPT !.over = over].p = t.p
<1> DEFINE o == [t EXCEPT !.over = over]
<1>1. t \in TradeSet
  BY DEF TradeOk
<1>2. /\ o \in TradeSet /\ o.over = over
      /\ o.p = t.p /\ o.fills = t.fills /\ o.stop = t.stop /\ o.reason = t.reason
      /\ o.status = t.status /\ o.filled = t.filled /\ o.blockedByT1 = t.blockedByT1
  BY <1>1 DEF TradeSet
<1> HIDE DEF o
<1>3. TradeOk(o, d, bs)
  BY <1>2 DEF TradeOk, StopIsBounded
<1> QED BY <1>2, <1>3 DEF o

\* What a sale that may end the trade needs.
Sellable(t, b, day, bs, price, why) ==
    /\ t \in TradeSet /\ Core(t.p, t.fills, t.stop, t.reason, day, bs)
    /\ t.filled > 0 /\ All(t.p) # 0 /\ ~t.over /\ t.status \notin Exits
    /\ Lots(t.p, day, TRUE) <= HeldIn(t.fills, day)
    /\ b = bs[day + 1] /\ ~lockedDown(b, bs[day]) /\ PriceOk(price, b, why)
    /\ why = "stop" /\ t.stop = day /\ Lots(t.p, day, TRUE) = All(t.p) => price >= mark(stopPrice(t.p))

\* o is t with what was sold.
SoldAs(t, o, day, price, why) ==
    /\ o \in TradeSet /\ o.p = sold(t.p, day, price)
    /\ o.fills = Append(t.fills, SellFill(day, price, Lots(t.p, day, TRUE), why))
    /\ o.status = t.status /\ o.filled = t.filled /\ o.stop = t.stop /\ o.reason = t.reason
    /\ o.blockedByT1 = t.blockedByT1 /\ o.over = t.over

\* A sale changes the position and the fills.
LEMMA SellIs ==
    ASSUME NEW t \in TradeSet, NEW b, NEW day \in Nat, NEW price \in Int, NEW why \in Exits,
           Lots(t.p, day, TRUE) # 0, sold(t.p, day, price) \in Positions
    PROVE  SoldAs(t, Sell(t, b, day, price, why), day, price, why)
<1> DEFINE n == Lots(t.p, day, TRUE)
           f == SellFill(day, price, n, why)
           gs == Append(t.fills, f)
           q == sold(t.p, day, price)
           o == [t EXCEPT !.p = q, !.fills = gs]
<1>1. t.p \in Positions /\ t.fills \in Seq(FillSet)
  BY DEF TradeSet
<1>2. n \in Nat
  BY <1>1, LotsSellable
<1>3. why \in FillReasons
  BY DEF FillReasons, Exits
<1>4. f \in FillSet
  <2> HIDE DEF n
  <2> QED BY <1>2, <1>3 DEF SellFill, FillSet
<1>5. gs \in Seq(FillSet)
  BY <1>1, <1>4, AppendIn
<1>6. Sell(t, b, day, price, why) = o
  BY Zenon DEF Sell, SellFill
<1> HIDE DEF n, f, gs, q
<1>7. /\ o \in TradeSet /\ o.p = q /\ o.fills = gs
      /\ o.status = t.status /\ o.filled = t.filled /\ o.stop = t.stop /\ o.reason = t.reason
      /\ o.blockedByT1 = t.blockedByT1 /\ o.over = t.over
  <2>1. q \in Positions
    BY DEF q
  <2> QED BY <1>5, <2>1 DEF TradeSet
<1>8. SoldAs(t, o, day, price, why)
  BY <1>7 DEF SoldAs, gs, q, f, n
<1> QED BY <1>6, <1>8 DEF gs, q, f, n

\* An ending changes the status.
LEMMA SoldOutIs ==
    ASSUME NEW t \in TradeSet, NEW why \in Exits
    PROVE  LET o == SoldOut(t, why) IN
           /\ o \in TradeSet /\ o.p = t.p /\ o.fills = t.fills
           /\ o.filled = t.filled /\ o.stop = t.stop /\ o.reason = t.reason /\ o.blockedByT1 = t.blockedByT1
           /\ o.status = (IF All(t.p) = 0 THEN why ELSE t.status)
           /\ o.over = (IF All(t.p) = 0 THEN TRUE ELSE t.over)
<1> DEFINE o == [t EXCEPT !.status = why, !.over = TRUE]
<1>1. why \in Statuses
  BY DEF Statuses
<1>2. /\ o \in TradeSet /\ o.p = t.p /\ o.fills = t.fills
      /\ o.filled = t.filled /\ o.stop = t.stop /\ o.reason = t.reason /\ o.blockedByT1 = t.blockedByT1
      /\ o.status = why /\ o.over = TRUE
  BY <1>1 DEF TradeSet
<1>3. SoldOut(t, why) = IF All(t.p) = 0 THEN o ELSE t
  BY DEF SoldOut
<1> HIDE DEF o
<1>4. CASE All(t.p) = 0
  BY <1>2, <1>3, <1>4
<1>5. CASE All(t.p) # 0
  BY <1>3, <1>5
<1> QED BY <1>4, <1>5

\* What such a sale leaves.
Closed(t, o, day, bs) ==
    /\ TradeOk(o, day, bs) /\ o.filled > 0 /\ (o.over <=> All(o.p) = 0)
    /\ Lots(t.p, day, TRUE) = All(t.p) => o.over

\* A sale that may end the trade leaves it sound, and over if nothing is left.
LEMMA Closing ==
    ASSUME NEW t, NEW b, NEW day \in Nat, NEW bs, NEW price \in Int, NEW why \in Exits,
           day # 0, Sellable(t, b, day, bs, price, why)
    PROVE  Closed(t, SoldOut(Sell(t, b, day, price, why), why), day, bs)
<1> DEFINE n == Lots(t.p, day, TRUE)
           f == SellFill(day, price, n, why)
           gs == Append(t.fills, f)
           q == sold(t.p, day, price)
           s == Sell(t, b, day, price, why)
           o == SoldOut(s, why)
<1>1. /\ t \in TradeSet /\ Core(t.p, t.fills, t.stop, t.reason, day, bs)
      /\ t.filled > 0 /\ All(t.p) # 0 /\ ~t.over /\ t.status \notin Exits
      /\ n <= HeldIn(t.fills, day)
      /\ b = bs[day + 1] /\ ~lockedDown(b, bs[day]) /\ PriceOk(price, b, why)
      /\ why = "stop" /\ t.stop = day /\ n = All(t.p) => price >= mark(stopPrice(t.p))
  BY DEF Sellable
<1>2. t.p \in Positions /\ t.fills \in Seq(FillSet) /\ t.over \in BOOLEAN /\ All(t.p) \in Nat
  <2>1. t.p \in Positions
    BY <1>1 DEF TradeSet
  <2> QED BY <1>1, <2>1, AllOf DEF TradeSet
<1>3. CASE n = 0
  <2>1. s = t
    BY <1>3 DEF Sell
  <2>2. o = t
    BY <1>1, <2>1 DEF SoldOut
  <2>3. StopIsBounded(t)
    BY <1>1 DEF StopIsBounded, Exits
  <2>4. TradeOk(t, day, bs)
    BY <1>1, <2>3 DEF TradeOk
  <2> HIDE DEF o, n
  <2>5. TradeOk(o, day, bs) /\ o.filled > 0 /\ (o.over <=> All(o.p) = 0) /\ (n = All(t.p) => o.over)
    BY <1>1, <1>3, <2>2, <2>4
  <2> QED BY <2>5 DEF Closed, o, n
<1>4. CASE n # 0
  <2>1. why \in FillReasons
    BY DEF FillReasons, Exits
  <2>2. FillOk(f, HeldIn(t.fills, day), bs[day + 1], bs[day])
    <3> HIDE DEF n
    <3> QED BY <1>1 DEF FillOk, SellFill, PriceOk
  <2>3. /\ Core(q, gs, t.stop, t.reason, day, bs)
        /\ All(q) = All(t.p) - n
        /\ q.invested = t.p.invested
        /\ q.realized = t.p.realized + proceeds(price, n)
    <3>1. Core(q, gs, t.stop, t.reason, day, bs)
      BY <1>1, <2>1, <2>2, CoreSell
    <3>2. SoldTo(t.p, q, day, price)
      BY <1>1, <2>1, <2>2, CoreSell
    <3> QED BY <3>1, <3>2 DEF SoldTo
  <2>4. q \in Positions
    BY <2>3 DEF Core
  <2> HIDE DEF n, q
  <2>5. /\ s \in TradeSet /\ s.p = q /\ s.fills = gs
        /\ s.status = t.status /\ s.filled = t.filled /\ s.stop = t.stop /\ s.reason = t.reason
        /\ s.blockedByT1 = t.blockedByT1 /\ s.over = t.over
    <3>1. SoldAs(t, s, day, price, why)
      BY <1>1, <1>4, <2>4, SellIs DEF n, q
    <3> QED BY <3>1 DEF SoldAs, n, q
  <2> HIDE DEF s
  <2>6. /\ o \in TradeSet /\ o.p = s.p /\ o.fills = s.fills
        /\ o.filled = s.filled /\ o.stop = s.stop /\ o.reason = s.reason /\ o.blockedByT1 = s.blockedByT1
        /\ o.status = (IF All(s.p) = 0 THEN why ELSE s.status)
        /\ o.over = (IF All(s.p) = 0 THEN TRUE ELSE s.over)
    BY <2>5, SoldOutIs
  <2> HIDE DEF o
  <2>7. /\ o \in TradeSet /\ o.p = q /\ o.fills = gs /\ o.filled = t.filled
        /\ o.stop = t.stop /\ o.reason = t.reason /\ o.blockedByT1 = t.blockedByT1
        /\ o.status = (IF All(q) = 0 THEN why ELSE t.status)
        /\ o.over = (IF All(q) = 0 THEN TRUE ELSE FALSE)
    BY <1>1, <1>2, <2>5, <2>6
  <2>8. Last(gs).day = day
    <3>1. f \in FillSet /\ f.day = day
      <4>1. f.day = day
        BY DEF SellFill
      <4>2. n \in Nat
        BY <1>2, LotsSellable DEF n
      <4>3. f \in FillSet
        BY <2>1, <4>2 DEF SellFill, FillSet
      <4> QED BY <4>1, <4>3
    <3> HIDE DEF f
    <3>2. Last(gs) = f
      BY <1>2, <3>1 DEF Last
    <3> QED BY <3>1, <3>2
  <2> HIDE DEF gs
  <2>9. StopIsBounded(o)
    <3> SUFFICES ASSUME o.status = "stop", Last(o.fills).day = o.stop PROVE ~Loses(o.p, 0)
      BY DEF StopIsBounded
    <3>1. All(q) = 0 /\ why = "stop"
      BY <1>1, <2>7 DEF Exits
    <3>2. n = All(t.p)
      <4>1. n \in Nat
        BY <1>2, LotsSellable DEF n
      <4> QED BY <1>2, <2>3, <3>1, <4>1
    <3>3. t.stop = day
      BY <2>7, <2>8
    <3>4. price >= mark(stopPrice(t.p))
      BY <1>1, <3>1, <3>2, <3>3
    <3>5. q.realized = t.p.realized + proceeds(price, All(t.p))
      BY <2>3, <3>2
    <3>6. ~Loses(q, 0)
      BY <1>1, <1>2, <2>3, <2>4, <3>1, <3>4, <3>5, LossInside
    <3> QED BY <2>7, <3>6
  <2>10. o.status \in Exits <=> o.filled > 0 /\ All(o.p) = 0
    BY <1>1, <2>7
  <2>11. TradeOk(o, day, bs)
    BY <2>3, <2>7, <2>9, <2>10 DEF TradeOk
  <2>12. n = All(t.p) => All(q) = 0
    BY <1>2, <2>3
  <2>13. o.filled > 0 /\ (o.over <=> All(o.p) = 0) /\ (n = All(t.p) => o.over)
    BY <1>1, <2>7, <2>12
  <2> QED BY <2>11, <2>13 DEF Closed, o, s, n
<1> QED BY <1>3, <1>4

\* A day that is past its opening price, with nothing decided.
OpenPassed(p, b, previous) ==
    /\ Loss > 0 => b.open > stopPrice(p)
    /\ ~lockedDown(b, previous) => ~Reaches(p, mark(b.open), Goal)

\* A market order fills inside the day's range.
LEMMA FillAtMarket ==
    ASSUME NEW b \in Bars, NEW x \in Int, x <= b.high, NEW why
    PROVE  /\ marketFill(b, x) \in Int /\ PriceOk(marketFill(b, x), b, why)
           /\ marketFill(b, x) \in b.low .. b.high /\ marketFill(b, x) >= mark(x)
<1>1. b.low \in Int /\ b.high \in Int /\ b.low <= b.high /\ Slip \in Nat
  BY BarIs, Numbers
<1> DEFINE l == b.low
           h == b.high
           m == mark(x)
           z == marketFill(b, x)
<1>2. m \in Int /\ m <= x
  BY <1>1 DEF mark
<1>3. z = Max({l, m})
  BY DEF marketFill
<1>4. l \in Int /\ h \in Int /\ l <= h /\ x <= h
  BY <1>1
<1> HIDE DEF l, h, m, z
<1>5. z = IF l >= m THEN l ELSE m
  BY <1>2, <1>3, <1>4, MaxOfTwo
<1>6. z \in Int /\ z <= h /\ z >= l /\ z >= m
  BY <1>2, <1>4, <1>5
<1>7. PriceOk(z, b, why)
  BY <1>1, <1>4, <1>6 DEF PriceOk, l, h
<1> QED BY <1>4, <1>6, <1>7 DEF l, h, m, z

\* A trade at the start of day, with what it holds.
Holding(t, day, bs) ==
    /\ TradeOk(t, day, bs) /\ ~t.over /\ t.stop < day
    /\ Lots(t.p, day, TRUE) = All(t.p) /\ HeldIn(t.fills, day) = All(t.p)

\* The parts of a trade.
LEMMA TradeParts ==
    ASSUME NEW t, NEW d, NEW bs, TradeOk(t, d, bs)
    PROVE  /\ t \in TradeSet /\ t.p \in Positions /\ t.fills \in Seq(FillSet) /\ t.stop \in Nat
           /\ t.filled \in Nat /\ t.over \in BOOLEAN /\ t.reason \in {"stop", "stop_gap"}
           /\ t.blockedByT1 \in BOOLEAN /\ t.status \in Statuses
           /\ Core(t.p, t.fills, t.stop, t.reason, d, bs) /\ All(t.p) \in Nat
<1>1. t \in TradeSet /\ Core(t.p, t.fills, t.stop, t.reason, d, bs)
  BY DEF TradeOk
<1>2. t.p \in Positions
  BY <1>1 DEF TradeSet
<1>3. All(t.p) \in Nat
  BY <1>2, AllOf
<1> QED BY <1>1, <1>2, <1>3 DEF TradeSet

\* What the opening may have done.
Opened(t, o, b, previous, day, bs) ==
    /\ o.over => TradeOk(o, day, bs) /\ o.filled > 0
    /\ ~o.over => o = t /\ t.stop = 0 /\ OpenPassed(t.p, b, previous)

\* After the opening the trade's day is over, or nothing has happened and the opening
\* price was neither at the stop nor at the target.
LEMMA AtOpenIs ==
    ASSUME NEW t, NEW b \in Bars, NEW previous, NEW day \in Nat, NEW bs,
           day # 0, b = bs[day + 1], previous = bs[day],
           Holding(t, day, bs), t.filled > 0, All(t.p) # 0
    PROVE  Opened(t, AtOpen(t, b, previous, day), b, previous, day, bs)
<1> DEFINE gapped == t.stop = 0 /\ Loss > 0 /\ b.open <= stopPrice(t.p)
           marked == [t EXCEPT !.stop = day, !.reason = "stop_gap"]
           after == IF gapped THEN marked ELSE t
           free == ~lockedDown(b, previous)
           o == AtOpen(t, b, previous, day)
<1>1. /\ TradeOk(t, day, bs) /\ ~t.over /\ t.stop < day
      /\ Lots(t.p, day, TRUE) = All(t.p) /\ HeldIn(t.fills, day) = All(t.p)
  BY DEF Holding
<1>2. /\ t \in TradeSet /\ t.p \in Positions /\ t.fills \in Seq(FillSet) /\ t.stop \in Nat
      /\ t.filled \in Nat /\ t.over \in BOOLEAN /\ t.reason \in {"stop", "stop_gap"}
      /\ Core(t.p, t.fills, t.stop, t.reason, day, bs) /\ All(t.p) \in Nat
  BY <1>1, TradeParts
<1>3. t.status \notin Exits /\ StopIsBounded(t)
  BY <1>1 DEF TradeOk
<1>4. /\ marked \in TradeSet /\ marked.p = t.p /\ marked.fills = t.fills /\ marked.status = t.status
      /\ marked.filled = t.filled /\ marked.over = t.over /\ marked.stop = day /\ marked.reason = "stop_gap"
      /\ marked.blockedByT1 = t.blockedByT1
  BY <1>2 DEF TradeSet
<1>5. BuysBy(t.fills, day)
  BY <1>2 DEF Core, FillDays, BuysBy
<1>6. Core(t.p, t.fills, day, "stop_gap", day, bs)
  BY <1>2, <1>5 DEF Core
<1> HIDE DEF marked
<1>7. marketFill(b, b.open) \in Int /\ \A why : PriceOk(marketFill(b, b.open), b, why)
  <2>1. b.open \in Int /\ b.open <= b.high
    BY BarIs
  <2> QED BY <2>1, FillAtMarket
<1>8. /\ after \in TradeSet /\ after.p = t.p /\ after.fills = t.fills /\ after.status = t.status
      /\ after.filled = t.filled /\ after.over = t.over /\ after.blockedByT1 = t.blockedByT1
      /\ Core(after.p, after.fills, after.stop, after.reason, day, bs)
      /\ after.reason = "stop" => after.stop < day
  <2>1. CASE gapped
    <3>1. after = marked
      BY <2>1
    <3> HIDE DEF after
    <3> QED BY <1>2, <1>4, <1>6, <3>1
  <2>2. CASE ~gapped
    <3>1. after = t
      BY <2>2
    <3> HIDE DEF after
    <3> QED BY <1>1, <1>2, <3>1
  <2> QED BY <2>1, <2>2
<1>9. after.reason \in Exits
  <2>1. after.reason \in {"stop", "stop_gap"}
    BY <1>8 DEF Core
  <2> QED BY <2>1 DEF Exits
<1>10. CASE after.stop # 0
  <2> DEFINE s == IF free THEN Sell(after, b, day, marketFill(b, b.open), after.reason) ELSE after
             c == SoldOut(s, after.reason)
  <2>1. o = [c EXCEPT !.over = TRUE]
    BY <1>10, Zenon DEF AtOpen, marked
  <2>2. TradeOk(c, day, bs) /\ c.filled > 0
    <3>1. CASE free
      <4>1. Sellable(after, b, day, bs, marketFill(b, b.open), after.reason)
        <5>1. HeldIn(after.fills, day) = Lots(after.p, day, TRUE) /\ Lots(after.p, day, TRUE) \in Nat
          BY <1>1, <1>2, <1>8
        <5>2. after.filled > 0 /\ All(after.p) # 0 /\ ~after.over /\ after.status \notin Exits
          BY <1>1, <1>3, <1>8
        <5>3. ~lockedDown(b, bs[day])
          BY <3>1
        <5>4. ~(after.reason = "stop" /\ after.stop = day)
          <6> DEFINE st == after.stop
          <6>1. st \in Int
            BY <1>8 DEF Core
          <6>2. after.reason = "stop" => st < day
            BY <1>8
          <6> HIDE DEF after, st
          <6>3. ~(after.reason = "stop" /\ st = day)
            BY <6>1, <6>2
          <6> QED BY <6>3 DEF st
        <5>5. Lots(after.p, day, TRUE) <= HeldIn(after.fills, day)
          <6> DEFINE lo == Lots(after.p, day, TRUE)
                     hi == HeldIn(after.fills, day)
          <6>1. hi = lo /\ lo \in Nat
            BY <5>1
          <6> HIDE DEF after, lo, hi
          <6>2. lo <= hi
            BY <6>1
          <6> QED BY <6>2 DEF lo, hi
        <5> DEFINE x == marketFill(b, b.open)
        <5>6. PriceOk(x, b, after.reason)
          BY <1>7
        <5> HIDE DEF after, x
        <5>7. Sellable(after, b, day, bs, x, after.reason)
          BY <1>8, <5>2, <5>3, <5>4, <5>5, <5>6 DEF Sellable
        <5> QED BY <5>7 DEF x
      <4>2. c = SoldOut(Sell(after, b, day, marketFill(b, b.open), after.reason), after.reason)
        BY <3>1
      <4> HIDE DEF c, after
      <4>3. Closed(after, c, day, bs)
        BY <1>7, <1>9, <4>1, <4>2, Closing
      <4> QED BY <4>3 DEF Closed
    <3>2. CASE ~free
      <4>1. c = after
        BY <1>8, <3>2 DEF SoldOut
      <4>2. StopIsBounded(after)
        BY <1>3, <1>8 DEF StopIsBounded, Exits
      <4>3. TradeOk(after, day, bs)
        <5> HIDE DEF after
        <5> QED BY <1>3, <1>8, <4>2 DEF TradeOk
      <4> HIDE DEF c, after
      <4> QED BY <1>8, <4>1, <4>3
    <3> QED BY <3>1, <3>2
  <2> HIDE DEF c, after, o
  <2>3. o.over = TRUE /\ o.filled = c.filled /\ TradeOk(o, day, bs)
    BY <2>1, <2>2, OverOnly
  <2>4. Opened(t, o, b, previous, day, bs)
    BY <2>2, <2>3 DEF Opened
  <2> QED BY <2>4 DEF o
<1>11. CASE after.stop = 0
  <2>1. ~gapped /\ after = t /\ t.stop = 0
    <3>1. CASE gapped
      BY <1>4, <1>11, <3>1
    <3>2. CASE ~gapped
      BY <1>11, <3>2
    <3> QED BY <3>1, <3>2
  <2>2. CASE free /\ Reaches(t.p, mark(b.open), Goal)
    <3>1. o = SoldOut(Sell(t, b, day, marketFill(b, b.open), "target"), "target")
      BY <1>1, <1>11, <2>1, <2>2 DEF AtOpen
    <3>2. Sellable(t, b, day, bs, marketFill(b, b.open), "target")
      <4>1. Lots(t.p, day, TRUE) <= HeldIn(t.fills, day)
        <5> DEFINE lo == Lots(t.p, day, TRUE)
                   hi == HeldIn(t.fills, day)
        <5>1. hi = lo /\ lo \in Nat
          BY <1>1, <1>2
        <5> HIDE DEF lo, hi
        <5>2. lo <= hi
          BY <5>1
        <5> QED BY <5>2 DEF lo, hi
      <4>2. ~lockedDown(b, bs[day])
        BY <2>2
      <4> QED BY <1>1, <1>2, <1>3, <1>7, <4>1, <4>2 DEF Sellable
    <3>3. "target" \in Exits
      BY DEF Exits
    <3> HIDE DEF o
    <3>4. Closed(t, o, day, bs)
      BY <1>7, <3>1, <3>2, <3>3, Closing
    <3>5. Opened(t, o, b, previous, day, bs)
      BY <1>1, <3>4 DEF Closed, Opened
    <3> QED BY <3>5 DEF o
  <2>3. CASE ~(free /\ Reaches(t.p, mark(b.open), Goal))
    <3>1. o = t
      BY <1>1, <1>11, <2>1, <2>3 DEF AtOpen
    <3>2. OpenPassed(t.p, b, previous)
      <4>1. Loss > 0 => ~(b.open <= stopPrice(t.p))
        BY <2>1
      <4>2. stopPrice(t.p) \in Nat /\ b.open \in Nat /\ Loss \in Nat
        <5>1. mark(stopPrice(t.p)) \in Int /\ stopPrice(t.p) \in Nat
          BY <1>2, StopIsNat
        <5> QED BY <5>1, BarIs, Numbers
      <4>3. Loss > 0 => b.open > stopPrice(t.p)
        BY <4>1, <4>2
      <4> QED BY <2>3, <4>3 DEF OpenPassed
    <3> HIDE DEF o
    <3>3. Opened(t, o, b, previous, day, bs)
      BY <1>1, <2>1, <3>1, <3>2 DEF Opened
    <3> QED BY <3>3 DEF o
  <2> QED BY <2>2, <2>3
<1> QED BY <1>10, <1>11

\* What the rest of a day finds.
Undecided(t, b, previous, day, bs) ==
    /\ TradeOk(t, day, bs) /\ ~t.over /\ t.stop = 0 /\ t.filled > 0 /\ All(t.p) # 0
    /\ Lots(t.p, day, TRUE) <= HeldIn(t.fills, day)
    /\ Lots(t.p, day, TRUE) = All(t.p) => OpenPassed(t.p, b, previous)

\* The shares a budget pays for.
LEMMA SharesAre ==
    ASSUME NEW budget \in Int, NEW price \in Nat, price # 0
    PROVE  shares(budget, price) \in Nat
<1>1. Fee \in Nat
  BY Numbers
<1> DEFINE d == budget - Fee
<1>2. CASE budget < price + Fee
  BY <1>2 DEF shares
<1>3. CASE ~(budget < price + Fee)
  <2>1. d \in Nat /\ d >= price
    BY <1>1, <1>3
  <2>2. shares(budget, price) = d \div price
    BY <1>3 DEF shares
  <2> HIDE DEF d
  <2>3. d \div price \in Nat
    BY <2>1
  <2> QED BY <2>2, <2>3
<1> QED BY <1>2, <1>3

\* The last element is the one that was added.
LEMMA LastAppended ==
    ASSUME NEW S, NEW s \in Seq(S), NEW x \in S
    PROVE  Last(Append(s, x)) = x
BY DEF Last

\* Nothing is bought, or a lot that cannot be sold on the day.
LEMMA BuyingIs ==
    ASSUME NEW t, NEW b \in Bars, NEW previous \in Bars, NEW day \in Nat, NEW bs,
           day # 0, b = bs[day + 1], previous = bs[day],
           Holding(t, day, bs), t.stop = 0, t.filled = 0 \/ All(t.p) # 0
    PROVE  \/ Buying(t, b, previous, day) = t
           \/ Undecided(Buying(t, b, previous, day), b, previous, day, bs)
<1> DEFINE price == b.open + Slip
           budget == Min({Cash \div Batches, Cash - t.p.invested})
           n == shares(budget, price)
           cost == purchaseCost(price, n)
           p == bought(t.p, b, day, budget)
           q == WithLot(t.p, n, day, cost)
           f == BuyFill(day, price, n)
           gs == Append(t.fills, f)
           st == IF t.filled = 0 THEN "unresolved" ELSE t.status
           full == t.filled + 1
           o == Buying(t, b, previous, day)
<1>1. /\ TradeOk(t, day, bs) /\ ~t.over /\ t.stop < day
      /\ Lots(t.p, day, TRUE) = All(t.p) /\ HeldIn(t.fills, day) = All(t.p)
  BY DEF Holding
<1>2. /\ t \in TradeSet /\ t.p \in Positions /\ t.fills \in Seq(FillSet) /\ t.stop \in Nat
      /\ t.filled \in Nat /\ t.over \in BOOLEAN /\ t.reason \in {"stop", "stop_gap"}
      /\ t.status \in Statuses
      /\ Core(t.p, t.fills, t.stop, t.reason, day, bs) /\ All(t.p) \in Nat
  BY <1>1, TradeParts
<1> SUFFICES ASSUME o # t PROVE Undecided(o, b, previous, day, bs)
  OBVIOUS
<1>3. p # t.p
  BY DEF Buying
<1>4. n # 0 /\ price <= b.high /\ p = q
  <2>1. ~(n = 0 \/ price > b.high)
    BY <1>3, Zenon DEF bought
  <2>2. p = q
    BY <2>1, Zenon DEF bought, WithLot
  <2>3. price \in Int /\ b.high \in Int
    <3>1. b.open \in Nat /\ b.high \in Nat /\ Slip \in Nat
      BY BarIs, Numbers
    <3> QED BY <3>1
  <2> HIDE DEF price, n
  <2> QED BY <2>1, <2>2, <2>3
<1>5. price \in Nat /\ price # 0 /\ b.low <= price /\ price \in Int
  <2>1. b.open \in Nat /\ b.open # 0 /\ b.low \in Nat /\ b.low <= b.open /\ Slip \in Nat
    BY BarIs, Numbers
  <2> QED BY <2>1
<1>6. budget \in Int
  <2> DEFINE x == Cash \div Batches
             y == Cash - t.p.invested
  <2>1. x \in Int /\ y \in Int
    <3>1. Cash \in Nat /\ Batches \in Nat /\ Batches # 0 /\ t.p.invested \in Int
      BY <1>2, Numbers DEF Positions
    <3> QED BY <3>1
  <2> HIDE DEF x, y
  <2>2. Min({x, y}) = IF x <= y THEN x ELSE y
    BY <2>1, MinOfTwo
  <2>3. Min({x, y}) \in Int
    BY <2>1, <2>2
  <2> QED BY <2>3 DEF x, y
<1>7. n \in Nat
  BY <1>5, <1>6, SharesAre
<1>8. cost \in Int
  <2>1. Fee \in Nat
    BY Numbers
  <2> HIDE DEF n, price
  <2> QED BY <1>5, <1>7, <2>1 DEF purchaseCost
<1>9. Last(q.lots).n = n
  <2> DEFINE l == [n |-> n, bought |-> day]
             ls == Append(t.p.lots, l)
             c == t.p.invested + cost
  <2>1. q = [t.p EXCEPT !.lots = ls, !.invested = c]
    BY Zenon DEF WithLot
  <2> HIDE DEF n, cost, q
  <2>2. l \in LotSet /\ t.p.lots \in Seq(LotSet)
    BY <1>2, <1>7 DEF Positions, LotSet
  <2>3. Last(ls) = l
    <3> HIDE DEF l
    <3> QED BY <2>2, LastAppended
  <2>4. l.n = n
    OBVIOUS
  <2> HIDE DEF l, ls, c
  <2>5. q.lots = ls
    BY <1>2, <2>1 DEF Positions
  <2> QED BY <2>3, <2>4, <2>5
<1>10. o = [t EXCEPT !.p = q, !.filled = full, !.status = st, !.fills = gs]
  <2>1. o = [t EXCEPT !.p = p, !.filled = @ + 1,
                      !.status = IF t.filled = 0 THEN "unresolved" ELSE @,
                      !.fills = Append(@, [day |-> day, side |-> "buy", price |-> b.open + Slip,
                                           n |-> Last(p.lots).n, reason |-> "signal"])]
    BY <1>3, Zenon DEF Buying
  <2>2. Last(p.lots).n = n
    BY <1>4, <1>9
  <2> HIDE DEF p, q, n, o
  <2> QED BY <1>4, <2>1, <2>2, Zenon DEF BuyFill
<1>11. FillOk(f, HeldIn(t.fills, day), bs[day + 1], bs[day])
  <2>1. /\ f.side = "buy" /\ f.price = price /\ f.reason = "signal"
    <3> HIDE DEF price, n
    <3> QED BY DEF BuyFill
  <2>2. b.low \in Int
    BY BarIs
  <2> HIDE DEF f, price
  <2> QED BY <1>4, <1>5, <2>1, <2>2 DEF FillOk
<1>12. Core(t.p, t.fills, 0, t.reason, day, bs)
  BY <1>2
<1> HIDE DEF n, price, cost, budget, p, o
<1>13. Core(q, gs, 0, t.reason, day, bs)
  BY <1>5, <1>7, <1>8, <1>11, <1>12, CoreBuy
<1>14. BoughtTo(t.p, q, t.fills, gs, n, day)
  BY <1>5, <1>7, <1>8, <1>11, <1>12, CoreBuy
<1>15. All(q) = All(t.p) + n
  BY <1>14 DEF BoughtTo
<1>16. Lots(q, day, TRUE) = Lots(t.p, day, TRUE) /\ HeldIn(gs, day) = HeldIn(t.fills, day)
  BY <1>14 DEF BoughtTo
<1>17. st \in Statuses /\ st \notin Exits
  <2>1. "unresolved" \in Statuses /\ "unresolved" \notin Exits
    BY DEF Statuses, Exits
  <2>2. t.filled # 0 => t.status \notin Exits
    BY <1>1, <1>2 DEF TradeOk
  <2> QED BY <1>2, <2>1, <2>2
<1>18. full \in Nat /\ full > 0
  BY <1>2
<1> HIDE DEF q, f, gs, st, full
<1>19. q \in Positions /\ gs \in Seq(FillSet)
  BY <1>13 DEF Core
<1>20. /\ o \in TradeSet /\ o.p = q /\ o.filled = full /\ o.status = st /\ o.fills = gs
       /\ o.stop = t.stop /\ o.reason = t.reason /\ o.blockedByT1 = t.blockedByT1 /\ o.over = t.over
  BY <1>2, <1>10, <1>17, <1>18, <1>19 DEF TradeSet
<1>21. All(q) # 0 /\ Lots(q, day, TRUE) # All(q)
  <2> DEFINE a == All(t.p)
             c == All(q)
             lo == Lots(q, day, TRUE)
  <2>1. a \in Nat /\ c = a + n /\ lo = a
    BY <1>1, <1>2, <1>15, <1>16
  <2> HIDE DEF a, c, lo
  <2>2. c # 0 /\ lo # c
    BY <1>4, <1>7, <2>1
  <2> QED BY <2>2 DEF c, lo
<1>22. TradeOk(o, day, bs)
  <2>1. StopIsBounded(o)
    BY <1>17, <1>20 DEF StopIsBounded, Exits
  <2> QED BY <1>13, <1>17, <1>20, <1>21, <2>1 DEF TradeOk
<1>23. Lots(q, day, TRUE) <= HeldIn(gs, day)
  <2> DEFINE lo == Lots(q, day, TRUE)
             hi == HeldIn(gs, day)
  <2>1. lo = hi /\ lo \in Nat
    BY <1>1, <1>2, <1>16
  <2> HIDE DEF lo, hi
  <2>2. lo <= hi
    BY <2>1
  <2> QED BY <2>2 DEF lo, hi
<1> QED BY <1>1, <1>18, <1>20, <1>21, <1>22, <1>23 DEF Undecided

\* What is left of a trade when a day is over.
DayDone(o, day, bs) == TradeOk(o, day, bs) /\ (~o.over => o.filled > 0 /\ All(o.p) # 0)

\* What the rest of the bar decides leaves a sound trade.
LEMMA WithinIs ==
    ASSUME NEW t, NEW b \in Bars, NEW previous, NEW day \in Nat, NEW bs,
           day # 0, b = bs[day + 1], previous = bs[day], Undecided(t, b, previous, day, bs)
    PROVE  DayDone(Within(t, b, previous, day), day, bs)
<1> DEFINE free == ~lockedDown(b, previous)
           sellable == Lots(t.p, day, TRUE)
           highHit == Reaches(t.p, mark(b.high), Goal)
           stopHit == Loss > 0 /\ b.low <= stopPrice(t.p)
           blocked == sellable < All(t.p)
           stopped == [t EXCEPT !.stop = day, !.blockedByT1 = blocked]
           o == Within(t, b, previous, day)
<1>1. /\ TradeOk(t, day, bs) /\ ~t.over /\ t.stop = 0 /\ t.filled > 0 /\ All(t.p) # 0
      /\ sellable <= HeldIn(t.fills, day)
      /\ sellable = All(t.p) => OpenPassed(t.p, b, previous)
  BY DEF Undecided
<1>2. /\ t \in TradeSet /\ t.p \in Positions /\ t.fills \in Seq(FillSet) /\ t.stop \in Nat
      /\ t.filled \in Nat /\ t.over \in BOOLEAN /\ t.reason \in {"stop", "stop_gap"}
      /\ Core(t.p, t.fills, t.stop, t.reason, day, bs) /\ All(t.p) \in Nat
  BY <1>1, TradeParts
<1>3. t.status \notin Exits
  BY <1>1 DEF TradeOk
<1>4. t.reason = "stop"
  BY <1>1, <1>2 DEF Core
<1>5. /\ b.open \in Nat /\ b.high \in Nat /\ b.low \in Nat /\ b.close \in Nat
      /\ b.low <= b.open /\ b.open <= b.high /\ b.close <= b.high /\ Slip \in Nat /\ Goal \in Nat
  BY BarIs, Numbers
<1>6. stopPrice(t.p) \in Nat
  BY <1>1, <1>2, StopIsNat
<1>7. "stop" \in Exits /\ "target" \in Exits /\ "timeout" \in Exits
  BY DEF Exits
<1>8. ASSUME NEW c, Closed(t, c, day, bs) PROVE DayDone(c, day, bs)
  BY <1>8 DEF Closed, DayDone
<1>9. CASE stopHit
  <2> DEFINE x == Min({b.high, stopPrice(t.p)})
             price == marketFill(b, x)
  <2>1. /\ stopped \in TradeSet /\ stopped.p = t.p /\ stopped.fills = t.fills /\ stopped.status = t.status
        /\ stopped.filled = t.filled /\ stopped.over = t.over /\ stopped.stop = day /\ stopped.reason = t.reason
    <3> HIDE DEF blocked
    <3>1. blocked \in BOOLEAN
      BY DEF blocked
    <3> QED BY <1>2, <3>1 DEF TradeSet
  <2>2. BuysBy(t.fills, day)
    BY <1>2 DEF Core, FillDays, BuysBy
  <2>3. Core(t.p, t.fills, day, t.reason, day, bs)
    BY <1>2, <1>4, <2>2 DEF Core
  <2>4. o = SoldOut(IF free THEN Sell(stopped, b, day, price, "stop") ELSE stopped, "stop")
    BY <1>4, <1>9, Zenon DEF Within
  <2> HIDE DEF stopped, o
  <2>5. StopIsBounded(stopped)
    BY <1>3, <2>1 DEF StopIsBounded, Exits
  <2>6. TradeOk(stopped, day, bs)
    BY <1>1, <1>3, <2>1, <2>3, <2>5 DEF TradeOk
  <2>7. CASE ~free
    <3>1. o = stopped
      BY <1>1, <2>1, <2>4, <2>7 DEF SoldOut
    <3> QED BY <1>1, <2>1, <2>6, <3>1 DEF DayDone, o
  <2>8. CASE free
    <3>1. x = IF b.high <= stopPrice(t.p) THEN b.high ELSE stopPrice(t.p)
      BY <1>5, <1>6, MinOfTwo
    <3>2. x \in Int /\ x <= b.high
      <4> HIDE DEF x
      <4> QED BY <1>5, <1>6, <3>1
    <3>3. price \in Int /\ PriceOk(price, b, "stop") /\ price >= mark(x)
      <4> HIDE DEF x
      <4> QED BY <3>2, FillAtMarket
    <3>4. sellable = All(t.p) => x = stopPrice(t.p)
      <4>1. sellable = All(t.p) => b.open > stopPrice(t.p)
        BY <1>1, <1>9 DEF OpenPassed
      <4> HIDE DEF x, sellable
      <4> QED BY <1>5, <1>6, <3>1, <4>1
    <3>5. ~lockedDown(b, bs[day])
      BY <2>8
    <3> HIDE DEF x, price
    <3>6. sellable = All(t.p) => price >= mark(stopPrice(t.p))
      BY <3>3, <3>4
    <3>7. Sellable(stopped, b, day, bs, price, "stop")
      BY <1>1, <1>3, <2>1, <2>3, <3>3, <3>5, <3>6 DEF Sellable
    <3>8. o = SoldOut(Sell(stopped, b, day, price, "stop"), "stop")
      BY <2>4, <2>8
    <3>9. Closed(stopped, o, day, bs)
      BY <1>7, <3>3, <3>7, <3>8, Closing
    <3> QED BY <3>9 DEF Closed, DayDone, o
  <2> QED BY <2>7, <2>8 DEF o
<1>10. CASE ~stopHit /\ free /\ highHit /\ sellable = All(t.p)
  <2> DEFINE price == priceFor(t.p, Goal)
  <2>1. o = SoldOut(Sell(t, b, day, price, "target"), "target")
    BY <1>10, Zenon DEF Within
  <2>2. mark(b.high) \in Int /\ mark(b.high) <= b.high /\ mark(b.open) \in Int /\ mark(b.open) = b.open - Slip
    BY <1>5 DEF mark
  <2>3. Goal \in Int
    BY <1>5
  <2>4. price \in Nat
    BY <1>1, <1>2, <2>2, <2>3, PriceIsLeast
  <2>5. price <= mark(b.high) \/ price = 0
    BY <1>1, <1>2, <1>10, <2>2, <2>3, PriceIsLeast
  <2>6. mark(b.open) < price
    <3>1. ~Reaches(t.p, mark(b.open), Goal)
      BY <1>1, <1>10 DEF OpenPassed
    <3> QED BY <1>1, <1>2, <2>2, <2>3, <3>1, PriceIsLeast
  <2> HIDE DEF price, o
  <2>7. price <= b.high /\ price >= b.low - Slip
    <3> DEFINE mh == mark(b.high)
               mo == mark(b.open)
    <3>1. mh \in Int /\ mh <= b.high /\ mo = b.open - Slip /\ (price <= mh \/ price = 0) /\ mo < price
      BY <2>2, <2>5, <2>6
    <3> HIDE DEF mh, mo
    <3> QED BY <1>5, <2>4, <3>1
  <2>8. price \in Int /\ PriceOk(price, b, "target")
    BY <2>4, <2>7 DEF PriceOk
  <2>9. ~lockedDown(b, bs[day])
    BY <1>10
  <2>10. Sellable(t, b, day, bs, price, "target")
    BY <1>1, <1>2, <1>3, <2>8, <2>9 DEF Sellable
  <2>11. Closed(t, o, day, bs)
    BY <1>7, <2>1, <2>8, <2>10, Closing
  <2> QED BY <1>8, <2>11 DEF o
<1>11. CASE ~stopHit /\ ~(free /\ highHit /\ sellable = All(t.p)) /\ day = Horizon + 1 /\ free /\ sellable = All(t.p)
  <2> DEFINE price == marketFill(b, b.close)
  <2>1. o = SoldOut(Sell(t, b, day, price, "timeout"), "timeout")
    BY <1>11, Zenon DEF Within
  <2>2. b.close \in Int /\ b.close <= b.high
    BY <1>5
  <2>3. price \in Int /\ PriceOk(price, b, "timeout")
    BY <2>2, FillAtMarket
  <2>4. ~lockedDown(b, bs[day])
    BY <1>11
  <2> HIDE DEF price, o
  <2>5. Sellable(t, b, day, bs, price, "timeout")
    BY <1>1, <1>2, <1>3, <2>3, <2>4 DEF Sellable
  <2>6. Closed(t, o, day, bs)
    BY <1>7, <2>1, <2>3, <2>5, Closing
  <2> QED BY <1>8, <2>6 DEF o
<1>12. CASE /\ ~stopHit /\ ~(free /\ highHit /\ sellable = All(t.p))
            /\ ~(day = Horizon + 1 /\ free /\ sellable = All(t.p))
  <2>1. o = t
    BY <1>12, Zenon DEF Within
  <2> HIDE DEF o
  <2>2. DayDone(o, day, bs)
    BY <1>1, <2>1 DEF DayDone
  <2> QED BY <2>2 DEF o
<1> QED BY <1>9, <1>10, <1>11, <1>12

\* An unfinished trade before its first day holds nothing, afterwards something.
DayStart(t, day) ==
    ~t.over => IF day = 1 THEN t.filled = 0 /\ All(t.p) = 0 /\ t.stop = 0
               ELSE t.filled > 0 /\ All(t.p) # 0

\* A new day finds everything sellable.
LEMMA NextDay ==
    ASSUME NEW t, NEW bs \in Seq(Bars), NEW b \in Bars,
           Len(bs) # 0, TradeOk(t, Len(bs) - 1, bs)
    PROVE  /\ TradeOk(t, Len(bs), Append(bs, b))
           /\ ~t.over => Holding(t, Len(bs), Append(bs, b))
<1>1. t \in TradeSet /\ Core(t.p, t.fills, t.stop, t.reason, Len(bs) - 1, bs)
  BY DEF TradeOk
<1>2. /\ Core(t.p, t.fills, t.stop, t.reason, Len(bs), Append(bs, b))
      /\ LotsIn(t.p.lots, Len(bs), TRUE) = All(t.p) /\ HeldIn(t.fills, Len(bs)) = All(t.p)
      /\ t.stop < Len(bs)
  BY <1>1, CoreNextDay
<1> DEFINE day == Len(bs)
           cs == Append(bs, b)
<1>3. Lots(t.p, day, TRUE) = LotsIn(t.p.lots, day, TRUE)
  <2>1. t.p \in Positions
    BY <1>1 DEF TradeSet
  <2> HIDE DEF day
  <2> QED BY <2>1, AllOf
<1>4. /\ Core(t.p, t.fills, t.stop, t.reason, day, cs) /\ t.stop < day
      /\ LotsIn(t.p.lots, day, TRUE) = All(t.p) /\ HeldIn(t.fills, day) = All(t.p)
  BY <1>2
<1>5. /\ t.status \in Exits <=> t.filled > 0 /\ All(t.p) = 0
      /\ StopIsBounded(t)
  BY DEF TradeOk
<1> HIDE DEF day, cs
<1>6. TradeOk(t, day, cs)
  BY <1>1, <1>4, <1>5 DEF TradeOk
<1>7. ~t.over => Holding(t, day, cs)
  BY <1>3, <1>4, <1>6 DEF Holding
<1> QED BY <1>6, <1>7 DEF day, cs

\* A trade that is given up keeps what it holds.
LEMMA GivenUp ==
    ASSUME NEW t, NEW d, NEW bs, NEW why \in {"invalid", "missing_add_context"},
           TradeOk(t, d, bs), ~(t.filled > 0 /\ All(t.p) = 0)
    PROVE  /\ TradeOk([t EXCEPT !.status = why, !.over = TRUE], d, bs)
           /\ [t EXCEPT !.status = why, !.over = TRUE].over
<1> DEFINE o == [t EXCEPT !.status = why, !.over = TRUE]
<1>1. t \in TradeSet /\ Core(t.p, t.fills, t.stop, t.reason, d, bs)
  BY DEF TradeOk
<1>2. why \in Statuses /\ why \notin Exits
  BY DEF Statuses, Exits
<1>3. /\ o \in TradeSet /\ o.over = TRUE /\ o.status = why
      /\ o.p = t.p /\ o.fills = t.fills /\ o.stop = t.stop /\ o.reason = t.reason /\ o.filled = t.filled
  BY <1>1, <1>2 DEF TradeSet
<1> HIDE DEF o
<1>4. StopIsBounded(o)
  BY <1>2, <1>3 DEF StopIsBounded, Exits
<1>5. TradeOk(o, d, bs)
  BY <1>1, <1>2, <1>3, <1>4 DEF TradeOk
<1> QED BY <1>3, <1>5 DEF o

\* What a day leaves to the next one.
Carried(o, day, bs) == TradeOk(o, day, bs) /\ DayStart(o, day + 1)

\* A session leaves a sound trade.
LEMMA SessionIs ==
    ASSUME NEW t, NEW b \in Bars, NEW bs \in Seq(Bars), NEW again, NEW known, NEW day, NEW cs,
           day = Len(bs), cs = Append(bs, b),
           Len(bs) # 0, TradeOk(t, day - 1, bs), DayStart(t, day), ~t.over
    PROVE  Carried(Session(t, b, Last(bs), day, again, known), day, cs)
<1> DEFINE previous == Last(bs)
           opened == IF All(t.p) > 0 THEN AtOpen(t, b, previous, day) ELSE t
           filled == IF MayBuy(t, day, again) THEN Buying(opened, b, previous, day) ELSE opened
           o == Session(t, b, previous, day, again, known)
<1>1. day \in Nat /\ day # 0 /\ day + 1 # 1
  OBVIOUS
<1>2. TradeOk(t, day, cs) /\ Holding(t, day, cs)
  BY NextDay
<1>3. /\ t \in TradeSet /\ t.p \in Positions /\ t.filled \in Nat /\ All(t.p) \in Nat /\ t.stop \in Nat
  BY <1>2, TradeParts
<1>4. b = cs[day + 1] /\ previous = cs[day] /\ previous \in Bars
  BY <1>1 DEF Last
<1>5. ~(t.filled > 0 /\ All(t.p) = 0)
  BY <1>3 DEF DayStart
<1> HIDE DEF previous
<1>6. (All(t.p) > 0 => Opened(t, opened, b, previous, day, cs)) /\ (~(All(t.p) > 0) => opened = t)
  <2>1. ASSUME All(t.p) > 0 PROVE Opened(t, opened, b, previous, day, cs)
    <3>1. t.filled > 0 /\ All(t.p) # 0
      BY <1>3, <2>1 DEF DayStart
    <3>2. Opened(t, AtOpen(t, b, previous, day), b, previous, day, cs)
      BY <1>1, <1>2, <1>4, <3>1, AtOpenIs
    <3> QED BY <2>1, <3>2
  <2> QED BY <2>1
<1>7. opened.over => TradeOk(opened, day, cs) /\ opened.filled > 0
  <2> HIDE DEF opened
  <2> QED BY <1>6 DEF Opened
<1>8. ~opened.over => /\ opened = t /\ t.stop = 0
                      /\ All(t.p) # 0 => OpenPassed(t.p, b, previous)
  <2> HIDE DEF opened
  <2>1. CASE All(t.p) > 0
    BY <1>6, <2>1 DEF Opened
  <2>2. CASE ~(All(t.p) > 0)
    BY <1>3, <1>6, <2>2 DEF DayStart
  <2> QED BY <2>1, <2>2
<1>9. CASE known = "invalid"
  <2> DEFINE x == [t EXCEPT !.status = "invalid", !.over = TRUE]
  <2>1. o = x
    BY <1>9 DEF Session
  <2>2. TradeOk(x, day, cs) /\ x.over
    BY <1>2, <1>5, GivenUp
  <2> HIDE DEF x, o
  <2>3. Carried(o, day, cs)
    BY <2>1, <2>2 DEF Carried, DayStart
  <2> QED BY <2>3 DEF o, previous
<1>10. CASE known # "invalid" /\ opened.over
  <2> DEFINE over == All(opened.p) = 0
             x == [opened EXCEPT !.over = over]
  <2>1. o = x
    BY <1>10, Zenon DEF Session
  <2> HIDE DEF opened, over
  <2>2. over \in BOOLEAN
    BY DEF over
  <2>3. TradeOk(x, day, cs) /\ x.over = over /\ x.filled = opened.filled /\ x.p = opened.p
    BY <1>7, <1>10, <2>2, OverOnly
  <2> HIDE DEF x, o
  <2>4. DayStart(o, day + 1)
    BY <1>1, <1>7, <1>10, <2>1, <2>3 DEF DayStart, over
  <2>5. Carried(o, day, cs)
    BY <2>1, <2>3, <2>4 DEF Carried
  <2> QED BY <2>5 DEF o, previous
<1>11. CASE known # "invalid" /\ ~opened.over /\ known = "unknown" /\ MayBuy(t, day, again)
  <2> DEFINE x == [opened EXCEPT !.status = "missing_add_context", !.over = TRUE]
  <2>1. o = x
    BY <1>11, Zenon DEF Session
  <2>2. opened = t
    BY <1>8, <1>11
  <2> HIDE DEF opened
  <2>3. TradeOk(x, day, cs) /\ x.over
    BY <1>2, <1>5, <2>2, GivenUp
  <2> HIDE DEF x, o
  <2>4. Carried(o, day, cs)
    BY <2>1, <2>3 DEF Carried, DayStart
  <2> QED BY <2>4 DEF o, previous
<1>12. CASE known # "invalid" /\ ~opened.over /\ ~(known = "unknown" /\ MayBuy(t, day, again))
  <2>1. o = IF day = 1 /\ filled.filled = 0 THEN [filled EXCEPT !.over = TRUE]
            ELSE Within(filled, b, previous, day)
    BY <1>12, Zenon DEF Session
  <2>2. opened = t /\ t.stop = 0 /\ (All(t.p) # 0 => OpenPassed(t.p, b, previous))
    BY <1>8, <1>12
  <2>3. filled = t \/ Undecided(filled, b, previous, day, cs)
    <3>1. t.filled = 0 \/ All(t.p) # 0
      BY <1>3, <1>5
    <3>2. \/ Buying(t, b, previous, day) = t
          \/ Undecided(Buying(t, b, previous, day), b, previous, day, cs)
      BY <1>1, <1>2, <1>4, <2>2, <3>1, BuyingIs
    <3>3. filled = Buying(t, b, previous, day) \/ filled = t
      BY <2>2
    <3> HIDE DEF filled
    <3> QED BY <3>2, <3>3
  <2> HIDE DEF filled, opened, o
  <2>4. CASE day = 1 /\ filled.filled = 0
    <3>1. filled = t
      BY <2>3, <2>4 DEF Undecided
    <3>2. o = [t EXCEPT !.over = TRUE]
      BY <2>1, <2>4, <3>1
    <3>3. TradeOk(o, day, cs) /\ o.over = TRUE
      BY <1>2, <3>2, OverOnly
    <3>4. Carried(o, day, cs)
      BY <3>3 DEF Carried, DayStart
    <3> QED BY <3>4 DEF o, previous
  <2>5. CASE ~(day = 1 /\ filled.filled = 0)
    <3>1. Undecided(filled, b, previous, day, cs)
      <4>1. ASSUME filled = t PROVE Undecided(t, b, previous, day, cs)
        <5>1. TradeOk(t, day, cs) /\ Lots(t.p, day, TRUE) = All(t.p) /\ HeldIn(t.fills, day) = All(t.p)
          BY <1>2 DEF Holding
        <5>2. t.filled > 0 /\ All(t.p) # 0
          BY <2>5, <4>1 DEF DayStart
        <5>3. Lots(t.p, day, TRUE) <= HeldIn(t.fills, day)
          <6> DEFINE lo == Lots(t.p, day, TRUE)
                     hi == HeldIn(t.fills, day)
          <6>1. lo = hi /\ lo \in Nat
            BY <1>3, <5>1
          <6> HIDE DEF lo, hi
          <6>2. lo <= hi
            BY <6>1
          <6> QED BY <6>2 DEF lo, hi
        <5> QED BY <2>2, <5>1, <5>2, <5>3 DEF Undecided
      <4> QED BY <2>3, <4>1
    <3>2. DayDone(Within(filled, b, previous, day), day, cs)
      BY <1>1, <1>4, <3>1, WithinIs
    <3>3. o = Within(filled, b, previous, day)
      BY <2>1, <2>5
    <3>4. Carried(o, day, cs)
      BY <1>1, <3>2, <3>3 DEF DayDone, Carried, DayStart
    <3> QED BY <3>4 DEF o, previous
  <2> QED BY <2>4, <2>5
<1> QED BY <1>9, <1>10, <1>11, <1>12

(* Simulate's single lot. *)

PlanOk(plan) == /\ plan.p \in Positions /\ All(plan.p) # 0
                /\ plan.stop = stopPrice(plan.p) /\ plan.profit \in Nat

\* An exit on its day's bar, the day before, as outcome promises it.
ExitOk(h, b, previous) ==
    /\ ~lockedDown(b, previous) /\ h.price \in b.low .. b.high
    /\ h.status = "stop" => ~Loses(h.plan.p, h.price)

OutcomeOk(h, bs) ==
    /\ h = Outcome(h.status, h.plan, h.day, h.price)
    /\ h.status \in Exits => h.day \in 2 .. Len(bs) - 1 /\ ExitOk(h, bs[h.day + 1], bs[h.day])
    /\ h.status = "unresolved" /\ Len(bs) > 1 => PlanOk(h.plan)

\* The parts of an outcome.
LEMMA OutcomeParts ==
    ASSUME NEW status, NEW plan, NEW d, NEW price
    PROVE  LET h == Outcome(status, plan, d, price) IN
           h.status = status /\ h.plan = plan /\ h.day = d /\ h.price = price
BY DEF Outcome

\* A plan that bought something has its stop and its target.
LEMMA NewPlanOk ==
    ASSUME NEW paid \in Nat, paid # 0, All(NewPlan(paid).p) # 0
    PROVE  PlanOk(NewPlan(paid))
<1> DEFINE n == shares(Cash, paid)
           ls == <<[n |-> n, bought |-> 1]>>
           c == purchaseCost(paid, n)
           p == [NoPosition EXCEPT !.lots = ls, !.invested = c]
           plan == NewPlan(paid)
<1>1. plan = [p |-> p, fill |-> paid,
              stop |-> IF n = 0 THEN 0 ELSE stopPrice(p), profit |-> IF n = 0 THEN 0 ELSE priceFor(p, Goal)]
  BY Zenon DEF NewPlan
<1>2. Cash \in Int /\ Goal \in Int /\ Fee \in Nat /\ 0 \in Int
  BY Numbers
<1>3. n \in Nat
  BY <1>2, SharesAre
<1> HIDE DEF n
<1>4. c \in Int
  BY <1>2, <1>3 DEF purchaseCost
<1>5. [n |-> n, bought |-> 1] \in LotSet
  BY <1>3 DEF LotSet
<1>6. ls \in Seq(LotSet) /\ ls = Append(<< >>, [n |-> n, bought |-> 1]) /\ << >> \in Seq(LotSet)
  BY <1>5
<1>7. NoPosition \in Positions
  BY <1>2, <1>6 DEF NoPosition, Positions
<1> HIDE DEF ls, c
<1>8. p \in Positions /\ p.lots = ls
  BY <1>4, <1>6, <1>7 DEF Positions
<1> HIDE DEF p
<1>9. plan.p = p
  BY <1>1
<1>10. n # 0
  <2> SUFFICES ASSUME n = 0 PROVE FALSE
    OBVIOUS
  <2> DEFINE l == [n |-> n, bought |-> 1]
  <2>1. l \in LotSet /\ l.n = 0 /\ << >> \in Seq(LotSet) /\ FALSE \in BOOLEAN
    BY <1>5, <1>6
  <2>2. LotsIn(<< >>, 0, FALSE) = 0
    <3>1. [i \in 1 .. Len(<< >>) |-> IF FALSE /\ << >>[i].bought >= 0 THEN 0 ELSE << >>[i].n] = << >>
      OBVIOUS
    <3> QED BY <3>1, TotalNone DEF LotsIn
  <2> HIDE DEF l
  <2>3. LotsIn(Append(<< >>, l), 0, FALSE) = LotsIn(<< >>, 0, FALSE) + (IF FALSE /\ l.bought >= 0 THEN 0 ELSE l.n)
    BY <1>2, <2>1, LotsAppend
  <2>4. LotsIn(ls, 0, FALSE) = 0
    <3>1. ls = Append(<< >>, l)
      BY <1>6 DEF l
    <3>2. LotsIn(Append(<< >>, l), 0, FALSE) = 0
      <4> DEFINE x == IF FALSE /\ l.bought >= 0 THEN 0 ELSE l.n
                 e == LotsIn(<< >>, 0, FALSE)
                 a == LotsIn(Append(<< >>, l), 0, FALSE)
      <4>1. x = 0
        BY <2>1
      <4>2. a = e + x /\ e = 0
        BY <2>2, <2>3
      <4> HIDE DEF x, e, a
      <4>3. a = 0
        BY <4>1, <4>2
      <4> QED BY <4>3 DEF a
    <3> QED BY <3>1, <3>2
  <2>5. All(p) = 0
    BY <1>8, <2>4, AllOf
  <2> QED BY <1>9, <2>5
<1>11. plan.stop = stopPrice(p) /\ plan.profit = priceFor(p, Goal)
  BY <1>1, <1>10
<1>14. All(plan.p) # 0
  OBVIOUS
<1>12. priceFor(p, Goal) \in Nat
  BY <1>2, <1>8, <1>9, PriceIsLeast
<1> HIDE DEF plan
<1>13. PlanOk(plan)
  BY <1>8, <1>9, <1>11, <1>12, <1>14 DEF PlanOk
<1> QED BY <1>13 DEF plan

\* What one session of Simulate leaves, on the first day and afterwards.
Answered(h, b, previous, day) ==
    /\ h = Outcome(h.status, h.plan, h.day, h.price)
    /\ h.status \in Exits => h.day = day /\ day > 1 /\ ExitOk(h, b, previous)
    /\ h.status = "unresolved" => PlanOk(h.plan)

\* The first session refuses, or plans.
LEMMA EnteredIs ==
    ASSUME NEW b \in Bars, NEW signal, NEW known
    PROVE  Answered(Entered(b, signal, known), b, signal, 1)
<1> DEFINE paid == b.open + Slip
           plan == NewPlan(paid)
           h == Entered(b, signal, known)
           Refused(why) == Outcome(why, plan, 0, 0)
<1>1. paid \in Nat /\ paid # 0
  <2>1. b.open \in Nat /\ b.open # 0 /\ Slip \in Nat
    BY BarIs, Numbers
  <2> QED BY <2>1
<1>2. \/ \E why \in {"missing_entry_session", "entry_skipped", "cash_insufficient", "risk_budget_insufficient"} :
            h = Refused(why)
      \/ h = [Unresolved EXCEPT !.plan = plan] /\ All(plan.p) # 0
  <2> HIDE DEF plan
  <2> QED BY Zenon DEF Entered, plan
<1> HIDE DEF h, plan
<1>3. ASSUME NEW why \in {"missing_entry_session", "entry_skipped", "cash_insufficient", "risk_budget_insufficient"},
             h = Refused(why)
      PROVE  Answered(h, b, signal, 1)
  <2>1. h.status = why /\ h.plan = plan /\ h.day = 0 /\ h.price = 0
    BY <1>3, OutcomeParts
  <2> QED BY <1>3, <2>1 DEF Answered, Exits
<1>4. ASSUME h = [Unresolved EXCEPT !.plan = plan], All(plan.p) # 0
      PROVE  Answered(h, b, signal, 1)
  <2>1. [Unresolved EXCEPT !.plan = plan] = Outcome("unresolved", plan, 0, 0)
    BY DEF Unresolved, Outcome
  <2>2. h.status = "unresolved" /\ h.plan = plan /\ h.day = 0 /\ h.price = 0
    <3>1. h = Outcome("unresolved", plan, 0, 0)
      BY <1>4, <2>1
    <3> QED BY <3>1, OutcomeParts
  <2>3. PlanOk(plan)
    BY <1>1, <1>4, NewPlanOk DEF plan
  <2> QED BY <1>4, <2>1, <2>2, <2>3 DEF Answered, Exits
<1> QED BY <1>2, <1>3, <1>4 DEF h

\* An exit is inside the day's range, and a stop inside the loss.
LEMMA ExitIs ==
    ASSUME NEW h, NEW b \in Bars, NEW previous, NEW day \in Nat, day > 1,
           h = Outcome(h.status, h.plan, h.day, h.price), h.status = "unresolved", PlanOk(h.plan),
           ~lockedDown(b, previous)
    PROVE  Answered(exitOf(h, b, previous, day), b, previous, day)
<1> DEFINE plan == h.plan
           profit == plan.profit
           target == b.high > profit /\ profit <= previous.close + Limit
           stop == b.low <= plan.stop /\ plan.stop >= previous.close - Limit
           Exit(why, price) == Outcome(why, plan, day, price)
           o == exitOf(h, b, previous, day)
<1>1. /\ plan.p \in Positions /\ All(plan.p) # 0
      /\ plan.stop = stopPrice(plan.p) /\ profit \in Nat
  BY DEF PlanOk
<1>2. /\ b.open \in Nat /\ b.high \in Nat /\ b.low \in Nat /\ b.close \in Nat
      /\ b.low <= b.open /\ b.open <= b.high /\ b.close <= b.high
  BY BarIs
<1>3. plan.stop \in Nat
  BY <1>1, StopIsNat
<1>4. \/ o = Exit("stop_gap", marketFill(b, b.open))
      \/ b.open > plan.stop /\ b.open >= profit /\ target /\ o = Exit("target", Max({profit, marketFill(b, b.open)}))
      \/ b.open > plan.stop /\ o = Exit("stop", marketFill(b, plan.stop))
      \/ b.open > plan.stop /\ ~(b.open >= profit) /\ target /\ o = Exit("target", profit)
      \/ o = Exit("timeout", marketFill(b, b.close))
      \/ o = h
  <2>1. CASE b.open <= plan.stop
    <3>1. ~(b.open > plan.stop)
      BY <1>2, <1>3, <2>1
    <3>2. o = Exit("stop_gap", marketFill(b, b.open))
      BY <2>1, <3>1, Zenon DEF exitOf
    <3> QED BY <3>2
  <2>2. CASE b.open > plan.stop
    <3>1. ~(b.open <= plan.stop)
      BY <1>2, <1>3, <2>2
    <3>2. CASE b.open >= profit /\ target
      <4>1. o = Exit("target", Max({profit, marketFill(b, b.open)}))
        BY <2>2, <3>1, <3>2, Zenon DEF exitOf
      <4> QED BY <2>2, <3>2, <4>1
    <3>3. CASE ~(b.open >= profit /\ target)
      <4>1. o = IF stop THEN Exit("stop", marketFill(b, plan.stop))
                ELSE IF target THEN Exit("target", plan.profit)
                ELSE IF day = Horizon + 1 THEN Exit("timeout", marketFill(b, b.close))
                ELSE h
        BY <2>2, <3>1, <3>3, Zenon DEF exitOf
      <4> HIDE DEF o, stop, target, Exit
      <4> QED BY <2>2, <3>3, <4>1
    <3> QED BY <3>2, <3>3
  <2> QED BY <1>2, <1>3, <2>1, <2>2
<1> HIDE DEF o
<1>5. ASSUME NEW why \in Exits, NEW x \in Int, x \in b.low .. b.high, o = Exit(why, x),
             why = "stop" => ~Loses(plan.p, x)
      PROVE  Answered(o, b, previous, day)
  <2>1. o.status = why /\ o.plan = plan /\ o.day = day /\ o.price = x
    BY <1>5, OutcomeParts
  <2>2. ExitOk(o, b, previous)
    <3> HIDE DEF plan, Exit
    <3> QED BY <1>5, <2>1 DEF ExitOk
  <2>3. why # "unresolved"
    BY DEF Exits
  <2>4. o = Outcome(o.status, o.plan, o.day, o.price)
    <3> HIDE DEF plan
    <3> QED BY <1>5, <2>1
  <2> HIDE DEF plan, Exit
  <2> QED BY <1>5, <2>1, <2>2, <2>3, <2>4 DEF Answered
<1>6. \A x \in Int : x <= b.high => /\ marketFill(b, x) \in Int /\ marketFill(b, x) \in b.low .. b.high
                                    /\ marketFill(b, x) >= mark(x)
  BY FillAtMarket
<1>7. "stop" \in Exits /\ "target" \in Exits /\ "timeout" \in Exits /\ "stop_gap" \in Exits
  BY DEF Exits
<1>8. CASE o = Exit("stop_gap", marketFill(b, b.open))
  <2> DEFINE x == marketFill(b, b.open)
  <2>1. x \in Int /\ x \in b.low .. b.high
    BY <1>2, <1>6
  <2> HIDE DEF x
  <2>2. o = Exit("stop_gap", x)
    BY <1>8 DEF x
  <2>3. Answered(o, b, previous, day)
    BY <1>5, <1>7, <2>1, <2>2
  <2> QED BY <2>3 DEF o
<1>9. CASE b.open > plan.stop /\ b.open >= profit /\ target /\ o = Exit("target", Max({profit, marketFill(b, b.open)}))
  <2> DEFINE m == marketFill(b, b.open)
             x == Max({profit, m})
  <2>1. m \in Int /\ m \in b.low .. b.high
    BY <1>2, <1>6
  <2> HIDE DEF m
  <2>2. x = IF profit >= m THEN profit ELSE m
    BY <1>1, <2>1, MaxOfTwo
  <2> HIDE DEF x
  <2>3. x \in Int /\ x \in b.low .. b.high
    BY <1>1, <1>2, <1>9, <2>1, <2>2
  <2>4. o = Exit("target", x)
    BY <1>9 DEF x, m
  <2>5. Answered(o, b, previous, day)
    BY <1>5, <1>7, <2>3, <2>4
  <2> QED BY <2>5 DEF o
<1>10. CASE b.open > plan.stop /\ o = Exit("stop", marketFill(b, plan.stop))
  <2> DEFINE x == marketFill(b, plan.stop)
  <2>1. plan.stop \in Int /\ plan.stop <= b.high
    BY <1>2, <1>3, <1>10
  <2>2. x \in Int /\ x \in b.low .. b.high /\ x >= mark(plan.stop)
    BY <1>6, <2>1
  <2> HIDE DEF x
  <2>3. x >= mark(stopPrice(plan.p))
    BY <1>1, <2>2
  <2>4. ~Loses(plan.p, x)
    BY <1>1, <2>2, <2>3, StopStaysInside
  <2>5. o = Exit("stop", x)
    BY <1>10 DEF x
  <2>6. Answered(o, b, previous, day)
    BY <1>5, <1>7, <2>2, <2>4, <2>5
  <2> QED BY <2>6 DEF o
<1>11. CASE b.open > plan.stop /\ ~(b.open >= profit) /\ target /\ o = Exit("target", profit)
  <2>1. profit \in Int /\ profit \in b.low .. b.high
    BY <1>1, <1>2, <1>11
  <2>2. o = Exit("target", profit)
    BY <1>11
  <2> HIDE DEF profit, Exit
  <2>3. Answered(o, b, previous, day)
    BY <1>5, <1>7, <2>1, <2>2
  <2> QED BY <2>3 DEF o
<1>12. CASE o = Exit("timeout", marketFill(b, b.close))
  <2> DEFINE x == marketFill(b, b.close)
  <2>1. x \in Int /\ x \in b.low .. b.high
    BY <1>2, <1>6
  <2> HIDE DEF x
  <2>2. o = Exit("timeout", x)
    BY <1>12 DEF x
  <2>3. Answered(o, b, previous, day)
    BY <1>5, <1>7, <2>1, <2>2
  <2> QED BY <2>3 DEF o
<1>13. CASE o = h
  <2>1. "unresolved" \notin Exits
    BY DEF Exits
  <2>2. Answered(o, b, previous, day)
    <3> HIDE DEF plan
    <3> QED BY <1>13, <2>1 DEF Answered
  <2> QED BY <2>2 DEF o
<1> QED BY <1>4, <1>8, <1>9, <1>10, <1>11, <1>12, <1>13

\* So is what a session does that may be unknown or locked.
LEMMA HeldIs ==
    ASSUME NEW h, NEW b \in Bars, NEW previous, NEW day \in Nat, NEW known, day > 1,
           h = Outcome(h.status, h.plan, h.day, h.price), h.status = "unresolved", PlanOk(h.plan)
    PROVE  Answered(Held(h, b, previous, day, known), b, previous, day)
<1> DEFINE o == Held(h, b, previous, day, known)
<1>1. CASE known = "invalid"
  <2>1. o = [h EXCEPT !.status = "missing_exit_session"]
    BY <1>1 DEF Held
  <2>2. [h EXCEPT !.status = "missing_exit_session"] = Outcome("missing_exit_session", h.plan, h.day, h.price)
    BY DEF Outcome
  <2> HIDE DEF o
  <2>3. o.status = "missing_exit_session" /\ o = Outcome(o.status, o.plan, o.day, o.price)
    BY <2>1, <2>2, OutcomeParts
  <2>4. Answered(o, b, previous, day)
    BY <2>3 DEF Answered, Exits
  <2> QED BY <2>4 DEF o
<1>2. CASE known # "invalid" /\ lockedDown(b, previous)
  <2>1. o = h
    BY <1>2 DEF Held
  <2> HIDE DEF o
  <2>2. Answered(o, b, previous, day)
    BY <2>1 DEF Answered, Exits
  <2> QED BY <2>2 DEF o
<1>3. CASE known # "invalid" /\ ~lockedDown(b, previous)
  <2>1. o = exitOf(h, b, previous, day)
    BY <1>3 DEF Held
  <2>2. Answered(exitOf(h, b, previous, day), b, previous, day)
    BY <1>3, ExitIs
  <2> QED BY <2>1, <2>2
<1> QED BY <1>1, <1>2, <1>3

\* The inductive invariant.
TradeInv ==
    /\ bars \in Seq(Bars) /\ Len(bars) # 0
    /\ TradeOk(trade, Len(bars) - 1, bars) /\ DayStart(trade, Len(bars))
    /\ OutcomeOk(outcome, bars)

\* Before the first fill there is nothing.
LEMMA NothingYet ==
    /\ \A day, sellable : Lots(NoPosition, day, sellable) = 0
    /\ \A side : SideIn(<< >>, side) = 0
<1>1. ASSUME NEW day, NEW sellable PROVE Lots(NoPosition, day, sellable) = 0
  <2>1. NoPosition.lots = << >>
    BY DEF NoPosition
  <2>2. [i \in 1 .. Len(<< >>) |-> IF sellable /\ << >>[i].bought >= day THEN 0 ELSE << >>[i].n] = << >>
    OBVIOUS
  <2> QED BY <2>1, <2>2, TotalNone DEF Lots
<1>2. ASSUME NEW side PROVE SideIn(<< >>, side) = 0
  <2>1. [i \in 1 .. Len(<< >>) |-> IF << >>[i].side = side THEN << >>[i].n ELSE 0] = << >>
    OBVIOUS
  <2> QED BY <2>1, TotalNone DEF SideIn
<1> QED BY <1>1, <1>2

\* Nothing was tried yet.
LEMMA TradeInitInv == TradeInit => TradeInv
<1> SUFFICES ASSUME TradeInit PROVE TradeInv
  OBVIOUS
<1>1. PICK b \in Bars : bars = <<b>>
  BY DEF TradeInit
<1>2. bars \in Seq(Bars) /\ Len(bars) = 1
  BY <1>1
<1>3. trade = NoTrade /\ outcome = Unresolved
  BY DEF TradeInit
<1>4. NoPosition \in Positions
  <2>1. << >> \in Seq(LotSet) /\ 0 \in Int
    OBVIOUS
  <2> QED BY <2>1 DEF NoPosition, Positions
<1>5. NoPosition.lots = << >>
  BY DEF NoPosition
<1>6. All(NoPosition) = 0
  BY NothingYet DEF All
<1>7. << >> \in Seq(FillSet) /\ Len(<< >>) = 0
  OBVIOUS
<1>8. Core(NoPosition, << >>, 0, "stop", 0, bars)
  <2>1. LotDays(NoPosition.lots, 0)
    BY <1>5, <1>7 DEF LotDays
  <2>2. FillDays(<< >>, 0) /\ FillsOk(<< >>, bars)
    BY <1>7 DEF FillDays, FillsOk
  <2>3. All(NoPosition) = SideIn(<< >>, "buy") - SideIn(<< >>, "sell")
    BY <1>6, NothingYet
  <2> QED BY <1>4, <1>7, <2>1, <2>2, <2>3 DEF Core
<1>9. "entry_skipped" \in Statuses /\ "entry_skipped" \notin Exits
  BY DEF Statuses, Exits
<1>10. /\ NoTrade \in TradeSet /\ NoTrade.p = NoPosition /\ NoTrade.fills = << >> /\ NoTrade.stop = 0
       /\ NoTrade.reason = "stop" /\ NoTrade.status = "entry_skipped" /\ NoTrade.filled = 0
  <2> HIDE DEF NoPosition
  <2> QED BY <1>4, <1>7, <1>9 DEF NoTrade, TradeSet
<1> HIDE DEF NoTrade, NoPosition
<1>11. TradeOk(NoTrade, 0, bars)
  <2>1. StopIsBounded(NoTrade)
    BY <1>10 DEF StopIsBounded
  <2> QED BY <1>8, <1>9, <1>10, <2>1 DEF TradeOk
<1>12. DayStart(NoTrade, 1)
  BY <1>6, <1>10 DEF DayStart
<1>13. OutcomeOk(Unresolved, bars)
  <2>1. Unresolved.status = "unresolved" /\ Unresolved = Outcome(Unresolved.status, Unresolved.plan, Unresolved.day, Unresolved.price)
    BY DEF Unresolved, Outcome
  <2> QED BY <1>2, <2>1 DEF OutcomeOk, Exits
<1>14. Len(bars) - 1 = 0
  BY <1>2
<1> QED BY <1>2, <1>3, <1>11, <1>12, <1>13, <1>14 DEF TradeInv

\* What was answered on the last day stays possible with every further bar.
LEMMA OutcomeKept ==
    ASSUME NEW h, NEW bs \in Seq(Bars), NEW b \in Bars, Len(bs) # 0, OutcomeOk(h, bs), h.status # "unresolved"
    PROVE  OutcomeOk(h, Append(bs, b))
<1> DEFINE cs == Append(bs, b)
           n == Len(bs)
<1>1. n \in Nat /\ Len(cs) = n + 1 /\ \A i \in 1 .. n : cs[i] = bs[i]
  OBVIOUS
<1> HIDE DEF cs, n
<1>2. ASSUME h.status \in Exits
      PROVE  h.day \in 2 .. Len(cs) - 1 /\ ExitOk(h, cs[h.day + 1], cs[h.day])
  <2>1. h.day \in 2 .. n - 1 /\ ExitOk(h, bs[h.day + 1], bs[h.day])
    BY <1>2 DEF OutcomeOk, n
  <2>2. h.day \in 1 .. n /\ h.day + 1 \in 1 .. n /\ h.day \in 2 .. Len(cs) - 1
    BY <1>1, <2>1
  <2>3. cs[h.day + 1] = bs[h.day + 1] /\ cs[h.day] = bs[h.day]
    BY <1>1, <2>2
  <2> QED BY <2>1, <2>2, <2>3
<1>3. OutcomeOk(h, cs)
  BY <1>2 DEF OutcomeOk
<1> QED BY <1>3 DEF cs

\* What the last day answers stays with its bar.
LEMMA AnsweredOk ==
    ASSUME NEW h, NEW bs \in Seq(Bars), NEW b \in Bars, Len(bs) # 0, Answered(h, b, Last(bs), Len(bs))
    PROVE  OutcomeOk(h, Append(bs, b))
<1> DEFINE cs == Append(bs, b)
           n == Len(bs)
<1>1. n \in Nat /\ n # 0 /\ Len(cs) = n + 1 /\ cs[n + 1] = b /\ cs[n] = Last(bs)
  BY DEF Last
<1>2. Answered(h, b, Last(bs), n)
  OBVIOUS
<1> HIDE DEF cs, n
<1>3. ASSUME h.status \in Exits
      PROVE  h.day \in 2 .. Len(cs) - 1 /\ ExitOk(h, cs[h.day + 1], cs[h.day])
  <2>1. h.day = n /\ n > 1 /\ ExitOk(h, b, Last(bs))
    BY <1>2, <1>3 DEF Answered
  <2> QED BY <1>1, <2>1
<1>4. OutcomeOk(h, cs)
  BY <1>2, <1>3 DEF OutcomeOk, Answered
<1> QED BY <1>4 DEF cs

\* Every session keeps the invariant.
LEMMA TradeNextInv == TradeInv /\ [TradeNext]_tradeVars => TradeInv'
<1> SUFFICES ASSUME TradeInv, [TradeNext]_tradeVars PROVE TradeInv'
  OBVIOUS
<1>1. CASE TradeNext
  <2> DEFINE day == Len(bars)
             previous == Last(bars)
  <2>1. PICK b \in Bars, again \in BOOLEAN, known \in {"known", "unknown", "invalid"} : NextBar(b, again, known)
    BY <1>1 DEF TradeNext
  <2>2. /\ bars' = Append(bars, b)
        /\ trade' = IF trade.over THEN trade ELSE Session(trade, b, previous, day, again, known)
        /\ outcome' = IF outcome.status # "unresolved" THEN outcome
                      ELSE IF day = 1 THEN Entered(b, previous, known)
                      ELSE Held(outcome, b, previous, day, known)
    BY <2>1 DEF NextBar
  <2>3. /\ bars \in Seq(Bars) /\ day # 0 /\ TradeOk(trade, day - 1, bars) /\ DayStart(trade, day)
        /\ OutcomeOk(outcome, bars)
    BY DEF TradeInv
  <2>4. day \in Nat /\ Append(bars, b) \in Seq(Bars) /\ Len(Append(bars, b)) = day + 1 /\ previous \in Bars
    BY <2>3 DEF Last
  <2>5. Carried(trade', day, Append(bars, b))
    <3>1. CASE trade.over
      <4>1. trade' = trade
        BY <2>2, <3>1
      <4>2. TradeOk(trade, day, Append(bars, b))
        BY <2>3, NextDay
      <4> HIDE DEF day
      <4> QED BY <3>1, <4>1, <4>2 DEF Carried, DayStart
    <3>2. CASE ~trade.over
      <4>1. trade' = Session(trade, b, previous, day, again, known)
        BY <2>2, <3>2
      <4>2. Carried(Session(trade, b, previous, day, again, known), day, Append(bars, b))
        BY <2>3, <3>2, SessionIs
      <4> QED BY <4>1, <4>2
    <3> QED BY <3>1, <3>2
  <2>6. OutcomeOk(outcome', Append(bars, b))
    <3>1. CASE outcome.status # "unresolved"
      <4>1. outcome' = outcome
        BY <2>2, <3>1
      <4>2. OutcomeOk(outcome, Append(bars, b))
        BY <2>3, <3>1, OutcomeKept
      <4> QED BY <4>1, <4>2
    <3>2. CASE outcome.status = "unresolved" /\ day = 1
      <4>1. outcome' = Entered(b, previous, known)
        BY <2>2, <3>2
      <4>2. Answered(Entered(b, previous, known), b, previous, 1)
        BY EnteredIs
      <4>3. Answered(outcome', b, previous, day)
        BY <3>2, <4>1, <4>2
      <4> QED BY <2>3, <4>3, AnsweredOk
    <3>3. CASE outcome.status = "unresolved" /\ day # 1
      <4>1. outcome' = Held(outcome, b, previous, day, known)
        BY <2>2, <3>3
      <4>2. day > 1
        <5>1. day \in Nat /\ day # 0 /\ day # 1
          BY <2>3, <2>4, <3>3
        <5> HIDE DEF day
        <5> QED BY <5>1
      <4>3. PlanOk(outcome.plan) /\ outcome = Outcome(outcome.status, outcome.plan, outcome.day, outcome.price)
        BY <2>3, <3>3, <4>2 DEF OutcomeOk
      <4>4. Answered(Held(outcome, b, previous, day, known), b, previous, day)
        BY <2>4, <3>3, <4>2, <4>3, HeldIs
      <4>5. Answered(outcome', b, previous, day)
        BY <4>1, <4>4
      <4> QED BY <2>3, <4>5, AnsweredOk
    <3> QED BY <3>1, <3>2, <3>3
  <2> HIDE DEF day, previous
  <2>7. Len(bars') = day + 1 /\ bars' \in Seq(Bars) /\ Len(bars') # 0 /\ Len(bars') - 1 = day
    BY <2>2, <2>4
  <2>8. TradeOk(trade', day, bars') /\ DayStart(trade', day + 1)
    BY <2>2, <2>5 DEF Carried
  <2>9. OutcomeOk(outcome', bars')
    BY <2>2, <2>6
  <2>10. TradeOk(trade', Len(bars') - 1, bars') /\ DayStart(trade', Len(bars'))
    BY <2>7, <2>8
  <2> QED BY <2>7, <2>9, <2>10 DEF TradeInv
<1>2. CASE UNCHANGED tradeVars
  BY <1>2 DEF tradeVars, TradeInv
<1> QED BY <1>1, <1>2

\* It is what makes the reports possible.
LEMMA TradeInvIsEnough == TradeInv => TradeIsPossible
<1> SUFFICES ASSUME TradeInv PROVE TradeIsPossible
  OBVIOUS
<1> DEFINE n == Len(bars)
<1>1. /\ bars \in Seq(Bars) /\ n # 0 /\ TradeOk(trade, n - 1, bars) /\ OutcomeOk(outcome, bars)
  BY DEF TradeInv
<1>2. n \in Nat
  BY <1>1
<1> HIDE DEF n
<1>3. /\ Core(trade.p, trade.fills, trade.stop, trade.reason, n - 1, bars)
      /\ trade.status \in Exits <=> trade.filled > 0 /\ All(trade.p) = 0
      /\ StopIsBounded(trade)
  BY <1>1 DEF TradeOk
<1> DEFINE fs == trade.fills
<1>4. /\ fs \in Seq(FillSet) /\ FillDays(fs, n - 1) /\ FillsOk(fs, bars)
      /\ All(trade.p) = SideIn(fs, "buy") - SideIn(fs, "sell")
      /\ trade.stop # 0 => BuysBy(fs, trade.stop)
  BY <1>3 DEF Core
<1>5. TotalOf(trade, "buy") = SideIn(fs, "buy") /\ TotalOf(trade, "sell") = SideIn(fs, "sell")
  BY Zenon DEF TotalOf, SideIn
<1>6. \A d : HeldBefore(trade, d) = HeldIn(fs, d)
  BY Zenon DEF HeldBefore, HeldIn
<1>7. FillsArePossible(trade)
  <2> SUFFICES ASSUME NEW i \in 1 .. Len(fs)
               PROVE  LET f == fs[i] b == BarOf(f.day) IN
                      /\ f.price <= b.high /\ f.price >= b.low - (IF f.reason = "target" THEN Slip ELSE 0)
                      /\ f.side = "sell" => f.n <= HeldBefore(trade, f.day) /\ ~lockedDown(b, BarOf(f.day - 1))
    BY Zenon DEF FillsArePossible
  <2> DEFINE f == fs[i]
  <2>1. FillOk(f, HeldIn(fs, f.day), bars[f.day + 1], bars[f.day])
    BY <1>4 DEF FillsOk
  <2>2. f.day \in 1 .. n - 1
    BY <1>4 DEF FillDays
  <2> HIDE DEF fs, f
  <2>3. f.day - 1 + 1 = f.day
    BY <1>2, <2>2
  <2>4. BarOf(f.day) = bars[f.day + 1] /\ BarOf(f.day - 1) = bars[f.day]
    BY <2>3 DEF BarOf
  <2>5. FillOk(f, HeldBefore(trade, f.day), BarOf(f.day), BarOf(f.day - 1))
    BY <1>6, <2>1, <2>4
  <2> QED BY <2>5 DEF FillOk, f
<1>8. StopIsFinal(trade)
  <2> DEFINE buy == SideIn(fs, "buy")
             sell == SideIn(fs, "sell")
             all == All(trade.p)
  <2>1. buy \in Nat
    BY <1>4, SidesAre
  <2>2. sell \in Nat
    BY <1>4, SidesAre
  <2>3. all = buy - sell
    BY <1>4
  <2>4. /\ trade.status \in Exits <=> trade.filled > 0 /\ all = 0
        /\ TotalOf(trade, "buy") = buy /\ TotalOf(trade, "sell") = sell
    BY <1>3, <1>5
  <2> HIDE DEF buy, sell, all
  <2>5. all = 0 <=> buy = sell
    BY <2>1, <2>2, <2>3
  <2>6. trade.status \in Exits <=> trade.filled > 0 /\ TotalOf(trade, "buy") = TotalOf(trade, "sell")
    BY <2>4, <2>5
  <2>7. \A i \in 1 .. Len(trade.fills) :
            trade.stop # 0 /\ trade.fills[i].side = "buy" => trade.fills[i].day <= trade.stop
    BY <1>4 DEF BuysBy
  <2> QED BY <2>6, <2>7 DEF StopIsFinal
<1>9. ASSUME outcome.status \in Exits
      PROVE  /\ outcome.day > 1 /\ ~lockedDown(BarOf(outcome.day), BarOf(outcome.day - 1))
             /\ outcome.price \in BarOf(outcome.day).low .. BarOf(outcome.day).high
             /\ outcome.status = "stop" => ~Loses(outcome.plan.p, outcome.price)
  <2>1. outcome.day \in 2 .. n - 1 /\ ExitOk(outcome, bars[outcome.day + 1], bars[outcome.day])
    BY <1>1, <1>9 DEF OutcomeOk, n
  <2>2. outcome.day > 1 /\ outcome.day - 1 + 1 = outcome.day
    BY <1>2, <2>1
  <2>3. BarOf(outcome.day) = bars[outcome.day + 1] /\ BarOf(outcome.day - 1) = bars[outcome.day]
    BY <2>2 DEF BarOf
  <2>4. ExitOk(outcome, BarOf(outcome.day), BarOf(outcome.day - 1))
    BY <2>1, <2>3
  <2> QED BY <2>2, <2>4 DEF ExitOk
<1> QED BY <1>3, <1>7, <1>8, <1>9 DEF TradeIsPossible

\* What the studies report of a trade could have been done, on every way through the
\* sessions: the property the simulations of trade.go and trading.go stand on.
THEOREM TradeIsPossibleHolds == TradeSpec => []TradeIsPossible
<1>1. TradeInit => TradeInv
  BY TradeInitInv
<1>2. TradeInv /\ [TradeNext]_tradeVars => TradeInv'
  BY TradeNextInv
<1>3. TradeInv => TradeIsPossible
  BY TradeInvIsEnough
<1> QED BY <1>1, <1>2, <1>3, PTL DEF TradeSpec
=============================================================================
