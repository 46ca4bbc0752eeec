--------------------------- MODULE DailySync_proof ---------------------------
(***************************************************************************)
(* Proofs about DailySync, for every pool, every set of configurations and *)
(* every threshold.                                                        *)
(*                                                                         *)
(* Two relations carry the invariant.  Between a task and its checkpoints: *)
(* once the task is past collecting, each stock has one, and a stock whose *)
(* listing date is still unknown has been isolated, so that isolating it   *)
(* again changes nothing.  Between the call and its tables: what is in     *)
(* memory after the last stock is what the checkpoints hold, and is then   *)
(* committed as a whole.                                                   *)
(*                                                                         *)
(* WalkForward has no state: two pools that agree before a day are         *)
(* compared, in a section of its own.                                      *)
(***************************************************************************)
EXTENDS DailySync, WalkForward, SequenceTheorems, WellFoundedInduction, TLAPS

Busy == {"collect", "count", "publish", "analyze", "commit", "load", "end", "close"}

\* A running call has an open task.
UnderWay == spc \in Busy => id \in DOMAIN task /\ task[id].status = "running"

\* While it collects it goes by the phase that is stored.
PhaseIsStored == spc = "collect" => phase = task[id].phase

\* There is a stock to collect as long as it collects.
StockIsNext == spc = "collect" => next \in Stock

\* Nothing is left to collect for task t.
Settled(t) ==
    \A s \in Stock : /\ checkpoint[t][s] # NoItem
                     /\ s \notin listed => checkpoint[t][s] = Isolated

FrozenTasks ==
    /\ \A t \in DOMAIN task : task[t].phase # "collecting" => Settled(t)
    /\ spc \in Busy /\ phase # "collecting" => Settled(id)

\* The stocks before the next one are collected, and stored as they are in memory.
Collected ==
    spc = "collect" =>
        \A s \in Stock : s < next =>
            /\ items[s] # NoItem
            /\ checkpoint[id][s] = items[s]
            /\ s \notin listed => items[s] = Isolated

InMemory ==
    spc \in {"count", "publish", "analyze", "commit", "load"} =>
        Settled(id) /\ checkpoint[id] = items

\* The commits of one call are of the same items.
Published ==
    /\ spc \in {"analyze", "commit", "load"} => data = items
    /\ spc = "load" \/ (spc = "end" /\ ~failed) =>
          /\ dayReport = [task |-> id, input |-> data]
          /\ runRow[id] = "published"
          /\ checkpoint[id] = data
          /\ Settled(id)
    /\ spc = "close" => failed

SyncInv ==
    /\ SyncTypeOK
    /\ UnderWay
    /\ PhaseIsStored
    /\ StockIsNext
    /\ FrozenTasks
    /\ Collected
    /\ InMemory
    /\ Published
    /\ FinishedIsPublished

-----------------------------------------------------------------------------
LEMMA SyncStart == SyncInit => SyncInv
<1> SUFFICES ASSUME SyncInit PROVE SyncInv
  OBVIOUS
<1>1. NoItems \in Items /\ NoReport \in [task : 0 .. MaxTasks, input : Items]
  BY SyncAssumption DEF NoItems, Items, NoReport
<1>2. task = <<>> /\ DOMAIN task = {} /\ Len(task) = 0 /\ spc = "idle"
  BY DEF SyncInit
<1>3. task \in Seq([config : Config, phase : Phase, status : {"running", "failed", "completed"}])
  BY <1>2
<1>4. SyncTypeOK
  <2>1. /\ Len(task) \in 0 .. MaxTasks /\ id \in 0 .. MaxTasks
        /\ next \in 1 .. N + 1 /\ sfaults \in 0 .. MaxSyncFaults
    BY <1>2, SyncAssumption DEF SyncInit
  <2>2. /\ checkpoint \in [TaskId -> Items] /\ data \in Items /\ items \in Items
        /\ runRow \in [TaskId -> {"none", "running", "failed", "published"}]
        /\ evidence \in [Stock -> {"uncovered", "unknown", "true"}]
    BY <1>1 DEF SyncInit
  <2>3. QED
    BY <2>1, <2>2, <1>1, <1>2, <1>3 DEF SyncInit, SyncTypeOK, Phase
<1>5. QED
  BY <1>2, <1>4
  DEF SyncInv, UnderWay, PhaseIsStored, StockIsNext, FrozenTasks, Collected, InMemory,
      Published, FinishedIsPublished, Busy

\* Items are the same when they are the same for every stock.
LEMMA SameItems ==
    ASSUME NEW f \in Items, NEW g \in Items, \A s \in Stock : f[s] = g[s]
    PROVE  f = g
BY DEF Items

\* The number of a running call's task.
LEMMA TheTask ==
    ASSUME SyncTypeOK, UnderWay, spc \in Busy
    PROVE  /\ id \in TaskId /\ id \in DOMAIN task /\ DOMAIN task = 1 .. Len(task)
           /\ Len(task) \in Nat /\ task[id].status = "running"
           /\ checkpoint[id] \in Items
BY SyncAssumption DEF SyncTypeOK, UnderWay, TaskId

\* A step outside of a call, or into its end, that changes no table of a task.
LEMMA Aside ==
    ASSUME SyncInv, SyncTypeOK',
           task' = task, checkpoint' = checkpoint, listed' = listed,
           data' = data, dayReport' = dayReport, runRow' = runRow, id' = id,
           \/ spc' \notin Busy
           \/ /\ spc \in Busy /\ spc' = "end" /\ failed'
              /\ phase' \in {phase, "collecting"}
    PROVE  SyncInv'
<1>1. UnderWay'
  BY DEF SyncInv, UnderWay, Busy
<1>2. PhaseIsStored' /\ StockIsNext' /\ Collected' /\ InMemory' /\ Published'
  BY DEF PhaseIsStored, StockIsNext, Collected, InMemory, Published, Busy
<1>3. FrozenTasks'
  BY DEF SyncInv, FrozenTasks, Settled
<1>4. FinishedIsPublished'
  BY DEF SyncInv, FinishedIsPublished
<1>5. QED BY <1>1, <1>2, <1>3, <1>4 DEF SyncInv

\* One more stock is collected: its checkpoint is in the memory and the table.
LEMMA Takes ==
    ASSUME SyncInv, SyncTypeOK', spc = "collect", NEW item \in Item,
           Take(next, item),
           checkpoint'[id][next] = item,
           \A s \in Stock \ {next} : checkpoint'[id][s] = checkpoint[id][s],
           \A t \in TaskId \ {id} : checkpoint'[t] = checkpoint[t],
           listed \subseteq listed',
           next \notin listed' => item = Isolated,
           phase # "collecting" => checkpoint[id][next] \in {item, NoItem, Isolated},
           phase # "collecting" /\ checkpoint[id][next] # item => next \notin listed /\ item = Isolated,
           task' = task, data' = data, dayReport' = dayReport, runRow' = runRow,
           id' = id, phase' = phase, failed' = failed
    PROVE  SyncInv' /\ \A t \in DOMAIN task :
                          task[t].phase # "collecting" => checkpoint'[t] = checkpoint[t]
<1>1. /\ id \in TaskId /\ id \in DOMAIN task /\ DOMAIN task = 1 .. Len(task)
      /\ checkpoint[id] \in Items /\ task[id].status = "running"
      /\ DOMAIN task \subseteq TaskId /\ Len(task) \in Nat
  BY TheTask, SyncAssumption DEF SyncInv, Busy, SyncTypeOK, TaskId
<1>2. /\ next \in Stock /\ Stock \subseteq Nat /\ N \in Nat
      /\ items \in Items /\ items' \in Items /\ checkpoint'[id] \in Items
  BY <1>1, SyncAssumption DEF SyncInv, StockIsNext, SyncTypeOK, Stock
<1>3. item # NoItem
  BY DEF Item, NoItem, History
<1>4. /\ items'[next] = item
      /\ \A s \in Stock \ {next} : items'[s] = items[s]
      /\ next' = next + 1
      /\ spc' = IF next = N THEN "count" ELSE "collect"
  BY <1>2 DEF Take, Items
<1>5. phase = task[id].phase
  BY DEF SyncInv, PhaseIsStored
<1>6. phase # "collecting" => checkpoint'[id] = checkpoint[id]
  <2>1. SUFFICES ASSUME phase # "collecting" PROVE checkpoint'[id] = checkpoint[id]
    OBVIOUS
  <2>2. Settled(id)
    BY <2>1 DEF SyncInv, FrozenTasks, Busy
  <2>3. checkpoint[id][next] = item
    BY <2>1, <2>2, <1>2 DEF Settled
  <2>4. \A s \in Stock : checkpoint'[id][s] = checkpoint[id][s]
    BY <2>3
  <2>5. QED
    BY <2>4, <1>1, <1>2, SameItems
<1>7. \A t \in DOMAIN task : task[t].phase # "collecting" => checkpoint'[t] = checkpoint[t]
  BY <1>1, <1>5, <1>6
<1>8. UnderWay' /\ PhaseIsStored' /\ Published' /\ FinishedIsPublished'
  <2>1. UnderWay' /\ PhaseIsStored' /\ Published'
    BY <1>1, <1>4, <1>5 DEF UnderWay, PhaseIsStored, Published
  <2>2. FinishedIsPublished'
    BY <1>1 DEF FinishedIsPublished
  <2>3. QED BY <2>1, <2>2
<1>9. StockIsNext'
  BY <1>2, <1>4 DEF StockIsNext, Stock
<1>10. \A t \in TaskId : checkpoint'[t] = checkpoint[t] /\ Settled(t) => Settled(t)'
  BY DEF Settled
<1>11. FrozenTasks'
  BY <1>1, <1>6, <1>7, <1>10 DEF SyncInv, FrozenTasks, Busy
<1>12. \A s \in Stock : s < next + 1 =>
          /\ items'[s] # NoItem
          /\ checkpoint'[id][s] = items'[s]
          /\ s \notin listed' => items'[s] = Isolated
  <2> TAKE s \in Stock
  <2>1. CASE s = next
    BY <2>1, <1>3, <1>4
  <2>2. CASE s # next
    <3>1. s < next + 1 => s < next
      BY <2>2, <1>2
    <3>2. QED
      BY <2>2, <3>1, <1>4 DEF SyncInv, Collected
  <2>3. QED BY <2>1, <2>2
<1>13. Collected'
  BY <1>4, <1>12 DEF Collected
<1>14. InMemory'
  <2>1. SUFFICES ASSUME next = N PROVE Settled(id)' /\ checkpoint'[id] = items'
    BY <1>4 DEF InMemory
  <2>2. \A s \in Stock : s < next + 1
    BY <2>1, <1>2 DEF Stock
  <2>3. Settled(id)'
    BY <2>2, <1>12 DEF Settled
  <2>4. QED
    BY <2>2, <2>3, <1>12, <1>2, SameItems
<1>15. QED
  BY <1>7, <1>8, <1>9, <1>11, <1>13, <1>14 DEF SyncInv

-----------------------------------------------------------------------------
(* The types.                                                               *)

\* A row of a table that is written over, whatever its rows are.
LEMMA RowOfSeq ==
    ASSUME NEW S, NEW s \in Seq(S), NEW i \in DOMAIN s
    PROVE  /\ s[i] \in S /\ DOMAIN s = 1 .. Len(s) /\ Len(s) \in Nat
           /\ \A x \in S :
                /\ [s EXCEPT ![i] = x] \in Seq(S)
                /\ Len([s EXCEPT ![i] = x]) = Len(s)
                /\ DOMAIN [s EXCEPT ![i] = x] = DOMAIN s
                /\ [s EXCEPT ![i] = x][i] = x
                /\ \A j \in DOMAIN s \ {i} : [s EXCEPT ![i] = x][j] = s[j]
                /\ Append(s, x) \in Seq(S) /\ Len(Append(s, x)) = Len(s) + 1
OBVIOUS

Row == [config : Config, phase : Phase, status : {"running", "failed", "completed"}]

\* The phase and the status of a task are written.
LEMMA RowWritten ==
    ASSUME SyncTypeOK, NEW t \in DOMAIN task, NEW p \in Phase,
           NEW st \in {"running", "failed", "completed"}
    PROVE  LET new == [task EXCEPT ![t].phase = p, ![t].status = st]
           IN  /\ new \in Seq(Row)
               /\ Len(new) = Len(task) /\ DOMAIN new = DOMAIN task
               /\ new[t].phase = p /\ new[t].status = st
               /\ \A u \in DOMAIN task \ {t} : new[u] = task[u]
<1> DEFINE new == [task EXCEPT ![t].phase = p, ![t].status = st]
<1> DEFINE row == [task[t] EXCEPT !.phase = p, !.status = st]
<1>1. task \in Seq(Row)
  BY DEF SyncTypeOK, Row
<1>2. task[t] \in Row
  BY <1>1, RowOfSeq
<1>3. row \in Row /\ row.phase = p /\ row.status = st
  BY <1>2 DEF Row
<1>4. new = [task EXCEPT ![t] = row]
  BY <1>1, RowOfSeq
<1> HIDE DEF row, new
<1>5. /\ new \in Seq(Row) /\ Len(new) = Len(task) /\ DOMAIN new = DOMAIN task
      /\ new[t] = row /\ \A u \in DOMAIN task \ {t} : new[u] = task[u]
  BY <1>1, <1>3, <1>4, RowOfSeq
<1>6. QED
  BY <1>3, <1>5 DEF new

\* Only the status is written.
LEMMA StatusWritten ==
    ASSUME SyncTypeOK, NEW t \in DOMAIN task, NEW st \in {"running", "failed", "completed"}
    PROVE  LET new == [task EXCEPT ![t].status = st]
           IN  /\ new \in Seq(Row)
               /\ Len(new) = Len(task) /\ DOMAIN new = DOMAIN task
               /\ new[t].phase = task[t].phase /\ new[t].status = st
               /\ \A u \in DOMAIN task \ {t} : new[u] = task[u]
<1> DEFINE new == [task EXCEPT ![t].status = st]
<1> DEFINE row == [task[t] EXCEPT !.status = st]
<1>1. task \in Seq(Row)
  BY DEF SyncTypeOK, Row
<1>2. task[t] \in Row
  BY <1>1, RowOfSeq
<1>3. row \in Row /\ row.phase = task[t].phase /\ row.status = st
  BY <1>2 DEF Row
<1>4. new = [task EXCEPT ![t] = row]
  BY <1>1, RowOfSeq
<1> HIDE DEF row, new
<1>5. /\ new \in Seq(Row) /\ Len(new) = Len(task) /\ DOMAIN new = DOMAIN task
      /\ new[t] = row /\ \A u \in DOMAIN task \ {t} : new[u] = task[u]
  BY <1>1, <1>3, <1>4, RowOfSeq
<1>6. QED
  BY <1>3, <1>5 DEF new

\* What a call holds in memory when it ends in the midst of its work.
LEMMA EndsTyped ==
    ASSUME SyncTypeOK,
           task' = task, checkpoint' = checkpoint, listed' = listed, data' = data,
           dayReport' = dayReport, runRow' = runRow, config' \in Config, id' = id,
           next' = next, items' = items,
           evidence' \in [Stock -> {"uncovered", "unknown", "true"}],
           phase' \in {phase, "collecting"}, failed' \in BOOLEAN,
           spc' \in {"down", "idle", "begun", "collect", "count", "publish", "analyze",
                     "commit", "load", "end", "close"},
           sfaults' = sfaults \/ SyncFault
    PROVE  SyncTypeOK'
BY SyncAssumption DEF SyncTypeOK, SyncFault, Phase, TaskId

LEMMA ItemsAreItems ==
    /\ Isolated \in Item
    /\ \A s : \A c : Fetched(s) \subseteq History
    /\ NoItems \in Items
BY DEF Isolated, Item, History, Fetched, Truth, NoItems, Items

\* A call that collects the next stock.
LEMMA TakesTyped ==
    ASSUME SyncTypeOK, UnderWay, StockIsNext, spc = "collect", NEW item \in Item,
           Take(next, item),
           checkpoint' \in {checkpoint, [checkpoint EXCEPT ![id][next] = item]},
           listed' \in {listed, listed \cup {next}},
           task' = task, data' = data, dayReport' = dayReport, runRow' = runRow,
           config' = config, id' = id, phase' = phase, failed' = failed,
           evidence' = evidence,
           sfaults' = sfaults \/ SyncFault
    PROVE  SyncTypeOK'
<1>1. /\ next \in Stock /\ id \in TaskId /\ N \in Nat
      /\ items \in Items /\ checkpoint \in [TaskId -> Items]
  BY TheTask, SyncAssumption DEF StockIsNext, Busy, SyncTypeOK
<1>2. items' \in Items
  BY <1>1 DEF Take, Items
<1>3. checkpoint' \in [TaskId -> Items]
  <2>1. [checkpoint[id] EXCEPT ![next] = item] \in Items
    BY <1>1 DEF Items
  <2>2. [checkpoint EXCEPT ![id][next] = item]
            = [checkpoint EXCEPT ![id] = [checkpoint[id] EXCEPT ![next] = item]]
    BY <1>1
  <2>3. QED
    BY <1>1, <2>1, <2>2
<1>4. next' \in 1 .. N + 1 /\ spc' \in {"count", "collect"}
  BY <1>1 DEF Take, Stock
<1>5. sfaults' \in 0 .. MaxSyncFaults
  BY SyncAssumption DEF SyncTypeOK, SyncFault
<1>6. QED
  BY <1>1, <1>2, <1>3, <1>4, <1>5 DEF SyncTypeOK

-----------------------------------------------------------------------------
(* The steps, one by one.                                                   *)

\* No step changes the checkpoints of a task that is past collecting.
FrozenStep ==
    \A t \in DOMAIN task :
        task[t].phase # "collecting" /\ task'[t].phase # "collecting" =>
            checkpoint'[t] = checkpoint[t]

LEMMA CallKeeps == ASSUME SyncInv, Call PROVE SyncInv' /\ FrozenStep
<1>1. SyncTypeOK'
  BY EndsTyped DEF SyncInv, Call, tables, SyncTypeOK
<1>2. SyncInv'
  BY <1>1, Aside DEF Call, tables, Busy
<1>3. QED
  BY <1>2 DEF Call, tables, FrozenStep

LEMMA SimpleKeeps ==
    ASSUME SyncInv, BeginFails \/ NoEvidence \/ StepFails \/ SyncCrash \/ SyncRestart
    PROVE  SyncInv' /\ FrozenStep
<1>1. CASE BeginFails
  <2>1. SyncTypeOK'
    BY <1>1, EndsTyped DEF SyncInv, BeginFails, tables, callVars, SyncTypeOK
  <2>2. SyncInv'
    BY <1>1, <2>1, Aside DEF BeginFails, tables, callVars, Busy
  <2>3. QED
    BY <1>1, <2>2 DEF BeginFails, tables, FrozenStep
<1>2. CASE NoEvidence
  <2>1. SyncTypeOK'
    BY <1>2, EndsTyped DEF SyncInv, NoEvidence, tables, SyncTypeOK
  <2>2. SyncInv'
    BY <1>2, <2>1, Aside DEF NoEvidence, tables, Busy
  <2>3. QED
    BY <1>2, <2>2 DEF NoEvidence, tables, FrozenStep
<1>3. CASE StepFails
  <2>1. SyncTypeOK'
    BY <1>3, EndsTyped DEF SyncInv, StepFails, Fails, tables, SyncTypeOK
  <2>2. SyncInv'
    BY <1>3, <2>1, Aside DEF StepFails, Fails, tables, Busy
  <2>3. QED
    BY <1>3, <2>2 DEF StepFails, tables, FrozenStep
<1>4. CASE SyncCrash
  <2>1. SyncTypeOK'
    BY <1>4, EndsTyped DEF SyncInv, SyncCrash, tables, callVars, SyncTypeOK
  <2>2. SyncInv'
    BY <1>4, <2>1, Aside DEF SyncCrash, tables, callVars, Busy
  <2>3. QED
    BY <1>4, <2>2 DEF SyncCrash, tables, FrozenStep
<1>5. CASE SyncRestart
  <2>1. SyncTypeOK'
    BY <1>5, EndsTyped DEF SyncInv, SyncRestart, tables, callVars, SyncTypeOK
  <2>2. SyncInv'
    BY <1>5, <2>1, Aside DEF SyncRestart, tables, callVars, Busy
  <2>3. QED
    BY <1>5, <2>2 DEF SyncRestart, tables, FrozenStep
<1>6. QED
  BY <1>1, <1>2, <1>3, <1>4, <1>5

LEMMA BeginKeeps == ASSUME SyncInv, BeginSyncTask PROVE SyncInv' /\ FrozenStep
<1>1. /\ task \in Seq(Row) /\ DOMAIN task = 1 .. Len(task) /\ Len(task) \in Nat
      /\ Len(task) <= MaxTasks /\ MaxTasks \in Nat
  BY RowOfSeq, SyncAssumption DEF SyncInv, SyncTypeOK, Row
<1>2. /\ task' \in Seq(Row) /\ Len(task') \in 0 .. MaxTasks
      /\ id' \in DOMAIN task' /\ id' \in TaskId
      /\ task'[id'].status = "running"
      /\ \A t \in DOMAIN task' : task'[t].phase # "collecting" =>
            t \in DOMAIN task /\ task[t].phase # "collecting"
      /\ \A t \in DOMAIN task : task'[t].phase = task[t].phase
      /\ \A t \in DOMAIN task' \ {id'} : t \in DOMAIN task /\ task'[t] = task[t]
  <2>1. CASE \E t \in OpenTasks(config) :
                 id' = t /\ task' = [task EXCEPT ![t].status = "running"]
    <3>1. PICK t \in DOMAIN task :
              id' = t /\ task' = [task EXCEPT ![t].status = "running"]
      BY <2>1 DEF OpenTasks
    <3>2. /\ task' \in Seq(Row)
          /\ Len(task') = Len(task) /\ DOMAIN task' = DOMAIN task
          /\ task'[t].phase = task[t].phase /\ task'[t].status = "running"
          /\ \A u \in DOMAIN task \ {t} : task'[u] = task[u]
      BY <3>1, StatusWritten DEF SyncInv
    <3>3. QED
      BY <1>1, <3>1, <3>2 DEF TaskId
  <2>2. CASE /\ Len(task) < MaxTasks
             /\ id' = Len(task) + 1
             /\ task' = Append(task, [config |-> config, phase |-> "collecting",
                                      status |-> "running"])
    <3> DEFINE row == [config |-> config, phase |-> "collecting", status |-> "running"]
    <3>1. row \in Row /\ row.phase = "collecting" /\ row.status = "running"
      BY DEF SyncInv, SyncTypeOK, Row, Phase
    <3>2. task' = Append(task, row)
      BY <2>2
    <3> HIDE DEF row
    <3>3. task' \in Seq(Row) /\ Len(task') = Len(task) + 1 /\ DOMAIN task' = 1 .. Len(task) + 1
      BY <1>1, <3>1, <3>2
    <3>4. task'[Len(task) + 1] = row /\ \A t \in DOMAIN task : task'[t] = task[t]
      BY <1>1, <3>1, <3>2
    <3>5. QED
      BY <1>1, <2>2, <3>1, <3>3, <3>4 DEF TaskId
  <2>3. QED
    BY <2>1, <2>2 DEF BeginSyncTask
<1>3. /\ phase' = task'[id'].phase /\ next' = 1 /\ items' = NoItems
      /\ spc' \in {"collect", "idle"}
      /\ checkpoint' = checkpoint /\ data' = data /\ dayReport' = dayReport
      /\ listed' = listed /\ config' = config /\ evidence' = evidence /\ failed' = failed
      /\ runRow' = runRow \/ runRow' = [runRow EXCEPT ![id'] = "running"]
      /\ sfaults' = sfaults \/ SyncFault
  BY DEF BeginSyncTask
<1>4. SyncTypeOK'
  <2>1. phase' \in Phase
    <3>1. task'[id'] \in Row
      BY <1>2, RowOfSeq
    <3>2. QED
      BY <1>3, <3>1 DEF Row
  <2>2. runRow' \in [TaskId -> {"none", "running", "failed", "published"}]
    BY <1>2, <1>3 DEF SyncInv, SyncTypeOK
  <2>3. sfaults' \in 0 .. MaxSyncFaults /\ next' \in 1 .. N + 1 /\ id' \in 0 .. MaxTasks
    BY <1>2, <1>3, SyncAssumption DEF SyncInv, SyncTypeOK, SyncFault, TaskId
  <2>4. QED
    BY <1>2, <1>3, <2>1, <2>2, <2>3, ItemsAreItems DEF SyncInv, SyncTypeOK, Row
<1>5. UnderWay' /\ PhaseIsStored'
  BY <1>2, <1>3 DEF UnderWay, PhaseIsStored
<1>6. FrozenTasks'
  <2>1. \A t : Settled(t)' <=> Settled(t)
    BY <1>3 DEF Settled
  <2>2. QED
    BY <1>2, <1>3, <2>1 DEF SyncInv, FrozenTasks
<1>7. StockIsNext' /\ Collected'
  BY <1>3, SyncAssumption DEF StockIsNext, Collected, Stock
<1>8. InMemory' /\ Published'
  BY <1>3 DEF InMemory, Published
<1>9. FinishedIsPublished'
  BY <1>2 DEF FinishedIsPublished
<1>10. FrozenStep
  BY <1>3 DEF FrozenStep
<1>11. QED
  BY <1>4, <1>5, <1>6, <1>7, <1>8, <1>9, <1>10 DEF SyncInv

LEMMA ReuseKeeps == ASSUME SyncInv, Reuse PROVE SyncInv' /\ FrozenStep
<1> DEFINE item == Cached(next)
<1>1. /\ id \in TaskId /\ next \in Stock /\ checkpoint[id] \in Items
  BY TheTask DEF SyncInv, StockIsNext, Reuse, Busy
<1>2. item = checkpoint[id][next] /\ item # NoItem
  BY DEF Reuse, Reusable, Cached
<1>3. item \in Item
  BY <1>1, <1>2 DEF Items
<1>4. Take(next, item) /\ listed' \in {listed, listed \cup {next}} /\ next \in listed'
  BY DEF Reuse, Lookup
<1> HIDE DEF item
<1>5. SyncTypeOK'
  BY <1>3, <1>4, TakesTyped DEF SyncInv, Reuse
<1>6. /\ checkpoint'[id][next] = item
      /\ \A s \in Stock \ {next} : checkpoint'[id][s] = checkpoint[id][s]
      /\ \A t \in TaskId \ {id} : checkpoint'[t] = checkpoint[t]
  BY <1>2 DEF Reuse
<1>7. SyncInv' /\ \A t \in DOMAIN task :
                      task[t].phase # "collecting" => checkpoint'[t] = checkpoint[t]
  BY <1>2, <1>3, <1>4, <1>5, <1>6, Takes DEF Reuse
<1>8. QED
  BY <1>7 DEF FrozenStep

\* What a step that writes one checkpoint writes.
LEMMA OneWritten ==
    ASSUME SyncTypeOK, id \in TaskId, next \in Stock, NEW item \in Item,
           checkpoint' = [checkpoint EXCEPT ![id][next] = item]
    PROVE  /\ checkpoint'[id][next] = item
           /\ \A s \in Stock \ {next} : checkpoint'[id][s] = checkpoint[id][s]
           /\ \A t \in TaskId \ {id} : checkpoint'[t] = checkpoint[t]
<1>1. checkpoint \in [TaskId -> Items] /\ checkpoint[id] \in Items
  BY DEF SyncTypeOK
<1>2. checkpoint' = [checkpoint EXCEPT ![id] = [checkpoint[id] EXCEPT ![next] = item]]
  BY <1>1
<1>3. QED
  BY <1>1, <1>2 DEF Items

LEMMA CollectKeeps == ASSUME SyncInv, CollectStock PROVE SyncInv' /\ FrozenStep
<1>1. /\ id \in TaskId /\ next \in Stock /\ checkpoint[id] \in Items
  BY TheTask DEF SyncInv, StockIsNext, CollectStock, Busy
<1>2. PICK adjusted \in History, raw \in History :
          Checkpointed(next, [adjusted |-> adjusted, raw |-> raw])
  <2>1. "missing" \in History /\ Fetched(next) \subseteq History
    BY DEF History, Fetched, Truth
  <2>2. QED
    BY <2>1 DEF CollectStock
<1> DEFINE item == [adjusted |-> adjusted, raw |-> raw]
<1>3. item \in Item
  BY DEF Item
<1> HIDE DEF item
<1>4. /\ Take(next, item) /\ checkpoint' = [checkpoint EXCEPT ![id][next] = item]
  BY <1>2 DEF Checkpointed, item
<1>5. listed' \in {listed, listed \cup {next}} /\ next \in listed'
  BY DEF CollectStock, Lookup
<1>6. phase # "collecting" => checkpoint[id][next] = NoItem
  BY DEF CollectStock, Reusable, Cached
<1>7. phase = "collecting"
  BY <1>1, <1>6 DEF SyncInv, FrozenTasks, Busy, Settled, CollectStock
<1>8. SyncTypeOK'
  <2>1. sfaults' = sfaults \/ SyncFault
    BY DEF CollectStock
  <2>2. QED
    BY <1>3, <1>4, <1>5, <2>1, TakesTyped DEF SyncInv, CollectStock
<1>9. SyncInv' /\ \A t \in DOMAIN task :
                      task[t].phase # "collecting" => checkpoint'[t] = checkpoint[t]
  BY <1>1, <1>3, <1>4, <1>5, <1>7, <1>8, OneWritten, Takes DEF CollectStock, SyncInv
<1>10. QED
  BY <1>9 DEF FrozenStep

LEMMA IsolatesKeeps == ASSUME SyncInv, ListingIsolates PROVE SyncInv' /\ FrozenStep
<1>1. /\ id \in TaskId /\ next \in Stock /\ checkpoint[id] \in Items
  BY TheTask DEF SyncInv, StockIsNext, ListingIsolates, Busy
<1>2. /\ Take(next, Isolated)
      /\ checkpoint' = [checkpoint EXCEPT ![id][next] = Isolated]
      /\ Isolated \in Item
  BY ItemsAreItems DEF ListingIsolates, Checkpointed
<1>3. phase # "collecting" => checkpoint[id][next] = Isolated
  BY <1>1 DEF SyncInv, FrozenTasks, Busy, Settled, ListingIsolates
<1>4. SyncTypeOK'
  BY <1>2, TakesTyped DEF SyncInv, ListingIsolates
<1>5. SyncInv' /\ \A t \in DOMAIN task :
                      task[t].phase # "collecting" => checkpoint'[t] = checkpoint[t]
  BY <1>1, <1>2, <1>3, <1>4, OneWritten, Takes DEF ListingIsolates, SyncInv
<1>6. QED
  BY <1>5 DEF FrozenStep

\* A call that goes on, or ends, without writing its task or a checkpoint.
LEMMA GoesOnTyped ==
    ASSUME SyncTypeOK, UnderWay, spc \in Busy,
           task' = task, checkpoint' = checkpoint, listed' = listed, config' = config,
           id' = id, next' = next, items' = items, evidence' = evidence,
           data' \in {data, items},
           dayReport' \in {dayReport, [task |-> id, input |-> items]},
           \/ runRow' = runRow
           \/ \E st \in {"running", "failed", "published"} : runRow' = [runRow EXCEPT ![id] = st],
           phase' \in Phase, failed' \in BOOLEAN,
           spc' \in {"idle", "publish", "analyze", "commit", "load", "end", "close"},
           sfaults' = sfaults \/ SyncFault
    PROVE  SyncTypeOK'
<1>1. id \in TaskId /\ id \in 0 .. MaxTasks /\ items \in Items
  BY TheTask, SyncAssumption DEF SyncTypeOK
<1>2. runRow' \in [TaskId -> {"none", "running", "failed", "published"}]
  BY <1>1 DEF SyncTypeOK
<1>3. dayReport' \in [task : 0 .. MaxTasks, input : Items] /\ data' \in Items
  BY <1>1 DEF SyncTypeOK
<1>4. sfaults' \in 0 .. MaxSyncFaults
  BY SyncAssumption DEF SyncTypeOK, SyncFault
<1>5. QED
  BY <1>2, <1>3, <1>4 DEF SyncTypeOK

\* What holds in a call stays as long as task and checkpoints do.
LEMMA SameTask ==
    ASSUME SyncInv, spc \in Busy, task' = task, checkpoint' = checkpoint,
           listed' = listed, id' = id, spc' \in Busy \ {"collect"},
           phase' \in {phase, "collecting"}
    PROVE  UnderWay' /\ PhaseIsStored' /\ StockIsNext' /\ FrozenTasks' /\ Collected'
           /\ FinishedIsPublished'
<1>1. UnderWay' /\ PhaseIsStored' /\ StockIsNext' /\ Collected'
  BY DEF SyncInv, UnderWay, PhaseIsStored, StockIsNext, Collected
<1>2. FrozenTasks'
  BY DEF SyncInv, FrozenTasks, Settled
<1>3. FinishedIsPublished'
  BY DEF SyncInv, FinishedIsPublished, UnderWay
<1>4. QED
  BY <1>1, <1>2, <1>3

LEMMA CountKeeps == ASSUME SyncInv, Count PROVE SyncInv' /\ FrozenStep
<1>1. SyncTypeOK'
  <2>1. data' \in {data, items} /\ phase' \in Phase /\ failed' \in BOOLEAN
        /\ (runRow' = runRow \/ runRow' = [runRow EXCEPT ![id] = "failed"])
        /\ spc' \in {"publish", "end"}
    BY DEF Count, SyncInv, SyncTypeOK, Phase
  <2>2. QED
    BY <2>1, GoesOnTyped DEF Count, SyncInv, Busy
<1>2. UnderWay' /\ PhaseIsStored' /\ StockIsNext' /\ FrozenTasks' /\ Collected'
      /\ FinishedIsPublished'
  BY SameTask DEF Count, Busy
<1>3. InMemory' /\ Published'
  BY DEF SyncInv, Count, InMemory, Published, Settled
<1>4. QED
  BY <1>1, <1>2, <1>3 DEF SyncInv, Count, FrozenStep

LEMMA CommitDataKeeps == ASSUME SyncInv, CommitCollectedData PROVE SyncInv' /\ FrozenStep
<1>1. /\ id \in TaskId /\ id \in DOMAIN task /\ task[id].status = "running"
      /\ id \in 0 .. MaxTasks
  BY TheTask, SyncAssumption DEF SyncInv, CommitCollectedData, Busy, SyncTypeOK
<1>2. /\ data' = items /\ checkpoint' = checkpoint /\ items' = items /\ id' = id
      /\ listed' = listed /\ phase' = "analyzing"
      /\ runRow' = [runRow EXCEPT ![id] = "running"]
      /\ UNCHANGED <<dayReport, config, next, evidence>>
  BY DEF CommitCollectedData
<1>3. Settled(id) /\ checkpoint[id] = items
  BY DEF SyncInv, InMemory, CommitCollectedData
<1>4. CASE UNCHANGED task /\ Fails
  <2>1. SyncTypeOK'
    BY <1>2, <1>4, GoesOnTyped DEF SyncInv, CommitCollectedData, Busy, Fails, Phase
  <2>2. UnderWay' /\ PhaseIsStored' /\ StockIsNext' /\ Collected' /\ InMemory' /\ Published'
    BY <1>1, <1>2, <1>4
    DEF Fails, UnderWay, PhaseIsStored, StockIsNext, Collected, InMemory, Published
  <2>3. FrozenTasks'
    BY <1>2, <1>3, <1>4 DEF SyncInv, FrozenTasks, Settled
  <2>4. FinishedIsPublished'
    BY <1>1, <1>2, <1>4 DEF FinishedIsPublished
  <2>5. QED
    BY <1>2, <2>1, <2>2, <2>3, <2>4 DEF SyncInv, FrozenStep
<1>5. CASE /\ task' = [task EXCEPT ![id].phase = "analyzing", ![id].status = "running"]
           /\ spc' = "analyze"
           /\ UNCHANGED <<failed, sfaults>>
  <2>1. /\ task' \in Seq(Row) /\ Len(task') = Len(task) /\ DOMAIN task' = DOMAIN task
        /\ task'[id].phase = "analyzing" /\ task'[id].status = "running"
        /\ \A u \in DOMAIN task \ {id} : task'[u] = task[u]
    BY <1>1, <1>5, RowWritten DEF SyncInv, Phase
  <2>2. SyncTypeOK'
    <3>1. runRow' \in [TaskId -> {"none", "running", "failed", "published"}]
      BY <1>1, <1>2 DEF SyncInv, SyncTypeOK
    <3>2. QED
      BY <1>1, <1>2, <1>5, <2>1, <3>1 DEF SyncInv, SyncTypeOK, Phase, Row
  <2>3. UnderWay' /\ PhaseIsStored' /\ StockIsNext' /\ Collected'
    BY <1>1, <1>2, <1>5, <2>1 DEF UnderWay, PhaseIsStored, StockIsNext, Collected
  <2>4. \A t : Settled(t)' <=> Settled(t)
    BY <1>2 DEF Settled
  <2>5. InMemory' /\ Published'
    BY <1>2, <1>3, <1>5, <2>4 DEF InMemory, Published
  <2>6. FrozenTasks'
    BY <1>2, <1>3, <2>1, <2>4 DEF SyncInv, FrozenTasks
  <2>7. FinishedIsPublished'
    BY <1>2, <2>1 DEF FinishedIsPublished
  <2>8. QED
    BY <1>2, <2>2, <2>3, <2>5, <2>6, <2>7 DEF SyncInv, FrozenStep
<1>6. QED
  BY <1>4, <1>5 DEF CommitCollectedData

LEMMA AnalysisKeeps ==
    ASSUME SyncInv, Analyze \/ CommitAnalysis \/ LoadReport
    PROVE  SyncInv' /\ FrozenStep
<1>1. CASE Analyze
  <2>1. SyncTypeOK'
    BY <1>1, GoesOnTyped DEF Analyze, tables, callVars, SyncInv, Busy, SyncTypeOK
  <2>2. UnderWay' /\ PhaseIsStored' /\ StockIsNext' /\ FrozenTasks' /\ Collected'
        /\ FinishedIsPublished'
    BY <1>1, SameTask DEF Analyze, tables, callVars, Busy
  <2>3. InMemory' /\ Published'
    BY <1>1 DEF SyncInv, Analyze, tables, callVars, InMemory, Published, Settled
  <2>4. QED
    BY <1>1, <2>1, <2>2, <2>3 DEF SyncInv, Analyze, tables, FrozenStep
<1>2. CASE CommitAnalysis
  <2>1. SyncTypeOK'
    BY <1>2, GoesOnTyped DEF CommitAnalysis, callVars, SyncInv, Busy, SyncTypeOK
  <2>2. UnderWay' /\ PhaseIsStored' /\ StockIsNext' /\ FrozenTasks' /\ Collected'
        /\ FinishedIsPublished'
    BY <1>2, SameTask DEF CommitAnalysis, callVars, Busy
  <2>3. id \in TaskId
    BY <1>2, TheTask DEF SyncInv, CommitAnalysis, Busy
  <2>4. InMemory' /\ Published'
    BY <1>2, <2>3
    DEF SyncInv, SyncTypeOK, CommitAnalysis, callVars, InMemory, Published, Settled
  <2>5. QED
    BY <1>2, <2>1, <2>2, <2>4 DEF SyncInv, CommitAnalysis, FrozenStep
<1>3. CASE LoadReport
  <2>1. SyncTypeOK'
    BY <1>3, GoesOnTyped DEF LoadReport, tables, callVars, SyncInv, Busy, SyncTypeOK
  <2>2. UnderWay' /\ PhaseIsStored' /\ StockIsNext' /\ FrozenTasks' /\ Collected'
        /\ FinishedIsPublished'
    BY <1>3, SameTask DEF LoadReport, tables, callVars, Busy
  <2>3. InMemory' /\ Published'
    BY <1>3 DEF SyncInv, LoadReport, tables, callVars, InMemory, Published, Settled
  <2>4. QED
    BY <1>3, <2>1, <2>2, <2>3 DEF SyncInv, LoadReport, tables, FrozenStep
<1>4. QED
  BY <1>1, <1>2, <1>3

LEMMA RecordKeeps == ASSUME SyncInv, RecordFailedRun PROVE SyncInv' /\ FrozenStep
<1>1. SyncTypeOK'
  BY GoesOnTyped DEF RecordFailedRun, callVars, SyncInv, Busy, SyncTypeOK
<1>2. UnderWay' /\ PhaseIsStored' /\ StockIsNext' /\ FrozenTasks' /\ Collected'
      /\ FinishedIsPublished'
  BY SameTask DEF RecordFailedRun, callVars, Busy
<1>3. InMemory' /\ Published'
  BY DEF RecordFailedRun, callVars, InMemory, Published
<1>4. QED
  BY <1>1, <1>2, <1>3 DEF SyncInv, RecordFailedRun, FrozenStep

LEMMA SaveKeeps == ASSUME SyncInv, SaveSyncTask PROVE SyncInv' /\ FrozenStep
<1>1. /\ id \in TaskId /\ id \in DOMAIN task /\ task[id].status = "running"
      /\ spc \in {"close", "end"} /\ spc' = "idle" /\ phase \in Phase
      /\ failed \in BOOLEAN
  BY TheTask DEF SyncInv, SaveSyncTask, Busy, SyncTypeOK
<1>2. /\ checkpoint' = checkpoint /\ runRow' = runRow /\ data' = data
      /\ dayReport' = dayReport /\ listed' = listed /\ config' = config
      /\ evidence' = evidence /\ id' = id /\ phase' = phase /\ next' = next
      /\ items' = items /\ failed' = failed
  BY DEF SaveSyncTask, callVars
<1>3. UnderWay' /\ PhaseIsStored' /\ StockIsNext' /\ Collected' /\ InMemory' /\ Published'
  BY <1>1
  DEF Busy, UnderWay, PhaseIsStored, StockIsNext, Collected, InMemory, Published
<1>4. \A t : Settled(t)' <=> Settled(t)
  BY <1>2 DEF Settled
<1>5. CASE UNCHANGED task /\ SyncFault
  <2>1. SyncTypeOK'
    BY <1>1, <1>2, <1>5, EndsTyped DEF SyncInv, SyncTypeOK
  <2>2. FrozenTasks' /\ FinishedIsPublished'
    BY <1>1, <1>2, <1>4, <1>5 DEF SyncInv, FrozenTasks, FinishedIsPublished, Busy
  <2>3. QED
    BY <1>2, <1>3, <2>1, <2>2 DEF SyncInv, FrozenStep
<1> DEFINE Writes(new, p, st) ==
        /\ new \in Seq(Row) /\ Len(new) = Len(task) /\ DOMAIN new = DOMAIN task
        /\ new[id].phase = p /\ new[id].status = st
        /\ \A u \in DOMAIN task \ {id} : new[u] = task[u]
<1>6. ASSUME NEW p \in Phase, NEW st \in {"failed", "completed"},
             failed => p = phase /\ st = "failed",
             ~failed => p = "completed" /\ st = "completed",
             Writes(task', p, st),
             sfaults' = sfaults
      PROVE  SyncInv' /\ FrozenStep
  <2>1. SyncTypeOK'
    BY <1>1, <1>2, <1>6 DEF SyncInv, SyncTypeOK, Row
  <2>2. ~failed => /\ spc = "end"
                   /\ dayReport = [task |-> id, input |-> data]
                   /\ runRow[id] = "published" /\ checkpoint[id] = data /\ Settled(id)
    BY <1>1 DEF SyncInv, Published
  <2>3. FinishedIsPublished'
    BY <1>1, <1>2, <1>6, <2>2 DEF FinishedIsPublished
  <2>4. p # "collecting" => Settled(id)
    BY <1>1, <1>6, <2>2 DEF SyncInv, FrozenTasks, Busy
  <2>5. FrozenTasks'
    BY <1>1, <1>2, <1>4, <1>6, <2>4 DEF SyncInv, FrozenTasks, Busy
  <2>6. QED
    BY <1>2, <1>3, <2>1, <2>3, <2>5 DEF SyncInv, FrozenStep
<1>7. CASE failed
  <2>1. CASE /\ task' = [task EXCEPT ![id].phase = phase, ![id].status = "failed"]
             /\ UNCHANGED sfaults
    <3>1. Writes(task', phase, "failed")
      <4> DEFINE row == [task[id] EXCEPT !.phase = phase, !.status = "failed"]
      <4>1. task \in Seq(Row) /\ id \in DOMAIN task
        BY <1>1 DEF SyncInv, SyncTypeOK, Row
      <4>2. task[id] \in Row
        BY <4>1, RowOfSeq
      <4>3. row \in Row /\ row.phase = phase /\ row.status = "failed"
        BY <1>1, <4>2 DEF Row
      <4>4. task' = [task EXCEPT ![id] = row]
        BY <2>1, <4>1
      <4> HIDE DEF row
      <4>5. QED
        BY <4>1, <4>3, <4>4, RowOfSeq
    <3> HIDE DEF Writes
    <3>2. QED
      BY <1>1, <1>6, <1>7, <2>1, <3>1
  <2>2. QED
    BY <1>5, <1>7, <2>1 DEF SaveSyncTask
<1>8. CASE ~failed
  <2>1. CASE /\ task' = [task EXCEPT ![id].phase = "completed", ![id].status = "completed"]
             /\ UNCHANGED sfaults
    <3>1. Writes(task', "completed", "completed")
      BY <1>1, <2>1, RowWritten DEF SyncInv, Phase
    <3> HIDE DEF Writes
    <3>2. QED
      BY <1>1, <1>6, <1>8, <2>1, <3>1 DEF Phase
  <2>2. QED
    BY <1>5, <1>8, <2>1 DEF SaveSyncTask
<1>9. QED
  BY <1>7, <1>8

\* Every step keeps the invariant, and every frozen input.
LEMMA SyncStepKeeps == ASSUME SyncInv, SyncNext PROVE SyncInv' /\ FrozenStep
BY CallKeeps, SimpleKeeps, BeginKeeps, ReuseKeeps, CollectKeeps, IsolatesKeeps, CountKeeps,
   CommitDataKeeps, AnalysisKeeps, RecordKeeps, SaveKeeps
DEF SyncNext, SyncStep

LEMMA SyncStutter == ASSUME SyncInv, UNCHANGED syncVars PROVE SyncInv' /\ FrozenStep
<1>1. /\ UNCHANGED task /\ UNCHANGED checkpoint /\ UNCHANGED runRow /\ UNCHANGED data
      /\ UNCHANGED dayReport /\ UNCHANGED listed /\ UNCHANGED id /\ UNCHANGED phase
      /\ UNCHANGED next /\ UNCHANGED items /\ UNCHANGED failed
      /\ UNCHANGED config /\ UNCHANGED spc /\ UNCHANGED evidence /\ UNCHANGED sfaults
  BY DEF syncVars, tables, callVars
<1>2. SyncTypeOK'
  BY <1>1 DEF SyncInv, SyncTypeOK
<1>3. UnderWay' /\ PhaseIsStored' /\ StockIsNext' /\ FrozenTasks' /\ Collected'
  BY <1>1 DEF SyncInv, UnderWay, PhaseIsStored, StockIsNext, FrozenTasks, Settled, Collected
<1>4. InMemory' /\ Published' /\ FinishedIsPublished'
  BY <1>1 DEF SyncInv, InMemory, Published, FinishedIsPublished, Settled
<1>5. QED
  BY <1>1, <1>2, <1>3, <1>4 DEF SyncInv, FrozenStep

-----------------------------------------------------------------------------
LEMMA SyncInvHolds == SyncSpec => []SyncInv
<1>1. SyncInit => SyncInv
  BY SyncStart
<1>2. SyncInv /\ [SyncNext]_syncVars => SyncInv'
  BY SyncStepKeeps, SyncStutter
<1>3. QED
  BY <1>1, <1>2, PTL DEF SyncSpec

\* Every table and every variable of a call keeps its type.
THEOREM SyncTyped == SyncSpec => []SyncTypeOK
<1>1. SyncInv => SyncTypeOK
  BY DEF SyncInv
<1>2. QED
  BY <1>1, SyncInvHolds, PTL

\* "A completed analysis input is frozen even when some stocks were isolated":
\* no retry, of whatever process, changes what a task past collecting analyses.
THEOREM FrozenInputsHolds == SyncSpec => FrozenInputs
<1>1. SyncInv /\ [SyncNext]_syncVars => FrozenStep
  BY SyncStepKeeps, SyncStutter
<1>2. SyncInv /\ [SyncNext]_syncVars =>
          [\A t \in DOMAIN task :
              task[t].phase # "collecting" /\ task'[t].phase # "collecting" =>
                  checkpoint'[t] = checkpoint[t]]_syncVars
  BY <1>1 DEF FrozenStep
<1>3. QED
  BY <1>2, SyncInvHolds, PTL DEF SyncSpec, FrozenInputs

\* A task that is stored as finished has its report, its histories and its run
\* published, and they are what its checkpoints hold.
THEOREM FinishedIsPublishedHolds == SyncSpec => []FinishedIsPublished
<1>1. SyncInv => FinishedIsPublished
  BY DEF SyncInv
<1>2. QED
  BY <1>1, SyncInvHolds, PTL

-----------------------------------------------------------------------------
(***************************************************************************)
(* WalkForward, for any stocks, histories, rules and labels: what may be   *)
(* known at a date is what came before it.  Two pools that have the same   *)
(* bars before a day are compared; whatever the code computes of them up   *)
(* to that day must be the same.                                           *)
(***************************************************************************)

\* The pools have the same stocks, and the same bars before d.
AgreeUntil(P, Q, d) ==
    /\ DOMAIN P = DOMAIN Q
    /\ \A c \in DOMAIN P, i \in Nat :
          \/ i \in DOMAIN P[c] /\ P[c][i].date < d
          \/ i \in DOMAIN Q[c] /\ Q[c][i].date < d
          => i \in DOMAIN P[c] /\ i \in DOMAIN Q[c] /\ P[c][i] = Q[c][i]

LEMMA PoolShape ==
    ASSUME NEW P, IsPool(P), NEW c \in DOMAIN P
    PROVE  /\ Len(P[c]) \in Nat /\ DOMAIN P[c] = 1 .. Len(P[c])
           /\ \A i \in 1 .. Len(P[c]) : P[c][i] \in PoolBar /\ P[c][i].date \in Nat
           /\ \A i, j \in 1 .. Len(P[c]) : i < j => P[c][i].date < P[c][j].date
           /\ \A i, j \in 1 .. Len(P[c]) : i <= j => P[c][i].date <= P[c][j].date
<1>1. P[c] \in Seq(PoolBar) /\ \A i, j \in DOMAIN P[c] : i < j => P[c][i].date < P[c][j].date
  BY DEF IsPool
<1>2. Len(P[c]) \in Nat /\ DOMAIN P[c] = 1 .. Len(P[c]) /\ \A i \in 1 .. Len(P[c]) : P[c][i] \in PoolBar
  BY <1>1
<1>3. \A i \in 1 .. Len(P[c]) : P[c][i].date \in Nat
  BY <1>2 DEF PoolBar
<1>4. \A i, j \in 1 .. Len(P[c]) : i <= j => P[c][i].date <= P[c][j].date
  <2> TAKE i, j \in 1 .. Len(P[c])
  <2>1. CASE i = j BY <2>1, <1>3
  <2>2. CASE i < j BY <2>2, <1>1, <1>2, <1>3
  <2> QED BY <2>1, <2>2, <1>2
<1> QED BY <1>1, <1>2, <1>3, <1>4

LEMMA AgreeSymmetric ==
    ASSUME NEW P, NEW Q, NEW d, AgreeUntil(P, Q, d) PROVE AgreeUntil(Q, P, d)
  BY DEF AgreeUntil

LEMMA LabelDays ==
    ASSUME NEW k \in Label PROVE k.days \in Nat /\ 1 <= k.days
<1>1. k.days \in HoldingDays BY DEF Label
<1>2. HoldingDays \subseteq Nat \ {0} BY WalkAssumption
<1>3. k.days \in Nat /\ k.days # 0 BY <1>1, <1>2
<1> QED BY <1>3

LEMMA SamePrefix ==
    ASSUME NEW P, NEW Q, IsPool(P), IsPool(Q), NEW e \in Nat, AgreeUntil(P, Q, e),
           NEW c \in DOMAIN P, NEW i \in 1 .. Len(P[c]), P[c][i].date < e
    PROVE  /\ c \in DOMAIN Q /\ i \in 1 .. Len(Q[c])
           /\ \A j \in 1 .. i : P[c][j] = Q[c][j]
           /\ \A a \in 1 .. i, b \in Int : b <= i => SubSeq(P[c], a, b) = SubSeq(Q[c], a, b)
<1>0. c \in DOMAIN Q BY DEF AgreeUntil
<1>1. /\ Len(P[c]) \in Nat /\ DOMAIN P[c] = 1 .. Len(P[c])
      /\ Len(Q[c]) \in Nat /\ DOMAIN Q[c] = 1 .. Len(Q[c])
  BY <1>0, PoolShape
<1>2. \A j \in 1 .. i : P[c][j].date < e
  <2> TAKE j \in 1 .. i
  <2>1. j \in 1 .. Len(P[c]) /\ j <= i BY <1>1
  <2>2. P[c][j].date <= P[c][i].date /\ P[c][j].date \in Nat /\ P[c][i].date \in Nat BY <2>1, PoolShape
  <2> QED BY <2>2
<1>3. \A j \in 1 .. i : j \in 1 .. Len(Q[c]) /\ P[c][j] = Q[c][j]
  BY <1>1, <1>2 DEF AgreeUntil
<1>4. \A a \in 1 .. i, b \in Int : b <= i => SubSeq(P[c], a, b) = SubSeq(Q[c], a, b)
  <2> SUFFICES ASSUME NEW a \in 1 .. i, NEW b \in Int, b <= i PROVE SubSeq(P[c], a, b) = SubSeq(Q[c], a, b)
    OBVIOUS
  <2>1. \A j \in a .. b : P[c][j] \in PoolBar /\ Q[c][j] \in PoolBar /\ P[c][j] = Q[c][j]
    BY <1>0, <1>1, <1>3, PoolShape
  <2>2. /\ SubSeq(P[c], a, b) \in Seq(PoolBar)
        /\ Len(SubSeq(P[c], a, b)) = IF a <= b THEN b - a + 1 ELSE 0
        /\ \A j \in 1 .. b - a + 1 : SubSeq(P[c], a, b)[j] = P[c][a + j - 1]
    BY <2>1, SubSeqProperties
  <2>3. /\ SubSeq(Q[c], a, b) \in Seq(PoolBar)
        /\ Len(SubSeq(Q[c], a, b)) = IF a <= b THEN b - a + 1 ELSE 0
        /\ \A j \in 1 .. b - a + 1 : SubSeq(Q[c], a, b)[j] = Q[c][a + j - 1]
    BY <2>1, SubSeqProperties
  <2>4. \A j \in 1 .. b - a + 1 : a + j - 1 \in a .. b OBVIOUS
  <2>5. \A j \in 1 .. Len(SubSeq(P[c], a, b)) : SubSeq(P[c], a, b)[j] = SubSeq(Q[c], a, b)[j]
    BY <2>1, <2>2, <2>3, <2>4
  <2> HIDE DEF IsPool
  <2> QED BY <2>2, <2>3, <2>5, SeqEqual
<1> QED BY <1>0, <1>1, <1>3, <1>4

LEMMA PlacedIn ==
    ASSUME NEW P, NEW d, NEW s
    PROVE  s \in Placed(P, d) <=> \E c \in DOMAIN P : \E i \in Warmup .. Len(P[c]) : s = <<c, i>> /\ P[c][i].date = d
  BY DEF Placed, DateOf, BarOfSample

LEMMA SamplesIn ==
    ASSUME NEW P, NEW s
    PROVE  s \in Samples(P) <=>
              \E c \in DOMAIN P : \E i \in Warmup .. Len(P[c]) - 1 :
                  /\ s = <<c, i>> /\ P[c][i].date \in Trading
                  /\ \E k \in Label : HasLabel(P, s, k)
  BY DEF Samples, DateOf, BarOfSample

LEMMA SameCrossSection ==
    ASSUME NEW P, NEW Q, IsPool(P), IsPool(Q), NEW e \in Nat, AgreeUntil(P, Q, e), NEW d \in Nat, d < e
    PROVE  /\ Placed(P, d) = Placed(Q, d)
           /\ \A s \in Placed(P, d) : FeaturesOf(P, s) = FeaturesOf(Q, s)
           /\ CrossSection(P, d) = CrossSection(Q, d)
<1>1. ASSUME NEW A, NEW B, IsPool(A), IsPool(B), AgreeUntil(A, B, e), NEW s \in Placed(A, d)
      PROVE  s \in Placed(B, d) /\ FeaturesOf(A, s) = FeaturesOf(B, s)
  <2>0. PICK c \in DOMAIN A : \E i \in Warmup .. Len(A[c]) : s = <<c, i>> /\ A[c][i].date = d
    BY <1>1, PlacedIn
  <2>1. PICK i \in Warmup .. Len(A[c]) : s = <<c, i>> /\ A[c][i].date = d
    BY <2>0
  <2>2. i \in 1 .. Len(A[c]) /\ Len(A[c]) \in Nat
    BY <2>1, <1>1, PoolShape, WalkAssumption
  <2>3. /\ c \in DOMAIN B /\ i \in 1 .. Len(B[c]) /\ A[c][i] = B[c][i]
        /\ SubSeq(A[c], 1, i) = SubSeq(B[c], 1, i)
    BY <1>1, <2>1, <2>2, SamePrefix
  <2>4. Len(B[c]) \in Nat BY <1>1, <2>3, PoolShape
  <2>5. s \in Placed(B, d)
    <3>1. i \in Warmup .. Len(B[c]) BY <2>1, <2>3, <2>4, WalkAssumption
    <3> QED BY <2>1, <2>3, <3>1, PlacedIn
  <2> QED BY <2>1, <2>3, <2>5 DEF FeaturesOf
<1>2. AgreeUntil(Q, P, e) BY AgreeSymmetric
<1>3. Placed(P, d) = Placed(Q, d) /\ \A s \in Placed(P, d) : FeaturesOf(P, s) = FeaturesOf(Q, s)
  BY <1>1, <1>2
<1> QED BY <1>3 DEF CrossSection

\* What is read of a sample, before e.
LEMMA SameSample ==
    ASSUME NEW P, NEW Q, IsPool(P), IsPool(Q), NEW e \in Nat, AgreeUntil(P, Q, e),
           NEW c \in DOMAIN P, NEW i \in Warmup .. Len(P[c]), P[c][i].date < e
    PROVE  /\ c \in DOMAIN Q /\ i \in Warmup .. Len(Q[c])
           /\ DateOf(P, <<c, i>>) = DateOf(Q, <<c, i>>) /\ DateOf(P, <<c, i>>) = P[c][i].date
           /\ BarOfSample(P, <<c, i>>) = BarOfSample(Q, <<c, i>>)
           /\ FeaturesOf(P, <<c, i>>) = FeaturesOf(Q, <<c, i>>)
           /\ CrossSection(P, DateOf(P, <<c, i>>)) = CrossSection(Q, DateOf(Q, <<c, i>>))
           /\ RulesOf(P, <<c, i>>) = RulesOf(Q, <<c, i>>)
<1>1. Len(P[c]) \in Nat /\ i \in 1 .. Len(P[c]) /\ P[c][i].date \in Nat BY PoolShape, WalkAssumption
<1>2. c \in DOMAIN Q /\ i \in 1 .. Len(Q[c]) /\ P[c][i] = Q[c][i] /\ SubSeq(P[c], 1, i) = SubSeq(Q[c], 1, i)
  BY <1>1, SamePrefix
<1>3. Len(Q[c]) \in Nat /\ i \in Warmup .. Len(Q[c]) BY <1>2, PoolShape, WalkAssumption
<1>4. /\ DateOf(P, <<c, i>>) = DateOf(Q, <<c, i>>) /\ DateOf(P, <<c, i>>) = P[c][i].date
      /\ BarOfSample(P, <<c, i>>) = BarOfSample(Q, <<c, i>>)
      /\ FeaturesOf(P, <<c, i>>) = FeaturesOf(Q, <<c, i>>)
  BY <1>2 DEF DateOf, BarOfSample, FeaturesOf
<1>5. CrossSection(P, DateOf(P, <<c, i>>)) = CrossSection(Q, DateOf(Q, <<c, i>>))
  <2>1. CrossSection(P, P[c][i].date) = CrossSection(Q, P[c][i].date) BY <1>1, SameCrossSection
  <2> QED BY <2>1, <1>4
<1>6. RulesOf(P, <<c, i>>) = RulesOf(Q, <<c, i>>) BY <1>4, <1>5 DEF RulesOf
<1> QED BY <1>2, <1>3, <1>4, <1>5, <1>6

LEMMA SameLabel ==
    ASSUME NEW P, NEW Q, IsPool(P), IsPool(Q), NEW e \in Nat, AgreeUntil(P, Q, e),
           NEW c \in DOMAIN P, NEW i \in Warmup .. Len(P[c]), NEW k \in Label,
           HasLabel(P, <<c, i>>, k), LabelEnd(P, <<c, i>>, k) < e
    PROVE  /\ P[c][i].date < e
           /\ HasLabel(Q, <<c, i>>, k)
           /\ LabelEnd(Q, <<c, i>>, k) = LabelEnd(P, <<c, i>>, k)
           /\ LabelOutcome(Q, <<c, i>>, k) = LabelOutcome(P, <<c, i>>, k)
<1> DEFINE m == i + k.days + 1
<1>1. k.days \in Nat /\ Warmup \in Nat /\ 1 <= Warmup BY LabelDays, WalkAssumption
<1>2. Len(P[c]) \in Nat /\ i \in Nat /\ m \in 1 .. Len(P[c]) /\ i <= m /\ i \in 1 .. Len(P[c]) /\ 1 <= i
  BY <1>1, PoolShape DEF HasLabel
<1>3. P[c][m].date < e BY DEF LabelEnd
<1>4. /\ c \in DOMAIN Q /\ m \in 1 .. Len(Q[c]) /\ \A j \in 1 .. m : P[c][j] = Q[c][j]
      /\ SubSeq(P[c], i, m) = SubSeq(Q[c], i, m)
  BY <1>2, <1>3, SamePrefix
<1>5. Len(Q[c]) \in Nat BY <1>4, PoolShape
<1>6. Simulated(Q, <<c, i>>, k) = Simulated(P, <<c, i>>, k) BY <1>4 DEF Simulated
<1>7. HasLabel(Q, <<c, i>>, k) BY <1>4, <1>5, <1>6 DEF HasLabel
<1>8. LabelEnd(Q, <<c, i>>, k) = LabelEnd(P, <<c, i>>, k)
  <2>1. m \in 1 .. m BY <1>2
  <2> HIDE DEF m
  <2>2. P[c][m] = Q[c][m] BY <2>1, <1>4
  <2> QED BY <2>2 DEF LabelEnd, m
<1>9. \A j \in i .. m : P[c][j] = Q[c][j] BY <1>2, <1>4
<1>10. \A j \in i + 1 .. m : Rescaled(P, <<c, i>>, j) <=> Rescaled(Q, <<c, i>>, j)
  <2> TAKE j \in i + 1 .. m
  <2>1. P[c][j] = Q[c][j] /\ P[c][i] = Q[c][i] BY <1>2, <1>9
  <2> QED BY <2>1 DEF Rescaled, BarOfSample
<1>11. LabelOutcome(Q, <<c, i>>, k) = LabelOutcome(P, <<c, i>>, k)
  BY <1>6, <1>10 DEF LabelOutcome
<1>12. P[c][i].date < e
  <2>1. P[c][i].date <= P[c][m].date /\ P[c][i].date \in Nat /\ P[c][m].date \in Nat BY <1>2, PoolShape
  <2> QED BY <2>1, <1>3
<1> QED BY <1>7, <1>8, <1>11, <1>12

LEMMA SameMatured ==
    ASSUME NEW P, NEW Q, IsPool(P), IsPool(Q), NEW e \in Nat, AgreeUntil(P, Q, e),
           NEW cutoff \in Nat, cutoff <= e, NEW rule, NEW k \in Label
    PROVE  /\ Matured(P, rule, k, cutoff) = Matured(Q, rule, k, cutoff)
           /\ \A s \in Matured(P, rule, k, cutoff) : LabelTold(P, s, k) = LabelTold(Q, s, k)
<1>1. ASSUME NEW A, NEW B, IsPool(A), IsPool(B), AgreeUntil(A, B, e), NEW s \in Matured(A, rule, k, cutoff)
      PROVE  s \in Matured(B, rule, k, cutoff) /\ LabelTold(A, s, k) = LabelTold(B, s, k)
  <2>1. s \in Samples(A) /\ rule \in RulesOf(A, s) /\ HasLabel(A, s, k) /\ LabelEnd(A, s, k) < cutoff
    BY <1>1 DEF Matured, Labelled
  <2>0. PICK c \in DOMAIN A : \E i \in Warmup .. Len(A[c]) - 1 : s = <<c, i>> /\ A[c][i].date \in Trading
    BY <2>1, SamplesIn
  <2>2. PICK i \in Warmup .. Len(A[c]) - 1 : s = <<c, i>> /\ A[c][i].date \in Trading
    BY <2>0
  <2>3. i \in Warmup .. Len(A[c]) /\ Len(A[c]) \in Nat BY <1>1, <2>2, PoolShape, WalkAssumption
  <2>4. LabelEnd(A, s, k) \in Nat
    <3>1. k.days \in Nat BY LabelDays, WalkAssumption
    <3>2. i + k.days + 1 \in 1 .. Len(A[c]) BY <2>1, <2>2, <2>3, <3>1, WalkAssumption DEF HasLabel
    <3> QED BY <1>1, <2>2, <3>2, PoolShape DEF LabelEnd
  <2>5. LabelEnd(A, s, k) < e BY <2>1, <2>4
  <2>6. /\ A[c][i].date < e /\ HasLabel(B, s, k) /\ LabelEnd(B, s, k) = LabelEnd(A, s, k)
        /\ LabelOutcome(B, s, k) = LabelOutcome(A, s, k)
    BY <1>1, <2>1, <2>2, <2>3, <2>5, SameLabel
  <2>7. /\ c \in DOMAIN B /\ i \in Warmup .. Len(B[c]) /\ DateOf(A, s) = DateOf(B, s)
        /\ DateOf(A, s) = A[c][i].date /\ RulesOf(A, s) = RulesOf(B, s)
    BY <1>1, <2>2, <2>3, <2>6, SameSample
  <2>8. s \in Samples(B)
    <3>1. k.days \in Nat /\ 1 <= k.days BY LabelDays, WalkAssumption
    <3>2. i + k.days + 1 <= Len(B[c]) BY <2>6, <2>2 DEF HasLabel
    <3>3. i \in Warmup .. Len(B[c]) - 1 BY <1>1, <2>7, <3>1, <3>2, PoolShape, WalkAssumption
    <3>4. B[c][i].date \in Trading BY <2>2, <2>7 DEF DateOf, BarOfSample
    <3> QED BY <2>2, <2>6, <2>7, <3>3, <3>4, SamplesIn
  <2> QED BY <2>1, <2>6, <2>7, <2>8 DEF Matured, Labelled, LabelTold
<1>2. AgreeUntil(Q, P, e) BY AgreeSymmetric
<1> QED BY <1>1, <1>2

\* Analyze's promise (research.go:621-622) about what is known at a date: the statistics up
\* to a cutoff, and how a stock is ranked on a date, are the same whatever came afterwards.
THEOREM NoLookahead ==
    ASSUME NEW P, NEW Q, IsPool(P), IsPool(Q), NEW e \in Nat, AgreeUntil(P, Q, e)
    PROVE  /\ \A cutoff \in 0 .. e : StatsFor(P, cutoff) = StatsFor(Q, cutoff)
           /\ \A c \in DOMAIN P : \A i \in Warmup .. Len(P[c]) : \A stats :
                 P[c][i].date < e => Candidate(P, <<c, i>>, stats) = Candidate(Q, <<c, i>>, stats)
<1>1. ASSUME NEW cutoff \in 0 .. e PROVE StatsFor(P, cutoff) = StatsFor(Q, cutoff)
  <2>1. ASSUME NEW r \in Rule \X Label
        PROVE  {LabelTold(P, s, r[2]) : s \in Matured(P, r[1], r[2], cutoff)}
               = {LabelTold(Q, s, r[2]) : s \in Matured(Q, r[1], r[2], cutoff)}
    <3>1. cutoff \in Nat /\ cutoff <= e /\ r[2] \in Label BY <1>1, <2>1
    <3>2. /\ Matured(P, r[1], r[2], cutoff) = Matured(Q, r[1], r[2], cutoff)
          /\ \A s \in Matured(P, r[1], r[2], cutoff) : LabelTold(P, s, r[2]) = LabelTold(Q, s, r[2])
      BY <3>1, SameMatured
    <3> QED BY <3>2
  <2> QED BY <2>1 DEF StatsFor
<1>2. ASSUME NEW c \in DOMAIN P, NEW i \in Warmup .. Len(P[c]), NEW stats, P[c][i].date < e
      PROVE  Candidate(P, <<c, i>>, stats) = Candidate(Q, <<c, i>>, stats)
  BY <1>2, SameSample DEF Candidate
<1> QED BY <1>1, <1>2

\* The timeline's lists: the labels of a rule in the order of their ends.
IsListing(P, lists) ==
    \A r \in Rule \X Label :
        /\ lists[r] \in Seq(Labelled(P, r[1], r[2]))
        /\ \A s \in Labelled(P, r[1], r[2]) : \E i \in 1 .. Len(lists[r]) : lists[r][i] = s
        /\ \A i, j \in 1 .. Len(lists[r]) :
              i <= j => LabelEnd(P, lists[r][i], r[2]) <= LabelEnd(P, lists[r][j], r[2])

Ascending(dates) ==
    /\ dates \in Seq(Nat)
    /\ \A m, n \in 1 .. Len(dates) : m <= n => dates[m] <= dates[n]

LEMMA LeastDate ==
    ASSUME NEW X \in SUBSET Nat, X # {}
    PROVE  \E x \in X : \A y \in X : x <= y
<1>1. IsWellFoundedOn(OpToRel(<, Nat), Nat)
  BY NatLessThanWellFounded
<1>2. PICK x \in X : \A y \in X : ~(<<y, x>> \in OpToRel(<, Nat))
  BY <1>1, WFMin
<1>3. \A y \in X : x <= y
  <2> SUFFICES ASSUME NEW y \in X, ~(x <= y) PROVE FALSE
    OBVIOUS
  <2>1. x \in Nat /\ y \in Nat /\ y < x
    OBVIOUS
  <2>2. <<y, x>> \in OpToRel(<, Nat)
    BY <2>1, Zenon DEF OpToRel
  <2> QED BY <1>2, <2>2
<1> QED BY <1>3

LEMMA LabelEndsAreDates ==
    ASSUME NEW P, IsPool(P), NEW rule, NEW k \in Label, NEW s \in Labelled(P, rule, k)
    PROVE  LabelEnd(P, s, k) \in Nat
<1>1. s \in Samples(P) /\ HasLabel(P, s, k) BY DEF Labelled
<1>2. PICK c \in DOMAIN P : \E i \in Warmup .. Len(P[c]) - 1 : s = <<c, i>>
  BY <1>1, SamplesIn
<1>3. PICK i \in Warmup .. Len(P[c]) - 1 : s = <<c, i>> BY <1>2
<1>4. k.days \in Nat /\ Len(P[c]) \in Nat /\ Warmup \in Nat BY LabelDays, PoolShape, WalkAssumption
<1>5. i + k.days + 1 \in 1 .. Len(P[c]) BY <1>1, <1>3, <1>4 DEF HasLabel
<1> QED BY <1>3, <1>5, PoolShape DEF LabelEnd

\* What a position has passed is what ended before the date.
LEMMA PositionsAreCutoffs ==
    ASSUME NEW P, IsPool(P), NEW lists, IsListing(P, lists), NEW dates, Ascending(dates),
           NEW pos, IsTimeline(P, lists, dates, pos), NEW r \in Rule \X Label,
           NEW n \in 1 .. Len(dates)
    PROVE  /\ pos[n][r] \in 0 .. Len(lists[r])
           /\ \A i \in 1 .. Len(lists[r]) :
                 i <= pos[n][r] <=> LabelEnd(P, lists[r][i], r[2]) < dates[n]
<1> DEFINE end(i) == LabelEnd(P, lists[r][i], r[2])
           L == Len(lists[r])
<1>1. /\ L \in Nat /\ Len(dates) \in Nat
      /\ \A i \in 1 .. L : lists[r][i] \in Labelled(P, r[1], r[2])
      /\ \A i, j \in 1 .. L : i <= j => end(i) <= end(j)
      /\ \A m \in 1 .. Len(dates) : dates[m] \in Nat
      /\ \A m, q \in 1 .. Len(dates) : m <= q => dates[m] <= dates[q]
  <2>1. lists[r] \in Seq(Labelled(P, r[1], r[2])) BY DEF IsListing
  <2>2. L \in Nat /\ \A i \in 1 .. L : lists[r][i] \in Labelled(P, r[1], r[2]) BY <2>1
  <2>3. \A i, j \in 1 .. L : i <= j => end(i) <= end(j) BY DEF IsListing
  <2> QED BY <2>2, <2>3 DEF Ascending
<1>2. \A i \in 1 .. L : end(i) \in Nat
  <2>1. r[2] \in Label OBVIOUS
  <2> QED BY <1>1, <2>1, LabelEndsAreDates
<1>3. \A m \in 0 .. Len(dates) : pos[m][r] \in Nat
  BY DEF IsTimeline
<1>4. \A m \in 1 .. Len(dates) :
         /\ pos[m][r] \in pos[m - 1][r] .. L
         /\ \A i \in pos[m - 1][r] + 1 .. pos[m][r] : end(i) < dates[m]
         /\ pos[m][r] < L => end(pos[m][r] + 1) >= dates[m]
  BY DEF IsTimeline, Advances
<1>5. pos[0][r] = 0 BY DEF IsTimeline
<1> HIDE DEF end, L
<1> DEFINE Bad == {m \in 1 .. Len(dates) : \E i \in 1 .. pos[m][r] : ~(end(i) < dates[m])}
<1>6. Bad = {}
  <2> SUFFICES ASSUME Bad # {} PROVE FALSE
    OBVIOUS
  <2>1. PICK m \in Bad : \A y \in Bad : m <= y
    <3>1. Bad \in SUBSET Nat OBVIOUS
    <3> HIDE DEF Bad
    <3> QED BY <3>1, LeastDate
  <2>2. PICK i \in 1 .. pos[m][r] : ~(end(i) < dates[m]) OBVIOUS
  <2>3. /\ m \in 1 .. Len(dates) /\ m \in Nat /\ m - 1 \in 0 .. Len(dates)
        /\ pos[m][r] \in Nat /\ pos[m - 1][r] \in Nat /\ pos[m][r] <= L /\ i \in 1 .. L
    <3>1. m \in 1 .. Len(dates) OBVIOUS
    <3>2. m - 1 \in 0 .. Len(dates) /\ m \in 0 .. Len(dates) BY <3>1, <1>1
    <3>3. pos[m][r] \in Nat /\ pos[m - 1][r] \in Nat BY <3>2, <1>3
    <3>4. pos[m][r] <= L BY <1>4, <3>1, <3>3, <1>1
    <3> QED BY <3>1, <3>2, <3>3, <3>4, <1>1
  <2>4. i <= pos[m - 1][r]
    <3> SUFFICES ASSUME ~(i <= pos[m - 1][r]) PROVE FALSE
      OBVIOUS
    <3>1. i \in pos[m - 1][r] + 1 .. pos[m][r] BY <2>3
    <3> QED BY <3>1, <2>2, <2>3, <1>4
  <2>5. CASE m = 1
    <3>1. pos[m - 1][r] = 0 BY <2>5, <1>5
    <3>2. i \in 1 .. pos[m][r] BY <2>2
    <3> QED BY <2>4, <3>1, <3>2, <2>3
  <2>6. CASE m # 1
    <3>1. m - 1 \in 1 .. Len(dates) BY <2>3, <2>6
    <3>2. m - 1 \notin Bad BY <2>1, <2>3
    <3>3. end(i) < dates[m - 1] BY <3>1, <3>2, <2>3, <2>4
    <3>4. dates[m - 1] <= dates[m]
      <4>1. \A a, q \in 1 .. Len(dates) : a <= q => dates[a] <= dates[q] BY <1>1
      <4>2. m - 1 <= m BY <2>3
      <4>3. \A a \in 1 .. Len(dates) : a <= m => dates[a] <= dates[m] BY <4>1, <2>3, Zenon
      <4> QED BY ONLY <3>1, <4>2, <4>3
    <3>5. end(i) \in Nat BY <1>2, <2>3
    <3>6. dates[m - 1] \in Nat /\ dates[m] \in Nat BY <1>1, <2>3, <3>1
    <3> QED BY <3>3, <3>4, <3>5, <3>6, <2>2
  <2> QED BY <2>5, <2>6
<1>7. n \in 0 .. Len(dates) /\ n - 1 \in 0 .. Len(dates) BY <1>1
<1>8. pos[n][r] \in Nat /\ pos[n - 1][r] \in Nat /\ pos[n][r] <= L BY <1>3, <1>4, <1>7, <1>1
<1>9. ASSUME NEW i \in 1 .. L PROVE i <= pos[n][r] <=> end(i) < dates[n]
  <2>1. CASE i <= pos[n][r]
    <3>1. i \in 1 .. pos[n][r] BY <2>1, <1>8
    <3> QED BY <3>1, <2>1, <1>6
  <2>2. CASE ~(i <= pos[n][r])
    <3>1. pos[n][r] < L /\ pos[n][r] + 1 \in 1 .. L /\ pos[n][r] + 1 <= i BY <2>2, <1>8, <1>1
    <3>2. end(pos[n][r] + 1) >= dates[n] BY <3>1, <1>4
    <3>3. end(pos[n][r] + 1) <= end(i) BY <3>1, <1>1
    <3>4. end(i) \in Nat /\ dates[n] \in Nat /\ end(pos[n][r] + 1) \in Nat BY <1>1, <1>2, <3>1
    <3> QED BY <2>2, <3>2, <3>3, <3>4
  <2> QED BY <2>1, <2>2
<1> QED BY <1>8, <1>9, <1>1 DEF end, L

\* The one pass over the dates (statsTimeline) gives at each of them what the statistics of
\* that date by itself would be, "preserving the per-cutoff semantics of statsFor"
\* (timeline.go:20-22): no label is counted early or late.
THEOREM TimelineIsStats ==
    ASSUME NEW P, IsPool(P), NEW lists, IsListing(P, lists), NEW dates, Ascending(dates),
           NEW pos, IsTimeline(P, lists, dates, pos), NEW n \in 1 .. Len(dates)
    PROVE  StatsTimeline(P, lists, pos, n) = StatsFor(P, dates[n])
<1>1. ASSUME NEW r \in Rule \X Label
      PROVE  {LabelTold(P, lists[r][i], r[2]) : i \in 1 .. pos[n][r]}
             = {LabelTold(P, s, r[2]) : s \in Matured(P, r[1], r[2], dates[n])}
  <2>1. /\ lists[r] \in Seq(Labelled(P, r[1], r[2]))
        /\ \A s \in Labelled(P, r[1], r[2]) : \E i \in 1 .. Len(lists[r]) : lists[r][i] = s
    BY <1>1 DEF IsListing
  <2>2. Len(lists[r]) \in Nat /\ \A i \in 1 .. Len(lists[r]) : lists[r][i] \in Labelled(P, r[1], r[2])
    BY <2>1
  <2>3. /\ pos[n][r] \in 0 .. Len(lists[r])
        /\ \A i \in 1 .. Len(lists[r]) : i <= pos[n][r] <=> LabelEnd(P, lists[r][i], r[2]) < dates[n]
    BY <1>1, PositionsAreCutoffs
  <2>4. \A i \in 1 .. pos[n][r] : lists[r][i] \in Matured(P, r[1], r[2], dates[n])
    <3> TAKE i \in 1 .. pos[n][r]
    <3>1. i \in 1 .. Len(lists[r]) /\ i <= pos[n][r] BY <2>2, <2>3
    <3> QED BY <3>1, <2>2, <2>3 DEF Matured
  <2>5. \A s \in Matured(P, r[1], r[2], dates[n]) : \E i \in 1 .. pos[n][r] : lists[r][i] = s
    <3> TAKE s \in Matured(P, r[1], r[2], dates[n])
    <3>1. s \in Labelled(P, r[1], r[2]) /\ LabelEnd(P, s, r[2]) < dates[n] BY DEF Matured
    <3>2. PICK i \in 1 .. Len(lists[r]) : lists[r][i] = s BY <3>1, <2>1
    <3>3. i <= pos[n][r] BY <3>1, <3>2, <2>3
    <3>4. i \in 1 .. pos[n][r] BY <3>3, <2>2, <2>3
    <3> QED BY <3>2, <3>4
  <2> QED BY <2>4, <2>5
<1> QED BY <1>1 DEF StatsTimeline, StatsFor

\* The pools have the same sessions and the same labels, whatever their prices.
SameSessions(P, Q) ==
    /\ DOMAIN P = DOMAIN Q
    /\ \A c \in DOMAIN P :
          /\ Len(P[c]) = Len(Q[c])
          /\ \A i \in 1 .. Len(P[c]) :
                /\ P[c][i].date = Q[c][i].date
                /\ \A k \in Label : HasLabel(P, <<c, i>>, k) <=> HasLabel(Q, <<c, i>>, k)

LEMMA SameCalendar ==
    ASSUME NEW P, NEW Q, IsPool(P), IsPool(Q), SameSessions(P, Q)
    PROVE  /\ Samples(P) = Samples(Q)
           /\ \A s \in Samples(P) :
                 /\ DateOf(P, s) = DateOf(Q, s) /\ DateOf(P, s) \in Nat
                 /\ \A k \in Label :
                       /\ HasLabel(P, s, k) <=> HasLabel(Q, s, k)
                       /\ HasLabel(P, s, k) =>
                             /\ LabelEnd(P, s, k) = LabelEnd(Q, s, k)
                             /\ LabelEnd(P, s, k) \in Nat
                             /\ DateOf(P, s) < LabelEnd(P, s, k)
<1>1. ASSUME NEW A, NEW B, IsPool(A), IsPool(B), SameSessions(A, B), NEW s \in Samples(A)
      PROVE  /\ s \in Samples(B) /\ DateOf(A, s) = DateOf(B, s) /\ DateOf(A, s) \in Nat
             /\ \A k \in Label :
                   /\ HasLabel(A, s, k) <=> HasLabel(B, s, k)
                   /\ HasLabel(A, s, k) =>
                         /\ LabelEnd(A, s, k) = LabelEnd(B, s, k)
                         /\ LabelEnd(A, s, k) \in Nat
                         /\ DateOf(A, s) < LabelEnd(A, s, k)
  <2>1. PICK c \in DOMAIN A : \E i \in Warmup .. Len(A[c]) - 1 :
                  /\ s = <<c, i>> /\ A[c][i].date \in Trading
                  /\ \E k \in Label : HasLabel(A, s, k)
    BY <1>1, SamplesIn
  <2>2. PICK i \in Warmup .. Len(A[c]) - 1 :
                  /\ s = <<c, i>> /\ A[c][i].date \in Trading
                  /\ \E k \in Label : HasLabel(A, s, k)
    BY <2>1
  <2>3. /\ Len(A[c]) \in Nat /\ i \in 1 .. Len(A[c]) /\ c \in DOMAIN B /\ Len(B[c]) = Len(A[c])
        /\ i \in Nat /\ A[c][i].date \in Nat
    <3>1. Len(A[c]) \in Nat BY <1>1, PoolShape
    <3>2. i \in 1 .. Len(A[c]) /\ i \in Nat BY <3>1, WalkAssumption
    <3>3. A[c][i].date \in Nat BY <1>1, <3>2, PoolShape
    <3> QED BY <1>1, <3>1, <3>2, <3>3 DEF SameSessions
  <2>4. /\ A[c][i].date = B[c][i].date
        /\ \A k \in Label : HasLabel(A, s, k) <=> HasLabel(B, s, k)
    BY <1>1, <2>2, <2>3 DEF SameSessions
  <2>5. s \in Samples(B) BY <2>2, <2>3, <2>4, SamplesIn
  <2>6. DateOf(A, s) = A[c][i].date /\ DateOf(B, s) = B[c][i].date BY <2>2 DEF DateOf, BarOfSample
  <2>7. ASSUME NEW k \in Label, HasLabel(A, s, k)
        PROVE  /\ LabelEnd(A, s, k) = LabelEnd(B, s, k) /\ LabelEnd(A, s, k) \in Nat
               /\ DateOf(A, s) < LabelEnd(A, s, k)
    <3>1. k.days \in Nat BY LabelDays
    <3> DEFINE m == i + k.days + 1
    <3>2. m \in 1 .. Len(A[c]) /\ i < m BY <2>2, <2>3, <2>7, <3>1 DEF HasLabel
    <3>3. LabelEnd(A, s, k) = A[c][m].date /\ LabelEnd(B, s, k) = B[c][m].date BY <2>2 DEF LabelEnd
    <3> HIDE DEF m
    <3>4. A[c][m].date = B[c][m].date BY <1>1, <3>2 DEF SameSessions
    <3>5. A[c][i].date < A[c][m].date /\ A[c][m].date \in Nat BY <1>1, <2>3, <3>2, PoolShape
    <3> QED BY <2>6, <3>3, <3>4, <3>5
  <2> QED BY <2>3, <2>4, <2>5, <2>6, <2>7
<1>2. SameSessions(Q, P) BY DEF SameSessions
<1> QED BY <1>1, <1>2

LEMMA SameDates ==
    ASSUME NEW P, NEW Q, IsPool(P), IsPool(Q), SameSessions(P, Q),
           NEW boundary \in Nat, NEW from \in Nat, NEW through \in Nat
    PROVE  EvaluationDates(P, boundary, from, through) = EvaluationDates(Q, boundary, from, through)
<1> DEFINE Inside(A) == {s \in Samples(A) : /\ HasLabel(A, s, Aim) /\ DateOf(A, s) >= from
                                            /\ through = 0 \/ DateOf(A, s) <= through}
           Crosses(A) == {s \in Inside(A) : boundary # 0 /\ LabelEnd(A, s, Aim) >= boundary}
<1>0. Aim \in Label BY WalkAssumption DEF Label
<1>1. Inside(P) = Inside(Q) /\ \A s \in Inside(P) : DateOf(P, s) = DateOf(Q, s)
  BY <1>0, SameCalendar
<1>2. Crosses(P) = Crosses(Q) BY <1>0, <1>1, SameCalendar
<1>3. {DateOf(P, s) : s \in Inside(P)} = {DateOf(Q, s) : s \in Inside(Q)}
  <2> HIDE DEF Inside
  <2> QED BY <1>1
<1>4. {DateOf(P, s) : s \in Crosses(P)} = {DateOf(Q, s) : s \in Crosses(Q)}
  <2>1. \A s \in Crosses(P) : DateOf(P, s) = DateOf(Q, s) BY <1>1
  <2> HIDE DEF Crosses
  <2> QED BY <1>2, <2>1
<1> QED BY <1>3, <1>4 DEF EvaluationDates

\* A date that is evaluated ahead of a boundary has no label that reaches it.
LEMMA DatesEndBefore ==
    ASSUME NEW P, IsPool(P), NEW b \in Nat \ {0}, NEW d \in EvaluationDates(P, b, 0, 0)
    PROVE  /\ d \in Nat /\ d < b
           /\ \A s \in Samples(P) : DateOf(P, s) = d /\ HasLabel(P, s, Aim) => LabelEnd(P, s, Aim) < b
<1> DEFINE Inside == {s \in Samples(P) : /\ HasLabel(P, s, Aim) /\ DateOf(P, s) >= 0
                                         /\ 0 = 0 \/ DateOf(P, s) <= 0}
           Crosses == {s \in Inside : b # 0 /\ LabelEnd(P, s, Aim) >= b}
<1>0. Aim \in Label BY WalkAssumption DEF Label
<1>1. SameSessions(P, P) BY DEF SameSessions
<1>2. \A s \in Samples(P) :
         /\ DateOf(P, s) \in Nat
         /\ HasLabel(P, s, Aim) => LabelEnd(P, s, Aim) \in Nat /\ DateOf(P, s) < LabelEnd(P, s, Aim)
  BY <1>0, <1>1, SameCalendar
<1>3. d \in {DateOf(P, s) : s \in Inside} /\ d \notin {DateOf(P, s) : s \in Crosses}
  BY DEF EvaluationDates
<1>4. \A s \in Samples(P) : DateOf(P, s) = d /\ HasLabel(P, s, Aim) => LabelEnd(P, s, Aim) < b
  <2> SUFFICES ASSUME NEW s \in Samples(P), DateOf(P, s) = d, HasLabel(P, s, Aim), ~(LabelEnd(P, s, Aim) < b)
               PROVE  FALSE
    OBVIOUS
  <2>1. LabelEnd(P, s, Aim) \in Nat /\ DateOf(P, s) \in Nat BY <1>2
  <2>2. s \in Inside BY <2>1
  <2>3. s \in Crosses BY <2>1, <2>2
  <2> HIDE DEF Crosses
  <2> QED BY <2>3, <1>3
<1>5. PICK s \in Inside : d = DateOf(P, s) BY <1>3
<1>6. s \in Samples(P) /\ HasLabel(P, s, Aim) BY <1>5
<1> QED BY <1>2, <1>4, <1>5, <1>6

LEMMA SameRanked ==
    ASSUME NEW P, NEW Q, IsPool(P), IsPool(Q), SameSessions(P, Q), NEW b \in Nat \ {0},
           AgreeUntil(P, Q, b), NEW d \in EvaluationDates(P, b, 0, 0), NEW stats
    PROVE  Ranked(P, d, stats) = Ranked(Q, d, stats)
<1> DEFINE At(A) == {t \in Samples(A) : DateOf(A, t) = d}
           Entry(A, s) == [code |-> s[1], date |-> d, kind |-> FeaturesOf(A, s).kind,
                           candidate |-> Candidate(A, s, stats), outcome |-> AimOutcome(A, s)]
<1>1. At(P) = At(Q) BY SameCalendar
<1>2. ASSUME NEW s \in At(P) PROVE Entry(P, s) = Entry(Q, s)
  <2>1. s \in Samples(P) /\ DateOf(P, s) = d /\ d \in Nat /\ d < b BY <1>2, DatesEndBefore
  <2>2. PICK c \in DOMAIN P : \E i \in Warmup .. Len(P[c]) - 1 : s = <<c, i>> BY <2>1, SamplesIn
  <2>3. PICK i \in Warmup .. Len(P[c]) - 1 : s = <<c, i>> BY <2>2
  <2>4. i \in Warmup .. Len(P[c]) /\ P[c][i].date < b
    <3>1. Len(P[c]) \in Nat BY PoolShape
    <3> QED BY <2>1, <2>3, <3>1, WalkAssumption DEF DateOf, BarOfSample
  <2>5. FeaturesOf(P, s) = FeaturesOf(Q, s) BY <2>3, <2>4, SameSample
  <2>6. Candidate(P, s, stats) = Candidate(Q, s, stats) BY <2>3, <2>4, NoLookahead
  <2>7. AimOutcome(P, s) = AimOutcome(Q, s)
    <3>0. Aim \in Label BY WalkAssumption DEF Label
    <3>1. HasLabel(P, s, Aim) <=> HasLabel(Q, s, Aim) BY <2>1, <3>0, SameCalendar
    <3>2. CASE ~HasLabel(P, s, Aim) BY <3>1, <3>2 DEF AimOutcome
    <3>3. CASE HasLabel(P, s, Aim)
      <4>1. LabelEnd(P, s, Aim) < b BY <2>1, <3>3, DatesEndBefore
      <4>2. LabelOutcome(Q, s, Aim) = LabelOutcome(P, s, Aim) BY <2>3, <2>4, <3>0, <3>3, <4>1, SameLabel
      <4> QED BY <3>1, <3>3, <4>2 DEF AimOutcome
    <3> QED BY <3>2, <3>3
  <2> QED BY <2>5, <2>6, <2>7
<1> HIDE DEF At, Entry
<1>3. {Entry(P, s) : s \in At(P)} = {Entry(Q, s) : s \in At(Q)} BY <1>1, <1>2
<1> QED BY <1>3 DEF At, Entry, Ranked

LEMMA SameContinuation ==
    ASSUME NEW P, NEW Q, IsPool(P), IsPool(Q), SameSessions(P, Q), NEW b \in Nat, AgreeUntil(P, Q, b),
           NEW rule, NEW cutoff \in 0 .. b
    PROVE  Continuation(P, rule, cutoff) = Continuation(Q, rule, cutoff)
<1> DEFINE Seen(A) == {s \in Samples(A) : /\ HasNext(A, s) /\ A[s[1]][s[2] + 1].date < cutoff
                                          /\ FeaturesOf(A, s).rose /\ rule \in RulesOf(A, s)}
<1>1. ASSUME NEW A, NEW B, IsPool(A), IsPool(B), SameSessions(A, B), AgreeUntil(A, B, b), NEW s \in Seen(A)
      PROVE  s \in Seen(B) /\ DateOf(A, s) = DateOf(B, s) /\ (Higher(A, s) <=> Higher(B, s))
  <2>1. s \in Samples(A) /\ s \in Samples(B) /\ DateOf(A, s) = DateOf(B, s)
    BY <1>1, SameCalendar
  <2>2. PICK c \in DOMAIN A : \E i \in Warmup .. Len(A[c]) - 1 : s = <<c, i>> BY <2>1, SamplesIn
  <2>3. PICK i \in Warmup .. Len(A[c]) - 1 : s = <<c, i>> BY <2>2
  <2>4. Len(A[c]) \in Nat /\ i \in 1 .. Len(A[c]) /\ i + 1 \in 1 .. Len(A[c]) /\ i \in Warmup .. Len(A[c])
    BY <1>1, <2>3, PoolShape, WalkAssumption
  <2>5. A[c][i + 1].date < cutoff /\ A[c][i + 1].date \in Nat /\ A[c][i].date \in Nat
        /\ A[c][i].date < A[c][i + 1].date
    BY <1>1, <2>3, <2>4, PoolShape
  <2>6. A[c][i + 1].date < b /\ A[c][i].date < b BY <2>5
  <2>7. i + 1 \in 1 .. Len(B[c]) /\ A[c][i + 1] = B[c][i + 1] /\ A[c][i] = B[c][i]
    <3>1. i \in 1 .. i + 1 /\ i + 1 \in 1 .. i + 1 BY <2>4
    <3> QED BY <1>1, <2>4, <2>6, <3>1, SamePrefix
  <2>8. FeaturesOf(A, s) = FeaturesOf(B, s) /\ RulesOf(A, s) = RulesOf(B, s)
    BY <1>1, <2>3, <2>4, <2>6, SameSample
  <2>9. HasNext(B, s)
    <3>1. s[1] = c /\ s[2] = i BY <2>3
    <3>2. Len(B[c]) = Len(A[c]) BY <1>1 DEF SameSessions
    <3> QED BY <1>1, <2>1, <2>7, <3>1, <3>2 DEF HasNext, Rescaled, BarOfSample
  <2>10. Higher(A, s) <=> Higher(B, s) BY <2>3, <2>7 DEF Higher, BarOfSample
  <2> QED BY <1>1, <2>1, <2>3, <2>7, <2>8, <2>9, <2>10
<1>2. SameSessions(Q, P) /\ AgreeUntil(Q, P, b) BY AgreeSymmetric DEF SameSessions
<1>3. /\ Seen(P) = Seen(Q)
      /\ \A s \in Seen(P) : DateOf(P, s) = DateOf(Q, s) /\ (Higher(P, s) <=> Higher(Q, s))
  <2> HIDE DEF Seen
  <2> QED BY <1>1, <1>2
<1> HIDE DEF Seen
<1>4. /\ {DateOf(P, s) : s \in Seen(P)} = {DateOf(Q, s) : s \in Seen(Q)}
      /\ {s \in Seen(P) : Higher(P, s)} = {s \in Seen(Q) : Higher(Q, s)}
  BY <1>3
<1> QED BY <1>3, <1>4 DEF Continuation, Seen

\* "A date is excluded when any stock's label crosses the optional boundary, so development
\* results cannot consume holdout outcomes" (research.go:905-907): whatever the prices are
\* from the boundary on, the development's evaluation is the same.
THEOREM HoldoutIsApart ==
    ASSUME NEW P, NEW Q, IsPool(P), IsPool(Q), SameSessions(P, Q), NEW b \in Nat \ {0},
           AgreeUntil(P, Q, b), NEW policy
    PROVE  /\ Evaluate(P, EvaluationDates(P, b, 0, 0), 0, policy) = Evaluate(Q, EvaluationDates(Q, b, 0, 0), 0, policy)
           /\ \A rule : \A cutoff \in 0 .. b : Continuation(P, rule, cutoff) = Continuation(Q, rule, cutoff)
<1> DEFINE D == EvaluationDates(P, b, 0, 0)
           StatsAt(A) == [d \in D |-> StatsFor(A, IF 0 # 0 THEN 0 ELSE d)]
           Used(A) == {d \in D \cap policy.dates : StatsAt(A)[d][<<"baseline", Aim>>].dates >= MinTraining}
<1>1. EvaluationDates(Q, b, 0, 0) = D BY SameDates
<1>2. \A d \in D : StatsFor(P, d) = StatsFor(Q, d)
  <2> TAKE d \in D
  <2>1. d \in 0 .. b BY DatesEndBefore
  <2> QED BY <2>1, NoLookahead
<1>3. StatsAt(P) = StatsAt(Q) BY <1>2
<1>4. \A d \in D : Ranked(P, d, StatsAt(P)[d]) = Ranked(Q, d, StatsAt(P)[d]) BY SameRanked
<1>5. Evaluate(P, D, 0, policy) = EvaluateDays(0, policy, [d \in Used(P) |-> Ranked(P, d, StatsAt(P)[d])])
  BY DEF Evaluate
<1>6. Evaluate(Q, D, 0, policy) = EvaluateDays(0, policy, [d \in Used(Q) |-> Ranked(Q, d, StatsAt(Q)[d])])
  BY DEF Evaluate
<1>7. Used(P) = Used(Q) /\ Used(P) \subseteq D BY <1>3
<1> HIDE DEF StatsAt, Used, D
<1>8. [d \in Used(P) |-> Ranked(P, d, StatsAt(P)[d])] = [d \in Used(Q) |-> Ranked(Q, d, StatsAt(Q)[d])]
  BY <1>3, <1>4, <1>7
<1>9. \A rule : \A cutoff \in 0 .. b : Continuation(P, rule, cutoff) = Continuation(Q, rule, cutoff)
  BY SameContinuation
<1> QED BY <1>1, <1>5, <1>6, <1>8, <1>9 DEF D

\* AnalyzeDevelopment "never evaluates the final reserved interval" (experiment.go:60-61):
\* what the prices are from the first reserved day on has no part in what it returns.
THEOREM DevelopmentIsApart ==
    ASSUME NEW P, NEW Q, IsPool(P), IsPool(Q), SameSessions(P, Q), NEW policy, ~policy.ranged,
           HoldoutFrom(P) \in Nat \ {0}, AgreeUntil(P, Q, HoldoutFrom(P))
    PROVE  Develop(P, policy) = Develop(Q, policy)
<1>1. \A days \in Nat : SignalDates(P, days) = SignalDates(Q, days)
  <2> SUFFICES ASSUME NEW days \in Nat, NEW A, NEW B, IsPool(A), IsPool(B), SameSessions(A, B),
                      NEW d \in SignalDates(A, days)
               PROVE  d \in SignalDates(B, days)
    <3>1. SameSessions(Q, P) BY DEF SameSessions
    <3>2. ASSUME NEW days \in Nat PROVE SignalDates(P, days) = SignalDates(Q, days) BY <3>1
    <3> QED BY <3>2
  <2>1. PICK c \in DOMAIN A : \E i \in Warmup .. Len(A[c]) - days - 1 : A[c][i].date = d BY DEF SignalDates
  <2>2. PICK i \in Warmup .. Len(A[c]) - days - 1 : A[c][i].date = d BY <2>1
  <2>3. i \in 1 .. Len(A[c]) BY <2>2, PoolShape, WalkAssumption
  <2>4. c \in DOMAIN B /\ Len(B[c]) = Len(A[c]) /\ B[c][i].date = A[c][i].date BY <2>3 DEF SameSessions
  <2> QED BY <2>2, <2>4 DEF SignalDates
<1>2. Aim.days \in Nat
  <2>1. Aim \in Label BY WalkAssumption DEF Label
  <2> QED BY <2>1, LabelDays
<1>3. HoldoutFrom(P) = HoldoutFrom(Q) /\ (EnoughDates(P) <=> EnoughDates(Q))
  <2>1. SignalDates(P, Aim.days) = SignalDates(Q, Aim.days) BY <1>1, <1>2
  <2> QED BY <2>1 DEF HoldoutFrom, EnoughDates
<1>4. Evaluate(P, EvaluationDates(P, HoldoutFrom(P), 0, 0), 0, policy)
      = Evaluate(Q, EvaluationDates(Q, HoldoutFrom(P), 0, 0), 0, policy)
  BY HoldoutIsApart
<1> QED BY <1>3, <1>4 DEF Develop, DevelopmentBoundary
=============================================================================
