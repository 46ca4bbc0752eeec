--------------------------- MODULE Services_proof ---------------------------
(***************************************************************************)
(* Proofs about the services of the program: ReportCycle,                  *)
(* RuntimeLifecycle, ContextSync, MinutePredictor and MinuteBackfill. The  *)
(* components share nothing, and neither do their proofs.                  *)
(***************************************************************************)
EXTENDS ReportCycle, RuntimeLifecycle, ContextSync, MinutePredictor, MinuteBackfill,
        FiniteSetTheorems, TLAPS

-----------------------------------------------------------------------------
(***************************************************************************)
(* ReportCycle, for every set of channels, every way to route them and     *)
(* every publish_by.                                                       *)
(*                                                                         *)
(* The inductive invariant adds to the properties what the steps between   *)
(* them rely on: a call holds a complete report only when that is stored,  *)
(* a complete report exists only when the artifacts do (so that a later    *)
(* synchronization does not take it back), and a call that is about to     *)
(* queue a degraded article has either seen publish_by pass or has nobody  *)
(* left to queue it for.                                                   *)
(***************************************************************************)

\* A complete report was built from the artifacts, and stored before it is used.
Backed ==
    /\ stored = "complete" => artifacts
    /\ report = "complete" => stored = "complete"

\* What is known before a degraded article may be queued.
Released ==
    pc = "enqueue" /\ report = "degraded" /\ ~deferred =>
        PublishBy <= now \/ secondStageDeliveryRecorded

\* A message was queued because of the route of its channel.
Routed ==
    \A m \in ledger : Route[m[3]] \in {<<>>, <<"all">>, <<m[1]>>}

CycleInv ==
    /\ TypeOK
    /\ Backed
    /\ Released
    /\ Routed
    /\ OneArticle
    /\ DegradedOnlyLate
    /\ ArticleIsStored

\* A new message is of the report in hand, for a configured channel that its
\* route and the deferral admit and that has no message yet (Wanted).
LEMMA WantedMessage ==
    ASSUME NEW m \in Wanted
    PROVE  /\ m \in Message
           /\ m[2] = report
           /\ m[3] \in channelNamesForRoute(m[1])
           /\ ~Recorded(ledger, m[3])
           /\ m[1] = "second_stage" => ~deferred
BY DEF Wanted

\* The article of a channel is the message with these three parts.
LEMMA ArticleMessage ==
    ASSUME NEW ch \in Channel, NEW v \in Version, NEW l \in SUBSET Message,
           <<"second_stage", v, ch>> \in l
    PROVE  Recorded(l, ch)
BY DEF Recorded

\* The counted faults stay within their bound.
LEMMA FaultBound == faults \in 0 .. MaxFaults /\ Fault => faults' \in 0 .. MaxFaults
BY TimeAssumption DEF Fault

\* The invariant holds at the start.
LEMMA CycleInitially == Init => CycleInv
<1> SUFFICES ASSUME Init PROVE CycleInv
  OBVIOUS
<1>1. 0 \in 0 .. MaxTime /\ 0 \in 0 .. MaxFaults
  BY TimeAssumption
<1>2. TypeOK
  BY <1>1 DEF Init, TypeOK
<1>3. Backed /\ Released
  BY DEF Init, Backed, Released
<1>4. Routed /\ OneArticle /\ DegradedOnlyLate /\ ArticleIsStored
  BY DEF Init, Routed, OneArticle, DegradedOnlyLate, ArticleIsStored, Version
<1> QED BY <1>2, <1>3, <1>4 DEF CycleInv

\* The steps that leave the ledger alone keep what is said of it, as long as the
\* clock does not run back and the stored report is not taken back.
LEMMA LedgerKept ==
    ASSUME CycleInv, UNCHANGED ledger, now' \in Nat, now <= now',
           stored = "complete" => stored' = "complete"
    PROVE  Routed' /\ OneArticle' /\ DegradedOnlyLate' /\ ArticleIsStored'
BY TimeAssumption
   DEF CycleInv, TypeOK, Routed, OneArticle, DegradedOnlyLate, ArticleIsStored

\* EnqueueReport, the only step that adds messages.
LEMMA EnqueueStep ==
    ASSUME CycleInv, EnqueueReport
    PROVE  CycleInv'
<1>1. Wanted \subseteq Message
  BY DEF Wanted
<1>2. ledger' \subseteq ledger \cup Wanted /\ ledger' \subseteq Message
  BY <1>1 DEF EnqueueReport, CycleInv, TypeOK
<1>3. \A m \in ledger' \ ledger : m \in Wanted /\ pc = "enqueue" /\ now < Open
  BY <1>2 DEF EnqueueReport
<1>4. TypeOK'
  <2>1. faults' \in 0 .. MaxFaults
    BY FaultBound DEF CycleInv, TypeOK, EnqueueReport
  <2> QED BY <1>2, <2>1 DEF CycleInv, TypeOK, EnqueueReport, Return
<1>5. Backed' /\ Released'
  BY DEF CycleInv, Backed, Released, EnqueueReport, Return
<1>6. Routed'
  <2> SUFFICES ASSUME NEW m \in ledger'
               PROVE  Route[m[3]] \in {<<>>, <<"all">>, <<m[1]>>}
    BY DEF Routed, EnqueueReport
  <2>1. CASE m \in ledger
    BY <2>1 DEF CycleInv, Routed
  <2>2. CASE m \notin ledger
    BY <2>2, <1>3, WantedMessage DEF channelNamesForRoute
  <2> QED BY <2>1, <2>2
<1>7. OneArticle'
  <2> SUFFICES ASSUME NEW ch \in Channel,
                      \A v \in Version : <<"second_stage", v, ch>> \in ledger'
               PROVE  FALSE
    BY DEF OneArticle
  <2>1. PICK v \in Version : <<"second_stage", v, ch>> \notin ledger
    BY DEF CycleInv, OneArticle
  <2>2. v = report /\ ~Recorded(ledger, ch)
    BY <2>1, <1>3, WantedMessage
  <2>3. PICK w \in Version : w # v
    BY DEF Version
  <2>4. <<"second_stage", w, ch>> \in ledger
    BY <2>2, <2>3, <1>3, WantedMessage
  <2> QED BY <2>2, <2>4 DEF Recorded
<1>8. DegradedOnlyLate'
  <2> SUFFICES ASSUME NEW ch \in Channel, <<"second_stage", "degraded", ch>> \in ledger'
               PROVE  PublishBy <= now
    BY DEF DegradedOnlyLate, EnqueueReport
  <2>1. CASE <<"second_stage", "degraded", ch>> \in ledger
    BY <2>1 DEF CycleInv, DegradedOnlyLate
  <2>2. CASE <<"second_stage", "degraded", ch>> \notin ledger
    <3> DEFINE m == <<"second_stage", "degraded", ch>>
    <3>1. m \in Wanted /\ pc = "enqueue"
      BY <2>2, <1>3
    <3>2. report = "degraded" /\ ~deferred /\ ~Recorded(ledger, ch)
          /\ ch \in channelNamesForRoute("second_stage")
      BY <3>1, WantedMessage
    <3>3. ~secondStageDeliveryRecorded
      BY <3>2 DEF secondStageDeliveryRecorded
    <3> QED BY <3>1, <3>2, <3>3 DEF CycleInv, Released
  <2> QED BY <2>1, <2>2
<1>9. ArticleIsStored'
  <2> SUFFICES ASSUME NEW ch \in Channel, <<"second_stage", "complete", ch>> \in ledger'
               PROVE  stored = "complete"
    BY DEF ArticleIsStored, EnqueueReport
  <2>1. CASE <<"second_stage", "complete", ch>> \in ledger
    BY <2>1 DEF CycleInv, ArticleIsStored
  <2>2. CASE <<"second_stage", "complete", ch>> \notin ledger
    <3>1. report = "complete"
      BY <2>2, <1>3, WantedMessage
    <3> QED BY <3>1 DEF CycleInv, Backed
  <2> QED BY <2>1, <2>2
<1> QED BY <1>4, <1>5, <1>6, <1>7, <1>8, <1>9 DEF CycleInv

\* The steps of prepareSecondStage and the ones before it.
LEMMA PrepareStep ==
    ASSUME CycleInv,
           \/ ReadReport \/ Sync \/ Healthy \/ Recompute \/ Incomplete \/ Deadline
    PROVE  CycleInv'
<1>1. TypeOK'
  <2>1. faults' \in 0 .. MaxFaults
    BY FaultBound
       DEF CycleInv, TypeOK, ReadReport, Sync, Healthy, Recompute, Incomplete, Deadline
  <2>2. Defers(now) \in BOOLEAN
    BY DEF Defers
  <2> QED
    BY <2>1, <2>2
       DEF CycleInv, TypeOK, ReadReport, Sync, Healthy, Recompute, Incomplete, Deadline,
           Return, Version
<1>2. Backed'
  BY DEF CycleInv, TypeOK, Backed, ReadReport, Sync, Healthy, Recompute, Incomplete, Deadline,
         Return, Fault, Version
<1>3. Released'
  <2>1. CASE ReadReport \/ Sync \/ Incomplete
    BY <2>1 DEF ReadReport, Sync, Incomplete, Return, Released
  <2>2. CASE Healthy
    BY <2>2 DEF Healthy, Released, secondStageDeliveryRecorded, channelNamesForRoute
  <2>3. CASE Recompute
    BY <2>3 DEF Recompute, Return, Released
  <2>4. CASE Deadline
    <3>1. now \in Nat
      BY DEF CycleInv, TypeOK
    <3>2. ~Defers(now) => PublishBy <= now
      BY <3>1, TimeAssumption DEF Defers
    <3>3. deferred' = Defers(now) /\ now' = now
      BY <2>4 DEF Deadline
    <3> QED BY <3>2, <3>3 DEF Released
  <2> QED BY <2>1, <2>2, <2>3, <2>4
<1>4. UNCHANGED <<ledger, now>> /\ now \in Nat
  BY DEF CycleInv, TypeOK, ReadReport, Sync, Healthy, Recompute, Incomplete, Deadline
<1>5. stored = "complete" => stored' = "complete"
  BY DEF CycleInv, Backed, ReadReport, Sync, Healthy, Recompute, Incomplete, Deadline
<1>6. Routed' /\ OneArticle' /\ DegradedOnlyLate' /\ ArticleIsStored'
  BY <1>4, <1>5, LedgerKept
<1> QED BY <1>1, <1>2, <1>3, <1>6 DEF CycleInv

\* Starts, crashes, the artifacts and the clock.
LEMMA OtherStep ==
    ASSUME CycleInv,
           \/ StartSome \/ ArtifactsArrive \/ Crash \/ Tick \/ UNCHANGED vars
    PROVE  CycleInv'
<1>1. TypeOK'
  <2>1. faults' \in 0 .. MaxFaults
    BY FaultBound
       DEF CycleInv, TypeOK, StartSome, Start, ArtifactsArrive, Crash, Tick, vars
  <2>2. now' \in 0 .. MaxTime
    BY TimeAssumption
       DEF CycleInv, TypeOK, StartSome, Start, ArtifactsArrive, Crash, Tick, vars
  <2> QED
    BY <2>1, <2>2, RouteAssumption
       DEF CycleInv, TypeOK, StartSome, Start, ArtifactsArrive, Crash, Tick, vars
<1>2. Backed'
  BY DEF CycleInv, Backed, StartSome, Start, ArtifactsArrive, Crash, Tick, vars
<1>3. Released'
  <2>1. CASE StartSome \/ Crash
    BY <2>1 DEF StartSome, Start, Crash, Released
  <2>2. CASE ArtifactsArrive \/ Tick \/ UNCHANGED vars
    BY <2>2, TimeAssumption
       DEF ArtifactsArrive, Tick, vars, CycleInv, TypeOK, Released,
           secondStageDeliveryRecorded, channelNamesForRoute
  <2> QED BY <2>1, <2>2
<1>4. UNCHANGED <<ledger, stored>> /\ now' \in Nat /\ now <= now'
  BY DEF CycleInv, TypeOK, StartSome, Start, ArtifactsArrive, Crash, Tick, vars
<1>5. Routed' /\ OneArticle' /\ DegradedOnlyLate' /\ ArticleIsStored'
  BY <1>4, LedgerKept
<1> QED BY <1>1, <1>2, <1>3, <1>5 DEF CycleInv

\* The inductive invariant holds in every state.
LEMMA CycleInvariance == Spec => []CycleInv
<1>1. CycleInv /\ [Next]_vars => CycleInv'
  BY EnqueueStep, PrepareStep, OtherStep DEF Next, Work
<1> QED BY CycleInitially, <1>1, PTL DEF Spec

-----------------------------------------------------------------------------
\* Every variable of a monitor call keeps its type.
THEOREM CycleTyped == Spec => []TypeOK
BY CycleInvariance, PTL DEF CycleInv

\* No channel is ever sent the article of a date in two versions.
THEOREM OneArticleHolds == Spec => []OneArticle
BY CycleInvariance, PTL DEF CycleInv

\* No degraded article is published before publish_by, whatever the routes are
\* and whichever channels a restarted process is configured with.
THEOREM DegradedOnlyLateHolds == Spec => []DegradedOnlyLate
BY CycleInvariance, PTL DEF CycleInv

\* A complete article is backed by the stored report.
THEOREM ArticleIsStoredHolds == Spec => []ArticleIsStored
BY CycleInvariance, PTL DEF CycleInv

\* Where every channel has exactly one stage for its route, the routes work as
\* documented: the condition that both counterexamples of the runs leave.
THEOREM SingleRoutesServed ==
    ASSUME \A ch \in Channel : \E s \in Stage : Route[ch] = <<s>>
    PROVE  Spec => EveryRouteServed
<1> DEFINE Served ==
      pc = "enqueue" /\ ~deferred /\ faults' = faults /\ now < Open /\ pc' = "top" =>
          \A ch \in live : Bound(ch, "second_stage") => HasArticle(ledger', ch)
<1>1. CycleInv /\ [Next]_vars => Served
  <2> SUFFICES ASSUME CycleInv, [Next]_vars, pc = "enqueue", ~deferred, faults' = faults,
                      now < Open, pc' = "top",
                      NEW ch \in live, Bound(ch, "second_stage")
               PROVE  HasArticle(ledger', ch)
    OBVIOUS
  <2>1. EnqueueReport
    BY DEF Next, vars, Work, StartSome, Start, ReadReport, Sync, Healthy, Recompute,
           Incomplete, Deadline, ArtifactsArrive, Crash, Tick
  <2>2. ledger' = ledger \cup Wanted
    BY <2>1 DEF EnqueueReport, Fault, CycleInv, TypeOK
  <2>3. ch \in Channel /\ report \in Version
    BY DEF CycleInv, TypeOK, Backed
  <2>4. Route[ch] = <<"second_stage">>
    <3>1. PICK s \in Stage : Route[ch] = <<s>>
      BY <2>3
    <3>2. s = "second_stage"
      BY <3>1 DEF Bound, Stage
    <3> QED BY <3>1, <3>2
  <2>5. CASE Recorded(ledger, ch)
    <3>1. PICK m \in ledger : m[3] = ch
      BY <2>5 DEF Recorded
    <3>2. <<"second_stage">> \in {<<>>, <<"all">>, <<m[1]>>}
      BY <3>1, <2>4 DEF CycleInv, Routed
    <3>3. m[1] = "second_stage"
      BY <3>2
    <3>4. m = <<m[1], m[2], m[3]>> /\ m[2] \in Version
      BY <3>1 DEF CycleInv, TypeOK, Message
    <3> QED BY <3>1, <3>3, <3>4, <2>2 DEF HasArticle
  <2>6. CASE ~Recorded(ledger, ch)
    <3> DEFINE m == <<"second_stage", report, ch>>
    <3>1. m \in Message /\ m[1] = "second_stage" /\ m[2] = report /\ m[3] = ch
      BY <2>3 DEF Message, Stage
    <3>2. ch \in channelNamesForRoute("second_stage")
      BY <2>4 DEF channelNamesForRoute
    <3>3. m \in Wanted
      BY <3>1, <3>2, <2>6 DEF Wanted
    <3> QED BY <3>3, <2>2, <2>3 DEF HasArticle
  <2> QED BY <2>5, <2>6
<1> QED BY CycleInvariance, <1>1, PTL DEF Spec, EveryRouteServed

-----------------------------------------------------------------------------
(***************************************************************************)
(* RuntimeLifecycle, for any number of calls of Run and of Close and any   *)
(* non-empty set of loops.                                                 *)
(*                                                                         *)
(* The inductive invariant says whose turn it is: r.running belongs to the *)
(* one call of Run that is inside (Inside), only that call owns loops and  *)
(* a server (Owned), one call of Close at most is past its first step and  *)
(* it waits for just that call of Run (Waited), and from its release on    *)
(* nobody is inside and nobody can enter (Emptied). For the result of Run  *)
(* it says why a loop was stopped (Cause).                                 *)
(***************************************************************************)

\* r.running holds for the call that is inside Run, and done is open until it leaves.
Inside ==
    \A r \in Runner :
        /\ at[r] \in Active <=> run = r
        /\ at[r] \in Active \cup {"idle"} => r \notin done

\* Loops and server belong to a call between Launch and its joins.
Owned ==
    \A r \in Runner :
        /\ server[r] # "off" => at[r] \in {"select", "shutdown"}
        /\ \A l \in Loop : loops[r][l] = "on" => at[r] \in Started
        /\ at[r] \in {"idle", "entered"} => ~joined[r].returned
        /\ joined[r].returned => \A l \in Loop : loops[r][l] = "joined"

\* The steps of Close between closed = true and close(closedDone).
Closing == {"cancel", "wait", "release", "finish"}

\* One call of Close does the work, and waits for the run it found.
Waited ==
    /\ \A c \in Closer : closing[c] \in Closing => closed
    /\ \A c, d \in Closer :
        closing[c] \in Closing /\ closing[d] \in Closing => c = d
    /\ \A c \in Closer :
        closing[c] \in {"cancel", "wait"} /\ run # NoRunner => held[c] = run

\* From its release on nobody is inside Run.
Emptied ==
    /\ \A c \in Closer : closing[c] \in {"release", "finish"} => run = NoRunner
    /\ \A c \in Closer : closing[c] = "finish" => released
    /\ released => closed /\ run = NoRunner
    /\ closedDone => released

\* Why a loop was stopped, and what the call will return.
Cause ==
    \A r \in Runner :
        /\ \A l \in Loop :
            /\ loops[r][l] = "canceled" => Over(r) \/ r \in stop
            /\ loops[r][l] = "joined" => joined[r].result # "none" /\ r \in stop
        /\ r \in stop => Over(r) \/ joined[r].result = "failed" \/ result[r] = "failed"
        /\ at[r] \in {"idle", "entered", "select", "direct"} => result[r] = "none"
        /\ at[r] \in {"shutdown", "join"} =>
            result[r] # "none" /\ (result[r] = "canceled" => Over(r))

LifecycleInv ==
    /\ LifecycleTypeOK
    /\ Inside
    /\ Owned
    /\ Waited
    /\ Emptied
    /\ Cause
    /\ CloseIsComplete
    /\ FailureIsReported

\* Nothing runs yet.
LEMMA LifecycleInitially == LifecycleInit => LifecycleInv
<1> SUFFICES ASSUME LifecycleInit PROVE LifecycleInv
  OBVIOUS
<1>1. LifecycleTypeOK
  BY DEF LifecycleInit, LifecycleTypeOK
<1>2. Inside /\ Owned /\ Cause /\ FailureIsReported
  BY CallAssumption
     DEF LifecycleInit, Inside, Owned, Cause, FailureIsReported, Active, Started
<1>3. Waited /\ Emptied /\ CloseIsComplete
  BY DEF LifecycleInit, Waited, Emptied, CloseIsComplete, Closing
<1> QED BY <1>1, <1>2, <1>3 DEF LifecycleInv

\* A refused call touches nothing of the others.
LEMMA RefuseKeeps ==
    ASSUME LifecycleInv, NEW r \in Runner, Refuse(r)
    PROVE  LifecycleInv'
<1>1. LifecycleTypeOK'
  BY DEF LifecycleInv, LifecycleTypeOK, Refuse, Go, Active, closer
<1>2. Inside'
  BY DEF LifecycleInv, LifecycleTypeOK, Inside, Active, Refuse, Go
<1>3. Owned'
  BY DEF LifecycleInv, LifecycleTypeOK, Owned, Started, Refuse, Go
<1>4. Cause'
  BY DEF LifecycleInv, LifecycleTypeOK, Cause, Over, Refuse, Go
<1>5. FailureIsReported'
  BY DEF LifecycleInv, LifecycleTypeOK, FailureIsReported, Over, Refuse, Go
<1>6. Waited' /\ Emptied' /\ CloseIsComplete'
  BY DEF LifecycleInv, Waited, Closing, Emptied, CloseIsComplete, Refuse, closer
<1> QED BY <1>1, <1>2, <1>3, <1>4, <1>5, <1>6 DEF LifecycleInv

\* Nobody is closing, so nobody waits for another call or is past waiting.
LEMMA EnterKeeps ==
    ASSUME LifecycleInv, NEW r \in Runner, Enter(r)
    PROVE  LifecycleInv'
<1>1. LifecycleTypeOK'
  BY DEF LifecycleInv, LifecycleTypeOK, Enter, Go, Active, closer
<1>2. Inside'
  BY CallAssumption DEF LifecycleInv, LifecycleTypeOK, Inside, Active, Enter, Go
<1>3. Owned'
  BY DEF LifecycleInv, LifecycleTypeOK, Owned, Started, Enter, Go
<1>4. Waited'
  BY DEF LifecycleInv, LifecycleTypeOK, Waited, Closing, Emptied, Enter, Go, closer
<1>5. Emptied'
  BY DEF LifecycleInv, LifecycleTypeOK, Emptied, Closing, Waited, Enter, Go, closer
<1>6. Cause'
  BY DEF LifecycleInv, LifecycleTypeOK, Cause, Over, Enter, Go
<1>7. FailureIsReported'
  BY DEF LifecycleInv, LifecycleTypeOK, FailureIsReported, Over, Enter, Go
<1>8. CloseIsComplete'
  BY DEF LifecycleInv, CloseIsComplete, Enter, closer
<1> QED BY <1>1, <1>2, <1>3, <1>4, <1>5, <1>6, <1>7, <1>8 DEF LifecycleInv

\* No loop was started.
LEMMA BindFailsKeeps ==
    ASSUME LifecycleInv, NEW r \in Runner, BindFails(r)
    PROVE  LifecycleInv'
<1>1. LifecycleTypeOK'
  BY DEF LifecycleInv, LifecycleTypeOK, BindFails, Go, Error, Active, closer
<1>2. Inside'
  BY DEF LifecycleInv, LifecycleTypeOK, Inside, Active, BindFails, Go, Error
<1>3. Owned'
  BY DEF LifecycleInv, LifecycleTypeOK, Owned, Started, BindFails, Go, Error
<1>4. Cause'
  BY DEF LifecycleInv, LifecycleTypeOK, Cause, Over, BindFails, Go, Error
<1>5. FailureIsReported'
  BY DEF LifecycleInv, LifecycleTypeOK, FailureIsReported, Over, BindFails, Go, Error
<1>6. Waited' /\ Emptied' /\ CloseIsComplete'
  BY DEF LifecycleInv, Waited, Closing, Emptied, CloseIsComplete, BindFails, closer
<1> QED BY <1>1, <1>2, <1>3, <1>4, <1>5, <1>6 DEF LifecycleInv

\* The call inside starts its loops and its server.
LEMMA LaunchKeeps ==
    ASSUME LifecycleInv, NEW r \in Runner, Launch(r)
    PROVE  LifecycleInv'
<1>1. LifecycleTypeOK'
  BY DEF LifecycleInv, LifecycleTypeOK, Launch, Go, Active, closer
<1>2. Inside'
  BY DEF LifecycleInv, LifecycleTypeOK, Inside, Active, Launch, Go
<1>3. Owned'
  BY DEF LifecycleInv, LifecycleTypeOK, Owned, Started, Launch, Go
<1>4. Cause'
  BY DEF LifecycleInv, LifecycleTypeOK, Cause, Over, Launch, Go
<1>5. FailureIsReported'
  BY DEF LifecycleInv, LifecycleTypeOK, FailureIsReported, Over, Launch, Go
<1>6. Waited' /\ Emptied' /\ CloseIsComplete'
  BY DEF LifecycleInv, Waited, Closing, Emptied, CloseIsComplete, Launch, closer
<1> QED BY <1>1, <1>2, <1>3, <1>4, <1>5, <1>6 DEF LifecycleInv

\* A loop that returned is no longer on; a cancelled one has a reason.
LEMMA LoopEndsKeeps ==
    ASSUME LifecycleInv, NEW r \in Runner, NEW l \in Loop, NEW e \in Error, LoopEnds(r, l, e)
    PROVE  LifecycleInv'
<1>1. LifecycleTypeOK'
  BY DEF LifecycleInv, LifecycleTypeOK, LoopEnds, Error, closer
<1>2. Owned'
  BY DEF LifecycleInv, LifecycleTypeOK, Owned, Started, LoopEnds, Error
<1>3. Cause'
  BY DEF LifecycleInv, LifecycleTypeOK, Cause, Over, LoopEnds, Error
<1>4. Inside' /\ Waited' /\ Emptied' /\ CloseIsComplete' /\ FailureIsReported'
  BY DEF LifecycleInv, Inside, Active, Waited, Closing, Emptied, CloseIsComplete,
         FailureIsReported, Over, LoopEnds, closer
<1> QED BY <1>1, <1>2, <1>3, <1>4 DEF LifecycleInv

\* The first result stops the others, and the failure that did it is kept.
LEMMA CollectKeeps ==
    ASSUME LifecycleInv, NEW r \in Runner, NEW l \in Loop, Collect(r, l)
    PROVE  LifecycleInv'
<1>1. worse(joined[r].result, loops[r][l]) \in Error
  BY DEF LifecycleInv, LifecycleTypeOK, Collect, worse, Error
<1>2. [joined[r] EXCEPT !.result = worse(joined[r].result, loops[r][l])]
        \in [result : {"none"} \cup Error, returned : BOOLEAN]
  <2>1. joined[r] \in [result : {"none"} \cup Error, returned : BOOLEAN]
    BY DEF LifecycleInv, LifecycleTypeOK
  <2> QED BY <1>1, <2>1
<1>3. joined' \in [Runner -> [result : {"none"} \cup Error, returned : BOOLEAN]]
  BY <1>2 DEF LifecycleInv, LifecycleTypeOK, Collect
<1>4. LifecycleTypeOK'
  BY <1>3 DEF LifecycleInv, LifecycleTypeOK, Collect, closer
<1>5. Owned'
  BY DEF LifecycleInv, LifecycleTypeOK, Owned, Started, Collect, worse, Error
<1>6. Cause'
  BY DEF LifecycleInv, LifecycleTypeOK, Cause, Over, Collect, worse, Error
<1>7. Inside' /\ Waited' /\ Emptied' /\ CloseIsComplete' /\ FailureIsReported'
  BY DEF LifecycleInv, Inside, Active, Waited, Closing, Emptied, CloseIsComplete,
         FailureIsReported, Over, Collect, closer
<1> QED BY <1>4, <1>5, <1>6, <1>7 DEF LifecycleInv

\* All loops have been joined.
LEMMA MonitorsReturnKeeps ==
    ASSUME LifecycleInv, NEW r \in Runner, MonitorsReturn(r)
    PROVE  LifecycleInv'
<1>1. [joined[r] EXCEPT !.returned = TRUE]
        \in [result : {"none"} \cup Error, returned : BOOLEAN]
  <2> DEFINE Joined == [result : {"none"} \cup Error, returned : BOOLEAN]
  <2>1. joined \in [Runner -> Joined]
    BY DEF LifecycleInv, LifecycleTypeOK
  <2> HIDE DEF Joined
  <2>2. joined[r] \in Joined
    BY <2>1
  <2> QED BY <2>2 DEF Joined
<1>2. joined' \in [Runner -> [result : {"none"} \cup Error, returned : BOOLEAN]]
  BY <1>1 DEF LifecycleInv, LifecycleTypeOK, MonitorsReturn
<1>3. LifecycleTypeOK'
  BY <1>2 DEF LifecycleInv, LifecycleTypeOK, MonitorsReturn, closer
<1>4. Owned'
  BY CallAssumption DEF LifecycleInv, LifecycleTypeOK, Owned, Started, MonitorsReturn
<1>5. Cause'
  BY DEF LifecycleInv, LifecycleTypeOK, Cause, Over, MonitorsReturn
<1>6. Inside' /\ Waited' /\ Emptied' /\ CloseIsComplete' /\ FailureIsReported'
  BY DEF LifecycleInv, Inside, Active, Waited, Closing, Emptied, CloseIsComplete,
         FailureIsReported, Over, MonitorsReturn, closer
<1> QED BY <1>3, <1>4, <1>5, <1>6 DEF LifecycleInv

\* A broken server is still the one of its call.
LEMMA ServerBreaksKeeps ==
    ASSUME LifecycleInv, NEW r \in Runner, ServerBreaks(r)
    PROVE  LifecycleInv'
<1>1. LifecycleTypeOK'
  BY DEF LifecycleInv, LifecycleTypeOK, ServerBreaks, closer
<1>2. Owned'
  BY DEF LifecycleInv, LifecycleTypeOK, Owned, Started, ServerBreaks
<1>3. Inside' /\ Waited' /\ Emptied' /\ Cause' /\ CloseIsComplete' /\ FailureIsReported'
  BY DEF LifecycleInv, Inside, Active, Waited, Closing, Emptied, Cause, Over,
         CloseIsComplete, FailureIsReported, ServerBreaks, closer
<1> QED BY <1>1, <1>2, <1>3 DEF LifecycleInv

\* What runMonitors returned is a cancellation only if the context was over.
LEMMA SelectKeeps ==
    ASSUME LifecycleInv, NEW r \in Runner, NEW e \in Error, Select(r, e)
    PROVE  LifecycleInv'
<1>1. LifecycleTypeOK'
  BY DEF LifecycleInv, LifecycleTypeOK, Select, Go, Error, Active, closer
<1>2. Inside'
  BY DEF LifecycleInv, LifecycleTypeOK, Inside, Active, Select, Go, Error
<1>3. Owned'
  BY DEF LifecycleInv, LifecycleTypeOK, Owned, Started, Select, Go, Error
<1>4. Cause'
  BY CallAssumption DEF LifecycleInv, LifecycleTypeOK, Cause, Over, Owned, Select, Go, Error
<1>5. FailureIsReported'
  BY CallAssumption DEF LifecycleInv, LifecycleTypeOK, FailureIsReported, Over, Select, Go,
         Error
<1>6. Waited' /\ Emptied' /\ CloseIsComplete'
  BY DEF LifecycleInv, Waited, Closing, Emptied, CloseIsComplete, Select, closer
<1> QED BY <1>1, <1>2, <1>3, <1>4, <1>5, <1>6 DEF LifecycleInv

\* The server is off before the loops are joined.
LEMMA ShutdownKeeps ==
    ASSUME LifecycleInv, NEW r \in Runner, Shutdown(r)
    PROVE  LifecycleInv'
<1>1. LifecycleTypeOK'
  BY DEF LifecycleInv, LifecycleTypeOK, Shutdown, Go, Error, Active, closer
<1>2. Inside'
  BY DEF LifecycleInv, LifecycleTypeOK, Inside, Active, Shutdown, Go, Error
<1>3. Owned'
  BY DEF LifecycleInv, LifecycleTypeOK, Owned, Started, Shutdown, Go, Error
<1>4. Cause'
  BY DEF LifecycleInv, LifecycleTypeOK, Cause, Over, Shutdown, Go, Error
<1>5. FailureIsReported'
  BY DEF LifecycleInv, LifecycleTypeOK, FailureIsReported, Over, Shutdown, Go, Error
<1>6. Waited' /\ Emptied' /\ CloseIsComplete'
  BY DEF LifecycleInv, Waited, Closing, Emptied, CloseIsComplete, Shutdown, closer
<1> QED BY <1>1, <1>2, <1>3, <1>4, <1>5, <1>6 DEF LifecycleInv

\* runMonitors has returned, so no loop is on.
LEMMA JoinKeeps ==
    ASSUME LifecycleInv, NEW r \in Runner, Join(r)
    PROVE  LifecycleInv'
<1>1. LifecycleTypeOK'
  BY DEF LifecycleInv, LifecycleTypeOK, Join, Go, Active, closer
<1>2. Inside'
  BY DEF LifecycleInv, LifecycleTypeOK, Inside, Active, Join, Go
<1>3. Owned'
  BY DEF LifecycleInv, LifecycleTypeOK, Owned, Started, Join, Go
<1>4. Cause'
  BY DEF LifecycleInv, LifecycleTypeOK, Cause, Over, Join, Go
<1>5. FailureIsReported'
  BY DEF LifecycleInv, LifecycleTypeOK, FailureIsReported, Over, Cause, Join, Go
<1>6. Waited' /\ Emptied' /\ CloseIsComplete'
  BY DEF LifecycleInv, Waited, Closing, Emptied, CloseIsComplete, Join, closer
<1> QED BY <1>1, <1>2, <1>3, <1>4, <1>5, <1>6 DEF LifecycleInv

\* As in Select.
LEMMA ReturnDirectKeeps ==
    ASSUME LifecycleInv, NEW r \in Runner, ReturnDirect(r)
    PROVE  LifecycleInv'
<1>1. LifecycleTypeOK'
  BY DEF LifecycleInv, LifecycleTypeOK, ReturnDirect, Go, Active, closer
<1>2. Inside'
  BY DEF LifecycleInv, LifecycleTypeOK, Inside, Active, ReturnDirect, Go
<1>3. Owned'
  BY DEF LifecycleInv, LifecycleTypeOK, Owned, Started, ReturnDirect, Go
<1>4. Cause'
  BY DEF LifecycleInv, LifecycleTypeOK, Cause, Over, ReturnDirect, Go
<1>5. FailureIsReported'
  BY CallAssumption DEF LifecycleInv, LifecycleTypeOK, FailureIsReported, Over, Cause, Owned,
         ReturnDirect, Go
<1>6. Waited' /\ Emptied' /\ CloseIsComplete'
  BY DEF LifecycleInv, Waited, Closing, Emptied, CloseIsComplete, ReturnDirect,
         closer
<1> QED BY <1>1, <1>2, <1>3, <1>4, <1>5, <1>6 DEF LifecycleInv

\* Nobody is inside any more.
LEMMA LeaveKeeps ==
    ASSUME LifecycleInv, NEW r \in Runner, Leave(r)
    PROVE  LifecycleInv'
<1>1. LifecycleTypeOK'
  BY DEF LifecycleInv, LifecycleTypeOK, Leave, Go, Active, closer
<1>2. Inside'
  BY CallAssumption DEF LifecycleInv, LifecycleTypeOK, Inside, Active, Leave, Go
<1>3. Owned'
  BY DEF LifecycleInv, LifecycleTypeOK, Owned, Started, Leave, Go
<1>4. Waited'
  BY DEF LifecycleInv, LifecycleTypeOK, Waited, Closing, Leave, Go, closer
<1>5. Emptied'
  BY DEF LifecycleInv, LifecycleTypeOK, Emptied, Closing, Leave, Go, closer
<1>6. Cause'
  BY DEF LifecycleInv, LifecycleTypeOK, Cause, Over, Leave, Go
<1>7. FailureIsReported'
  BY DEF LifecycleInv, LifecycleTypeOK, FailureIsReported, Over, Leave, Go
<1>8. CloseIsComplete'
  BY DEF LifecycleInv, CloseIsComplete, Leave, closer
<1> QED BY <1>1, <1>2, <1>3, <1>4, <1>5, <1>6, <1>7, <1>8 DEF LifecycleInv

\* done is closed after the fields were reset.
LEMMA SignalKeeps ==
    ASSUME LifecycleInv, NEW r \in Runner, Signal(r)
    PROVE  LifecycleInv'
<1>1. LifecycleTypeOK'
  BY DEF LifecycleInv, LifecycleTypeOK, Signal, Go, Active, closer
<1>2. Inside'
  BY DEF LifecycleInv, LifecycleTypeOK, Inside, Active, Signal, Go
<1>3. Owned'
  BY DEF LifecycleInv, LifecycleTypeOK, Owned, Started, Signal, Go
<1>4. Cause'
  BY DEF LifecycleInv, LifecycleTypeOK, Cause, Over, Signal, Go
<1>5. FailureIsReported'
  BY DEF LifecycleInv, LifecycleTypeOK, FailureIsReported, Over, Signal, Go
<1>6. Waited' /\ Emptied' /\ CloseIsComplete'
  BY DEF LifecycleInv, Waited, Closing, Emptied, CloseIsComplete, Signal, closer
<1> QED BY <1>1, <1>2, <1>3, <1>4, <1>5, <1>6 DEF LifecycleInv

\* A context that is over stays over.
LEMMA HostCancelsKeeps ==
    ASSUME LifecycleInv, NEW r \in Runner, HostCancels(r)
    PROVE  LifecycleInv'
<1>1. LifecycleTypeOK'
  BY DEF LifecycleInv, LifecycleTypeOK, HostCancels, runner, closer
<1>2. Cause'
  BY DEF LifecycleInv, LifecycleTypeOK, Cause, Over, HostCancels, runner, closer
<1>3. FailureIsReported'
  BY DEF LifecycleInv, LifecycleTypeOK, FailureIsReported, Over, HostCancels, runner, closer
<1>4. Inside' /\ Owned' /\ Waited' /\ Emptied' /\ CloseIsComplete'
  BY DEF LifecycleInv, Inside, Active, Owned, Started, Waited, Closing, Emptied,
         CloseIsComplete, HostCancels, runner, closer
<1> QED BY <1>1, <1>2, <1>3, <1>4 DEF LifecycleInv

\* A second call only waits.
LEMMA CloseAgainKeeps ==
    ASSUME LifecycleInv, NEW c \in Closer, CloseAgain(c)
    PROVE  LifecycleInv'
<1>1. LifecycleTypeOK'
  BY DEF LifecycleInv, LifecycleTypeOK, CloseAgain, Move, runner
<1>2. Waited'
  BY DEF LifecycleInv, LifecycleTypeOK, Waited, Closing, CloseAgain, Move
<1>3. Emptied'
  BY DEF LifecycleInv, LifecycleTypeOK, Emptied, Closing, CloseAgain, Move
<1>4. CloseIsComplete'
  BY DEF LifecycleInv, LifecycleTypeOK, CloseIsComplete, CloseAgain, Move
<1>5. Inside' /\ Owned' /\ Cause' /\ FailureIsReported'
  BY DEF LifecycleInv, Inside, Active, Owned, Started, Cause, Over,
         FailureIsReported, CloseAgain, runner
<1> QED BY <1>1, <1>2, <1>3, <1>4, <1>5 DEF LifecycleInv

\* Nobody closed before, so this is the only call past its first step.
LEMMA CloseFirstKeeps ==
    ASSUME LifecycleInv, NEW c \in Closer, CloseFirst(c)
    PROVE  LifecycleInv'
<1>1. LifecycleTypeOK'
  BY DEF LifecycleInv, LifecycleTypeOK, CloseFirst, Move, runner
<1>2. Waited'
  BY CallAssumption DEF LifecycleInv, LifecycleTypeOK, Waited, Closing, CloseFirst, Move
<1>3. Emptied'
  BY DEF LifecycleInv, LifecycleTypeOK, Emptied, Closing, Waited, CloseFirst, Move
<1>4. CloseIsComplete'
  BY DEF LifecycleInv, LifecycleTypeOK, CloseIsComplete, CloseFirst, Move
<1>5. Inside' /\ Owned' /\ Cause' /\ FailureIsReported'
  BY DEF LifecycleInv, Inside, Active, Owned, Started, Cause, Over,
         FailureIsReported, CloseFirst, runner
<1> QED BY <1>1, <1>2, <1>3, <1>4, <1>5 DEF LifecycleInv

\* The run that was found is still the one to wait for.
LEMMA CancelRunKeeps ==
    ASSUME LifecycleInv, NEW c \in Closer, CancelRun(c)
    PROVE  LifecycleInv'
<1>1. LifecycleTypeOK'
  BY DEF LifecycleInv, LifecycleTypeOK, CancelRun, Move, runner
<1>2. Waited'
  BY DEF LifecycleInv, LifecycleTypeOK, Waited, Closing, CancelRun, Move
<1>3. Emptied'
  BY DEF LifecycleInv, LifecycleTypeOK, Emptied, Closing, CancelRun, Move
<1>4. Cause'
  BY DEF LifecycleInv, LifecycleTypeOK, Cause, Over, CancelRun, Move, runner
<1>5. CloseIsComplete'
  BY DEF LifecycleInv, LifecycleTypeOK, CloseIsComplete, CancelRun, Move
<1>6. FailureIsReported'
  BY DEF LifecycleInv, LifecycleTypeOK, FailureIsReported, Over, CancelRun, Move, runner
<1>7. Inside' /\ Owned'
  BY DEF LifecycleInv, Inside, Active, Owned, Started, CancelRun, runner
<1> QED BY <1>1, <1>2, <1>3, <1>4, <1>5, <1>6, <1>7 DEF LifecycleInv

\* A call still inside is the one that was read, and its done is open.
LEMMA WaitForRunKeeps ==
    ASSUME LifecycleInv, NEW c \in Closer, WaitForRun(c)
    PROVE  LifecycleInv'
<1>1. LifecycleTypeOK'
  BY DEF LifecycleInv, LifecycleTypeOK, WaitForRun, Move, runner
<1>2. Waited'
  BY DEF LifecycleInv, LifecycleTypeOK, Waited, Closing, WaitForRun, Move
<1>3. Emptied'
  BY CallAssumption DEF LifecycleInv, LifecycleTypeOK, Emptied, Closing, Waited, Inside,
         Active, WaitForRun, Move
<1>4. CloseIsComplete'
  BY DEF LifecycleInv, LifecycleTypeOK, CloseIsComplete, WaitForRun, Move
<1>5. Inside' /\ Owned' /\ Cause' /\ FailureIsReported'
  BY DEF LifecycleInv, Inside, Active, Owned, Started, Cause, Over,
         FailureIsReported, WaitForRun, runner
<1> QED BY <1>1, <1>2, <1>3, <1>4, <1>5 DEF LifecycleInv

\* Nobody is inside when the resources go.
LEMMA ReleaseKeeps ==
    ASSUME LifecycleInv, NEW c \in Closer, Release(c)
    PROVE  LifecycleInv'
<1>1. LifecycleTypeOK'
  BY DEF LifecycleInv, LifecycleTypeOK, Release, Move, runner
<1>2. Waited'
  BY DEF LifecycleInv, LifecycleTypeOK, Waited, Closing, Release, Move
<1>3. Emptied'
  BY DEF LifecycleInv, LifecycleTypeOK, Emptied, Closing, Waited, Release, Move
<1>4. CloseIsComplete'
  BY DEF LifecycleInv, LifecycleTypeOK, CloseIsComplete, Release, Move
<1>5. Inside' /\ Owned' /\ Cause' /\ FailureIsReported'
  BY DEF LifecycleInv, Inside, Active, Owned, Started, Cause, Over,
         FailureIsReported, Release, runner
<1> QED BY <1>1, <1>2, <1>3, <1>4, <1>5 DEF LifecycleInv

\* They were released before closedDone is closed.
LEMMA FinishKeeps ==
    ASSUME LifecycleInv, NEW c \in Closer, Finish(c)
    PROVE  LifecycleInv'
<1>1. LifecycleTypeOK'
  BY DEF LifecycleInv, LifecycleTypeOK, Finish, Move, runner
<1>2. Waited'
  BY DEF LifecycleInv, LifecycleTypeOK, Waited, Closing, Finish, Move
<1>3. Emptied'
  BY DEF LifecycleInv, LifecycleTypeOK, Emptied, Closing, Finish, Move
<1>4. CloseIsComplete'
  BY DEF LifecycleInv, LifecycleTypeOK, CloseIsComplete, Emptied, Finish, Move
<1>5. Inside' /\ Owned' /\ Cause' /\ FailureIsReported'
  BY DEF LifecycleInv, Inside, Active, Owned, Started, Cause, Over,
         FailureIsReported, Finish, runner
<1> QED BY <1>1, <1>2, <1>3, <1>4, <1>5 DEF LifecycleInv

\* closedDone tells that they were released.
LEMMA AwaitKeeps ==
    ASSUME LifecycleInv, NEW c \in Closer, Await(c)
    PROVE  LifecycleInv'
<1>1. LifecycleTypeOK'
  BY DEF LifecycleInv, LifecycleTypeOK, Await, Move, runner
<1>2. Waited'
  BY DEF LifecycleInv, LifecycleTypeOK, Waited, Closing, Await, Move
<1>3. Emptied'
  BY DEF LifecycleInv, LifecycleTypeOK, Emptied, Closing, Await, Move
<1>4. CloseIsComplete'
  BY DEF LifecycleInv, LifecycleTypeOK, CloseIsComplete, Emptied, Await, Move
<1>5. Inside' /\ Owned' /\ Cause' /\ FailureIsReported'
  BY DEF LifecycleInv, Inside, Active, Owned, Started, Cause, Over,
         FailureIsReported, Await, runner
<1> QED BY <1>1, <1>2, <1>3, <1>4, <1>5 DEF LifecycleInv

\* A step that changes nothing.
LEMMA StutterKeeps ==
    ASSUME LifecycleInv, UNCHANGED lifecycleVars
    PROVE  LifecycleInv'
<1>1. LifecycleTypeOK'
  BY DEF LifecycleInv, LifecycleTypeOK, lifecycleVars, runner, closer
<1>2. Inside' /\ Owned' /\ Waited' /\ Emptied'
  BY DEF LifecycleInv, Inside, Owned, Waited, Emptied, lifecycleVars, runner, closer
<1>3. Cause' /\ CloseIsComplete' /\ FailureIsReported'
  BY DEF LifecycleInv, Cause, Over, CloseIsComplete, FailureIsReported, lifecycleVars, runner, closer
<1> QED BY <1>1, <1>2, <1>3 DEF LifecycleInv

\* Every step of a call of Run on its own.
LEMMA ProceedKeeps ==
    ASSUME LifecycleInv, NEW r \in Runner, Proceed(r)
    PROVE  LifecycleInv'
<1>1. CASE \E l \in Loop : LoopEnds(r, l, "canceled")
  BY <1>1, LoopEndsKeeps DEF Error
<1>2. CASE \E l \in Loop : Collect(r, l)
  BY <1>2, CollectKeeps
<1>3. CASE \E e \in Error : Select(r, e)
  BY <1>3, SelectKeeps
<1>4. CASE BindFails(r) \/ Launch(r) \/ MonitorsReturn(r) \/ Shutdown(r)
  BY <1>4, BindFailsKeeps, LaunchKeeps, MonitorsReturnKeeps, ShutdownKeeps
<1>5. CASE Join(r) \/ ReturnDirect(r) \/ Leave(r) \/ Signal(r)
  BY <1>5, JoinKeeps, ReturnDirectKeeps, LeaveKeeps, SignalKeeps
<1> QED BY <1>1, <1>2, <1>3, <1>4, <1>5 DEF Proceed

\* Every step of a call of Close after its first.
LEMMA CloseProceedsKeeps ==
    ASSUME LifecycleInv, NEW c \in Closer, CloseProceeds(c)
    PROVE  LifecycleInv'
BY CancelRunKeeps, WaitForRunKeeps, ReleaseKeeps, FinishKeeps, AwaitKeeps
   DEF CloseProceeds

\* The invariant is inductive.
LEMMA NextKeeps == LifecycleInv /\ [LifecycleNext]_lifecycleVars => LifecycleInv'
<1> SUFFICES ASSUME LifecycleInv, [LifecycleNext]_lifecycleVars PROVE LifecycleInv'
  OBVIOUS
<1>1. ASSUME NEW r \in Runner, Refuse(r) \/ Enter(r) \/ Proceed(r)
                  \/ ServerBreaks(r) \/ HostCancels(r)
      PROVE  LifecycleInv'
  BY <1>1, RefuseKeeps, EnterKeeps, ProceedKeeps, ServerBreaksKeeps, HostCancelsKeeps
<1>2. ASSUME NEW r \in Runner, NEW l \in Loop, LoopEnds(r, l, "failed")
      PROVE  LifecycleInv'
  BY <1>2, LoopEndsKeeps DEF Error
<1>3. ASSUME NEW c \in Closer, CloseAgain(c) \/ CloseFirst(c) \/ CloseProceeds(c)
      PROVE  LifecycleInv'
  BY <1>3, CloseAgainKeeps, CloseFirstKeeps, CloseProceedsKeeps
<1>4. CASE UNCHANGED lifecycleVars
  BY <1>4, StutterKeeps
<1> QED BY <1>1, <1>2, <1>3, <1>4 DEF LifecycleNext

\* The inductive invariant holds in every state of the process.
THEOREM LifecycleInvariance == LifecycleSpec => []LifecycleInv
<1>1. LifecycleInv /\ [LifecycleNext]_lifecycleVars => LifecycleInv'
  BY NextKeeps
<1> QED BY LifecycleInitially, <1>1, PTL DEF LifecycleSpec

\* Every variable keeps its type.
THEOREM LifecycleTyped == LifecycleSpec => []LifecycleTypeOK
<1>1. LifecycleInv => LifecycleTypeOK
  BY DEF LifecycleInv
<1> QED BY LifecycleInvariance, <1>1, PTL

\* Once the storage lock and the databases are released no call of Run has a
\* loop running or a server accepting.
THEOREM NothingOutlivesHolds == LifecycleSpec => []NothingOutlives
<1>1. LifecycleInv => NothingOutlives
  <2> SUFFICES ASSUME LifecycleInv, released, NEW r \in Runner
               PROVE  /\ server[r] = "off"
                      /\ \A l \in Loop : loops[r][l] # "on"
    BY DEF NothingOutlives
  <2>1. at[r] \notin Active
    BY CallAssumption DEF LifecycleInv, Emptied, Inside
  <2> QED BY <2>1 DEF LifecycleInv, Owned, Started, Active
<1> QED BY LifecycleInvariance, <1>1, PTL

\* No call of Close returns before the resources are released.
THEOREM CloseIsCompleteHolds == LifecycleSpec => []CloseIsComplete
<1>1. LifecycleInv => CloseIsComplete
  BY DEF LifecycleInv
<1> QED BY LifecycleInvariance, <1>1, PTL

\* A call of Run reports a normal shutdown only if it was asked to stop.
THEOREM FailureIsReportedHolds == LifecycleSpec => []FailureIsReported
<1>1. LifecycleInv => FailureIsReported
  BY DEF LifecycleInv
<1> QED BY LifecycleInvariance, <1>1, PTL

\* The loops of two calls of Run never run at once.
THEOREM OneRunAtATimeHolds == LifecycleSpec => []OneRunAtATime
<1>1. LifecycleInv => OneRunAtATime
  <2> SUFFICES ASSUME LifecycleInv, NEW r \in Runner, NEW q \in Runner, r # q,
                      NEW k \in Loop, NEW l \in Loop,
                      loops[r][k] = "on", loops[q][l] = "on"
               PROVE  FALSE
    BY DEF OneRunAtATime
  <2>1. at[r] \in Active /\ at[q] \in Active
    BY DEF LifecycleInv, Owned, Started, Active
  <2> QED BY <2>1 DEF LifecycleInv, Inside
<1> QED BY LifecycleInvariance, <1>1, PTL

-----------------------------------------------------------------------------
(***************************************************************************)
(* ContextSync, for any instruments, workers and sessions.                 *)
(*                                                                         *)
(* An instrument that has no answer for the session yet is somewhere on    *)
(* the way from the work list through a worker, the channel and the flush  *)
(* (NothingDropped): so at the end, if nothing was lost, each has one.     *)
(* What a flush stores reaches no further than an answer that was given    *)
(* (AnswersReach).                                                         *)
(***************************************************************************)

\* The types the argument needs: what lies in the pool is finite and well formed.
PoolTyped ==
    /\ lastDate \in [Instrument -> 0 .. MaxDay] /\ answered \in [Instrument -> 0 .. MaxDay]
    /\ asof \in 0 .. MaxDay /\ status.asof \in 0 .. MaxDay
    /\ cpc \in {"idle", "discover", "run", "report"}
    /\ work \subseteq Instrument
    /\ job \in [Worker -> Instrument \cup Free]
    /\ out \in Seq(Answer)
    /\ pending \subseteq Answer /\ IsFiniteSet(pending)
    /\ lost \in Nat /\ abandoned \in BOOLEAN

\* A stored bar came with an answer for its session or a later one.
BarsAnswered == \A i \in Instrument : lastDate[i] <= answered[i]

\* The bars on their way reach no further than the session of the call, or than
\* what an earlier answer reached.
Reaches(a) == a.upto <= asof \/ a.upto <= answered[a.of]
AnswersReach ==
    cpc = "run" => /\ \A k \in 1 .. Len(out) : Reaches(out[k])
                   /\ \A a \in pending : Reaches(a) /\ a.kind = "bars"

\* Where an instrument is that has no answer for this session yet.
UnderWay(i) ==
    \/ i \in work
    \/ \E w \in Worker : job[w] = i
    \/ \E k \in 1 .. Len(out) : out[k].of = i
    \/ i \in In(pending)

\* As long as nothing is lost, what is not answered is under way.
NothingDropped ==
    /\ cpc = "run" /\ ~abandoned /\ lost = 0 =>
         \A i \in Instrument : answered[i] >= asof \/ UnderWay(i)
    /\ cpc = "run" => \A k \in 1 .. Len(out) : out[k].kind = "empty" => abandoned
    /\ cpc = "report" /\ ~abandoned /\ lost = 0 =>
         \A i \in Instrument : answered[i] >= asof

ContextInv ==
    PoolTyped /\ BarsAnswered /\ AnswersReach /\ NothingDropped /\ CompleteIsStored

\* No call was made yet.
LEMMA ContextInitInv == ContextInit => ContextInv
<1> SUFFICES ASSUME ContextInit PROVE ContextInv
  OBVIOUS
<1>1. PoolTyped
  <2>1. status.asof \in 0 .. MaxDay
    BY ContextAssumption DEF ContextInit
  <2>2. IsFiniteSet(pending) /\ pending \subseteq Answer /\ out \in Seq(Answer)
    BY FS_EmptySet DEF ContextInit
  <2>3. 0 \in 0 .. MaxDay
    BY ContextAssumption
  <2> QED BY <2>1, <2>2, <2>3 DEF ContextInit, PoolTyped, Free
<1>2. BarsAnswered /\ AnswersReach /\ NothingDropped /\ CompleteIsStored
  BY DEF ContextInit, BarsAnswered, AnswersReach, NothingDropped, CompleteIsStored
<1> QED BY <1>1, <1>2 DEF ContextInv

\* A step that leaves the bars and the pool alone, and is not on its way to a report.
LEMMA OutsideInv ==
    ASSUME ContextInv, UNCHANGED <<bars, pool>>, asof' \in 0 .. MaxDay, abandoned' \in BOOLEAN,
           cpc' \in {"idle", "discover"}, status'.asof \in 0 .. MaxDay,
           status' = status \/ status'.is # "complete"
    PROVE  ContextInv'
<1>1. PoolTyped' /\ BarsAnswered'
  BY DEF ContextInv, PoolTyped, BarsAnswered, bars, pool
<1>2. AnswersReach' /\ NothingDropped'
  BY DEF AnswersReach, NothingDropped
<1>3. CompleteIsStored'
  BY DEF ContextInv, CompleteIsStored, bars
<1> QED BY <1>1, <1>2, <1>3 DEF ContextInv

\* A call takes the session it is asked for.
LEMMA StartContextInv == ContextInv /\ StartContext => ContextInv'
<1> SUFFICES ASSUME ContextInv, StartContext PROVE ContextInv'
  OBVIOUS
<1>1. asof' \in 0 .. MaxDay /\ asof' \in Nat
  BY ContextAssumption DEF StartContext
<1>2. [asof |-> asof', is |-> "running", succeeded |-> 0, failed |-> 0].asof \in 0 .. MaxDay
  BY <1>1
<1>3. status'.asof \in 0 .. MaxDay /\ (status' = status \/ status'.is # "complete")
  BY <1>2 DEF StartContext, MaySave, Saved, ContextInv, PoolTyped
<1> QED BY <1>1, <1>3, OutsideInv DEF StartContext

\* A call that returns without a report leaves nothing behind.
LEMMA LeavesInv ==
    ContextInv /\ (DiscoverFails \/ DatesFail \/ CrashContext) => ContextInv'
<1> SUFFICES ASSUME ContextInv, DiscoverFails \/ DatesFail \/ CrashContext PROVE ContextInv'
  OBVIOUS
<1>1. asof' \in 0 .. MaxDay /\ abandoned' \in BOOLEAN /\ cpc' = "idle" /\ UNCHANGED <<bars, pool>>
  BY DEF DiscoverFails, DatesFail, CrashContext, ContextInv, PoolTyped
<1>2. status'.asof \in 0 .. MaxDay /\ (status' = status \/ status'.is # "complete")
  <2>1. CASE UNCHANGED status
    BY <2>1 DEF ContextInv, PoolTyped
  <2>2. CASE status' = [asof |-> asof, is |-> "failed", succeeded |-> 0, failed |-> 0] /\ DiscoverFails
    <3>1. asof \in 0 .. MaxDay
      BY DEF ContextInv, PoolTyped
    <3> QED BY <2>2, <3>1
  <2> QED BY <2>1, <2>2 DEF DiscoverFails, DatesFail, CrashContext
<1> QED BY <1>1, <1>2, OutsideInv

\* The work list is what is not answered for the session: the rest needs no answer.
LEMMA DiscoverInv == ContextInv /\ Discover => ContextInv'
<1> SUFFICES ASSUME ContextInv, Discover PROVE ContextInv'
  OBVIOUS
<1>1. PoolTyped'
  BY FS_EmptySet DEF Discover, ContextInv, PoolTyped, bars, Free
<1>2. BarsAnswered' /\ CompleteIsStored'
  BY DEF Discover, ContextInv, BarsAnswered, CompleteIsStored, bars
<1>3. AnswersReach'
  BY DEF Discover, AnswersReach
<1>4. NothingDropped'
  <2>1. ASSUME NEW i \in Instrument PROVE answered'[i] >= asof' \/ UnderWay(i)'
    <3>1. i \in work' \/ lastDate[i] >= asof
      BY DEF Discover, ContextInv, PoolTyped
    <3>2. lastDate[i] >= asof => answered[i] >= asof
      BY DEF ContextInv, PoolTyped, BarsAnswered
    <3> QED BY <3>1, <3>2 DEF Discover, UnderWay, bars
  <2> QED BY <2>1 DEF Discover, NothingDropped
<1> QED BY <1>1, <1>2, <1>3, <1>4 DEF ContextInv

\* A step of the pool that stores nothing: what was under way stays under way.
LEMMA PoolStepInv ==
    ASSUME ContextInv, UNCHANGED <<bars, status, asof, pending, lost, abandoned>>,
           cpc = "run", cpc' = "run", PoolTyped',
           \A k \in 1 .. Len(out') :
               /\ out'[k].kind = "empty" => abandoned
               /\ out'[k].upto <= asof \/ out'[k].upto <= answered[out'[k].of],
           ~abandoned => \A i \in Instrument : UnderWay(i) => UnderWay(i)'
    PROVE  ContextInv'
<1>1. BarsAnswered' /\ CompleteIsStored'
  BY DEF ContextInv, BarsAnswered, CompleteIsStored, bars
<1>2. AnswersReach'
  BY DEF ContextInv, AnswersReach, Reaches, bars
<1>3. NothingDropped'
  BY DEF ContextInv, NothingDropped, bars
<1> QED BY <1>1, <1>2, <1>3 DEF ContextInv

\* The rest of the work list is given up only in a call that has been abandoned.
LEMMA StopFeedingInv == ContextInv /\ StopFeeding => ContextInv'
<1> SUFFICES ASSUME ContextInv, StopFeeding PROVE ContextInv'
  OBVIOUS
<1>1. PoolTyped'
  BY DEF StopFeeding, ContextInv, PoolTyped, bars
<1> QED BY <1>1, PoolStepInv DEF StopFeeding, ContextInv, NothingDropped, AnswersReach, Reaches

\* From the work list into the hands of a worker.
LEMMA HandInv == ASSUME NEW w \in Worker, ContextInv, Hand(w) PROVE ContextInv'
<1>1. PICK i \in work : work' = work \ {i} /\ job' = [job EXCEPT ![w] = i]
  BY DEF Hand
<1>2. PoolTyped'
  BY <1>1 DEF Hand, ContextInv, PoolTyped, bars
<1>3. ASSUME NEW j \in Instrument, UnderWay(j) PROVE UnderWay(j)'
  <2>1. job[w] = "idle" /\ job'[w] = i /\ \A v \in Worker : v # w => job'[v] = job[v]
    BY <1>1 DEF Hand, ContextInv, PoolTyped
  <2>2. CASE j = i
    BY <2>1, <2>2 DEF UnderWay
  <2>3. CASE j # i /\ j \in work
    BY <1>1, <2>3 DEF UnderWay
  <2>4. ASSUME NEW v \in Worker, job[v] = j PROVE UnderWay(j)'
    <3>1. CASE v = w
      BY <2>1, <2>4, <3>1, ContextAssumption DEF Free
    <3>2. CASE v # w
      BY <2>1, <2>4, <3>2 DEF UnderWay
    <3> QED BY <3>1, <3>2
  <2>5. CASE (\E k \in 1 .. Len(out) : out[k].of = j) \/ j \in In(pending)
    BY <2>5 DEF UnderWay, Hand, In
  <2> QED BY <1>3, <2>2, <2>3, <2>4, <2>5 DEF UnderWay
<1> QED BY <1>2, <1>3, PoolStepInv DEF Hand, ContextInv, NothingDropped, AnswersReach, Reaches

\* A worker that has finished holds nothing.
LEMMA LeavePoolInv == ASSUME NEW w \in Worker, ContextInv, LeavePool(w) PROVE ContextInv'
<1>1. PoolTyped'
  BY DEF LeavePool, ContextInv, PoolTyped, bars, Free
<1>2. ASSUME NEW j \in Instrument, UnderWay(j) PROVE UnderWay(j)'
  <2>1. job[w] = "idle" /\ \A v \in Worker : v # w => job'[v] = job[v]
    BY DEF LeavePool, ContextInv, PoolTyped
  <2>2. \A v \in Worker : job[v] = j => job'[v] = j
    BY <2>1, ContextAssumption DEF Free
  <2> QED BY <1>2, <2>2 DEF UnderWay, LeavePool, In
<1> QED BY <1>1, <1>2, PoolStepInv DEF LeavePool, ContextInv, NothingDropped, AnswersReach, Reaches

\* From the hands of a worker onto the channel.
LEMMA FetchInv == ASSUME NEW w \in Worker, ContextInv, Fetch(w) PROVE ContextInv'
<1>1. PICK kind \in {"bars", "error", "empty"}, upto \in {lastDate[job[w]], asof} :
         /\ kind = "empty" => abandoned
         /\ out' = Append(out, [of |-> job[w], kind |-> kind, upto |-> upto])
  BY DEF Fetch
<1> DEFINE a == [of |-> job[w], kind |-> kind, upto |-> upto]
<1>2. job[w] \in Instrument /\ job' = [job EXCEPT ![w] = "idle"]
  BY DEF Fetch, ContextInv, PoolTyped
<1>3. a \in Answer
  BY <1>2 DEF Answer, ContextInv, PoolTyped
<1>4. /\ out' \in Seq(Answer) /\ Len(out') = Len(out) + 1 /\ out'[Len(out) + 1] = a
      /\ \A k \in 1 .. Len(out) : out'[k] = out[k]
      /\ Len(out) \in Nat
  BY <1>1, <1>3 DEF ContextInv, PoolTyped
<1>5. PoolTyped'
  BY <1>2, <1>4 DEF Fetch, ContextInv, PoolTyped, bars, Free
<1>6. a.upto <= asof \/ a.upto <= answered[a.of]
  BY <1>2 DEF ContextInv, PoolTyped, BarsAnswered
<1>7. ASSUME NEW k \in 1 .. Len(out')
      PROVE  /\ out'[k].kind = "empty" => abandoned
             /\ out'[k].upto <= asof \/ out'[k].upto <= answered[out'[k].of]
  <2>1. CASE k = Len(out) + 1
    BY <1>1, <1>4, <1>6, <2>1
  <2>2. CASE k \in 1 .. Len(out)
    BY <1>4, <2>2 DEF Fetch, ContextInv, NothingDropped, AnswersReach, Reaches
  <2> QED BY <1>4, <2>1, <2>2
<1>8. ASSUME NEW j \in Instrument, UnderWay(j) PROVE UnderWay(j)'
  <2>1. CASE job[w] = j
    BY <1>4, <2>1 DEF UnderWay
  <2>2. ASSUME NEW v \in Worker, v # w, job[v] = j PROVE UnderWay(j)'
    BY <1>2, <2>2 DEF UnderWay, ContextInv, PoolTyped
  <2>3. CASE \E k \in 1 .. Len(out) : out[k].of = j
    BY <1>4, <2>3 DEF UnderWay
  <2>4. CASE j \in work \/ j \in In(pending)
    BY <2>4 DEF UnderWay, Fetch, In
  <2> QED BY <1>8, <2>1, <2>2, <2>3, <2>4 DEF UnderWay
<1> HIDE DEF a
<1> QED BY <1>5, <1>7, <1>8, PoolStepInv DEF Fetch

\* What a written batch leaves behind.
LEMMA FlushedFacts ==
    ASSUME ContextInv, cpc = "run", NEW batch \in SUBSET Answer, IsFiniteSet(batch), batch # {},
           \A a \in batch : Reaches(a), Flushed(batch)
    PROVE  /\ lastDate' \in [Instrument -> 0 .. MaxDay] /\ answered' \in [Instrument -> 0 .. MaxDay]
           /\ BarsAnswered'
           /\ \A i \in Instrument : answered'[i] >= answered[i]
           /\ lost' \in Nat /\ lost' >= lost /\ pending' = {}
           /\ lost' = 0 => \A i \in In(batch) : answered'[i] >= asof
<1>1. Cardinality(batch) \in Nat /\ Cardinality(batch) # 0
  BY FS_CardinalityType, FS_EmptySet
<1>2. lastDate \in [Instrument -> 0 .. MaxDay] /\ answered \in [Instrument -> 0 .. MaxDay]
      /\ asof \in 0 .. MaxDay /\ lost \in Nat /\ BarsAnswered
  BY DEF ContextInv, PoolTyped
<1>3. CASE /\ lastDate' = [i \in Instrument |-> IF i \in In(batch) THEN Upto(batch, i) ELSE lastDate[i]]
           /\ answered' = [i \in Instrument |->
                             IF i \in In(batch) /\ answered[i] < asof THEN asof ELSE answered[i]]
           /\ UNCHANGED lost /\ pending' = {}
  <2>1. ASSUME NEW i \in Instrument, i \in In(batch)
        PROVE  \E a \in batch : a.of = i /\ Upto(batch, i) = a.upto
    <3>1. \E d : d \in {a.upto : a \in {b \in batch : b.of = i}}
      BY <2>1 DEF In
    <3>2. Upto(batch, i) \in {a.upto : a \in {b \in batch : b.of = i}}
      BY <3>1 DEF Upto
    <3> QED BY <3>2
  <2>2. ASSUME NEW i \in Instrument, i \in In(batch)
        PROVE  Upto(batch, i) \in 0 .. MaxDay /\ (Upto(batch, i) <= asof \/ Upto(batch, i) <= answered[i])
    BY <2>1, <2>2 DEF Reaches, Answer
  <2>3. lastDate' \in [Instrument -> 0 .. MaxDay] /\ answered' \in [Instrument -> 0 .. MaxDay]
    BY <1>2, <1>3, <2>2
  <2>4. ASSUME NEW i \in Instrument PROVE lastDate'[i] <= answered'[i]
    <3>1. CASE i \in In(batch)
      BY <1>2, <1>3, <2>2, <3>1
    <3>2. CASE i \notin In(batch)
      BY <1>2, <1>3, <3>2 DEF BarsAnswered
    <3> QED BY <3>1, <3>2
  <2>5. \A i \in Instrument : answered'[i] >= answered[i]
    BY <1>2, <1>3
  <2>6. \A i \in In(batch) : answered'[i] >= asof
    BY <1>2, <1>3 DEF In, Answer
  <2> QED BY <1>2, <1>3, <2>3, <2>4, <2>5, <2>6 DEF BarsAnswered
<1>4. CASE UNCHANGED bars /\ lost' = lost + Cardinality(batch) /\ pending' = {}
  <2>1. lost' \in Nat /\ lost' >= lost /\ lost' # 0
    BY <1>1, <1>2, <1>4
  <2>2. /\ lastDate' = lastDate /\ answered' = answered
        /\ \A i \in Instrument : answered'[i] >= answered[i]
    BY <1>2, <1>4 DEF bars
  <2> QED BY <1>2, <1>4, <2>1, <2>2 DEF BarsAnswered
<1> QED BY <1>3, <1>4 DEF Flushed

\* What is complete stays stored while the answers only grow.
LEMMA CompleteKept ==
    ASSUME ContextInv, UNCHANGED status, answered' \in [Instrument -> 0 .. MaxDay],
           \A i \in Instrument : answered'[i] >= answered[i]
    PROVE  CompleteIsStored'
BY DEF ContextInv, PoolTyped, CompleteIsStored

\* From the channel into the next flush, or with the flush into the tables.
LEMMA ReceiveInv == ContextInv /\ Receive => ContextInv'
<1> SUFFICES ASSUME ContextInv, Receive PROVE ContextInv'
  OBVIOUS
<1> DEFINE answer == Head(out)
           batch == pending \cup {answer}
<1>1. /\ out \in Seq(Answer) /\ out # <<>> /\ out' = Tail(out) /\ answer = out[1]
      /\ answer \in Answer /\ Len(out) \in Nat \ {0}
      /\ out' \in Seq(Answer) /\ Len(out') = Len(out) - 1
      /\ \A k \in 1 .. Len(out') : out'[k] = out[k + 1]
  BY DEF Receive, ContextInv, PoolTyped
<1>2. /\ cpc = "run" /\ cpc' = "run"
      /\ UNCHANGED <<status, asof, work, job, abandoned>>
  BY DEF Receive
<1>3. batch \in SUBSET Answer /\ IsFiniteSet(batch) /\ batch # {}
  <2>1. pending \subseteq Answer /\ IsFiniteSet(pending)
    BY DEF ContextInv, PoolTyped
  <2>2. IsFiniteSet(batch)
    BY <2>1, FS_AddElement
  <2> QED BY <1>1, <2>1, <2>2
<1>4. Reaches(answer) /\ \A a \in pending : Reaches(a) /\ a.kind = "bars"
  BY <1>1, <1>2 DEF ContextInv, AnswersReach
\* What the pool keeps under way besides the answer that was taken.
<1>5. ASSUME NEW i \in Instrument, UnderWay(i), i # answer.of, i \notin In(pending)
      PROVE  UnderWay(i)'
  <2>1. CASE i \in work \/ \E w \in Worker : job[w] = i
    BY <1>2, <2>1 DEF UnderWay
  <2>2. ASSUME NEW k \in 1 .. Len(out), out[k].of = i PROVE UnderWay(i)'
    <3>1. k # 1
      BY <1>1, <1>5, <2>2
    <3>2. k - 1 \in 1 .. Len(out') /\ out'[k - 1] = out[k]
      BY <1>1, <3>1
    <3> QED BY <2>2, <3>2 DEF UnderWay
  <2> QED BY <1>5, <2>1, <2>2 DEF UnderWay
<1>6. \A k \in 1 .. Len(out') : out'[k].kind = "empty" => abandoned'
  BY <1>1, <1>2 DEF ContextInv, NothingDropped
<1>7. \A k \in 1 .. Len(out') : Reaches(out[k + 1])
  BY <1>1, <1>2 DEF ContextInv, AnswersReach
<1>8. CASE answer.kind = "error" /\ lost' = lost + 1 /\ UNCHANGED <<bars, pending>>
  <2>1. lost' \in Nat /\ lost' # 0
    BY <1>8 DEF ContextInv, PoolTyped
  <2>2. PoolTyped'
    BY <1>1, <1>2, <1>8, <2>1 DEF ContextInv, PoolTyped, bars
  <2>3. AnswersReach' /\ BarsAnswered'
    BY <1>1, <1>2, <1>4, <1>7, <1>8 DEF ContextInv, AnswersReach, Reaches, BarsAnswered, bars
  <2>4. NothingDropped'
    BY <1>2, <1>6, <2>1 DEF NothingDropped
  <2>5. CompleteIsStored'
    BY <1>2, <1>8 DEF ContextInv, CompleteIsStored, bars
  <2> QED BY <2>2, <2>3, <2>4, <2>5 DEF ContextInv
<1>9. CASE answer.kind = "empty" /\ UNCHANGED <<bars, pending, lost>>
  <2>1. abandoned
    BY <1>1, <1>2, <1>9 DEF ContextInv, NothingDropped
  <2>2. PoolTyped'
    BY <1>1, <1>2, <1>9 DEF ContextInv, PoolTyped, bars
  <2>3. AnswersReach' /\ BarsAnswered'
    BY <1>1, <1>2, <1>4, <1>7, <1>9 DEF ContextInv, AnswersReach, Reaches, BarsAnswered, bars
  <2>4. NothingDropped'
    BY <1>2, <1>6, <2>1 DEF NothingDropped
  <2>5. CompleteIsStored'
    BY <1>2, <1>9 DEF ContextInv, CompleteIsStored, bars
  <2> QED BY <2>2, <2>3, <2>4, <2>5 DEF ContextInv
<1>10. CASE answer.kind = "bars" /\ pending' = batch /\ UNCHANGED <<bars, lost>>
  <2>1. PoolTyped'
    BY <1>1, <1>2, <1>3, <1>10 DEF ContextInv, PoolTyped, bars
  <2>2. AnswersReach' /\ BarsAnswered'
    BY <1>1, <1>2, <1>4, <1>7, <1>10 DEF ContextInv, AnswersReach, Reaches, BarsAnswered, bars
  <2>3. ASSUME NEW i \in Instrument, UnderWay(i) PROVE UnderWay(i)'
    BY <1>5, <1>10, <2>3 DEF UnderWay, In
  <2>4. NothingDropped'
    BY <1>2, <1>6, <1>10, <2>3 DEF ContextInv, NothingDropped, bars
  <2>5. CompleteIsStored'
    BY <1>2, <1>10 DEF ContextInv, CompleteIsStored, bars
  <2> QED BY <2>1, <2>2, <2>4, <2>5 DEF ContextInv
<1>11. CASE answer.kind = "bars" /\ Flushed(batch)
  <2>1. /\ lastDate' \in [Instrument -> 0 .. MaxDay] /\ answered' \in [Instrument -> 0 .. MaxDay]
        /\ BarsAnswered'
        /\ \A i \in Instrument : answered'[i] >= answered[i]
        /\ lost' \in Nat /\ lost' >= lost /\ pending' = {}
        /\ lost' = 0 => \A i \in In(batch) : answered'[i] >= asof
    <3>1. \A a \in batch : Reaches(a)
      BY <1>4
    <3> HIDE DEF batch
    <3> QED BY <1>2, <1>3, <1>11, <3>1, FlushedFacts
  <2>2. PoolTyped'
    BY <1>1, <1>2, <2>1, FS_EmptySet DEF ContextInv, PoolTyped
  <2>3. AnswersReach'
    <3>1. ASSUME NEW k \in 1 .. Len(out') PROVE Reaches(out[k])'
      <4>1. out[k + 1] \in Answer /\ out'[k] = out[k + 1] /\ Reaches(out[k + 1])
        BY <1>1, <1>7
      <4>2. answered'[out[k + 1].of] >= answered[out[k + 1].of]
            /\ answered[out[k + 1].of] \in Nat /\ answered'[out[k + 1].of] \in Nat /\ out[k + 1].upto \in Nat
        <5>1. out[k + 1].of \in Instrument /\ out[k + 1].upto \in 0 .. MaxDay
          BY <4>1 DEF Answer
        <5>2. answered[out[k + 1].of] \in 0 .. MaxDay /\ answered'[out[k + 1].of] \in 0 .. MaxDay
          BY <2>1, <5>1 DEF ContextInv, PoolTyped
        <5> QED BY <2>1, <5>1, <5>2
      <4> QED BY <1>2, <4>1, <4>2 DEF Reaches
    <3> QED BY <2>1, <3>1 DEF AnswersReach
  <2>4. NothingDropped'
    <3>1. ASSUME ~abandoned, lost' = 0, NEW i \in Instrument PROVE answered'[i] >= asof \/ UnderWay(i)'
      <4>1. lost = 0 /\ asof \in Nat /\ answered[i] \in Nat /\ answered'[i] \in Nat
        BY <2>1, <3>1 DEF ContextInv, PoolTyped
      <4>2. answered[i] >= asof \/ UnderWay(i)
        BY <1>2, <3>1, <4>1 DEF ContextInv, NothingDropped
      <4>3. CASE answered[i] >= asof
        BY <2>1, <4>1, <4>3
      <4>4. CASE i \in In(batch)
        BY <2>1, <3>1, <4>4
      <4>5. CASE UnderWay(i) /\ i \notin In(batch)
        BY <1>5, <4>5 DEF In
      <4> QED BY <4>2, <4>3, <4>4, <4>5
    <3> QED BY <1>2, <1>6, <3>1 DEF NothingDropped
  <2> QED BY <1>2, <2>1, <2>2, <2>3, <2>4, CompleteKept DEF ContextInv
<1> QED BY <1>8, <1>9, <1>10, <1>11 DEF Receive

\* When the pool is done only what waits for a flush is left, and it is flushed.
LEMMA DrainInv == ContextInv /\ Drain => ContextInv'
<1> SUFFICES ASSUME ContextInv, Drain PROVE ContextInv'
  OBVIOUS
<1>1. /\ cpc = "run" /\ cpc' = "report" /\ out = <<>> /\ PoolDone
      /\ UNCHANGED <<status, asof, work, job, out, abandoned>>
  BY DEF Drain
<1>2. \A i \in Instrument : UnderWay(i) => i \in In(pending)
  BY <1>1, ContextAssumption DEF UnderWay, PoolDone, Free
<1>3. /\ lastDate' \in [Instrument -> 0 .. MaxDay] /\ answered' \in [Instrument -> 0 .. MaxDay]
      /\ BarsAnswered'
      /\ \A i \in Instrument : answered'[i] >= answered[i]
      /\ lost' \in Nat /\ lost' >= lost /\ pending' = {}
      /\ lost' = 0 => \A i \in In(pending) : answered'[i] >= asof
  <2>1. CASE pending = {} /\ UNCHANGED <<bars, pending, lost>>
    BY <2>1 DEF ContextInv, PoolTyped, BarsAnswered, bars, In
  <2>2. CASE pending # {} /\ Flushed(pending)
    <3>1. pending \in SUBSET Answer /\ IsFiniteSet(pending) /\ \A a \in pending : Reaches(a)
      BY <1>1 DEF ContextInv, PoolTyped, AnswersReach
    <3> QED BY <1>1, <2>2, <3>1, FlushedFacts
  <2> QED BY <2>1, <2>2 DEF Drain
<1>4. PoolTyped'
  BY <1>1, <1>3, FS_EmptySet DEF ContextInv, PoolTyped
<1>5. NothingDropped'
  <2>1. ASSUME ~abandoned, lost' = 0, NEW i \in Instrument PROVE answered'[i] >= asof
    <3>1. lost = 0 /\ asof \in Nat /\ answered[i] \in Nat /\ answered'[i] \in Nat
      BY <1>3, <2>1 DEF ContextInv, PoolTyped
    <3>2. answered[i] >= asof \/ i \in In(pending)
      BY <1>1, <1>2, <2>1, <3>1 DEF ContextInv, NothingDropped
    <3> QED BY <1>3, <2>1, <3>1, <3>2
  <2> QED BY <1>1, <2>1 DEF NothingDropped
<1> QED BY <1>1, <1>3, <1>4, <1>5, CompleteKept DEF ContextInv, AnswersReach

\* The report counts what the tables hold.
LEMMA ReportContextInv == ContextInv /\ ReportContext => ContextInv'
<1> SUFFICES ASSUME ContextInv, ReportContext PROVE ContextInv'
  OBVIOUS
<1> DEFINE is == IF abandoned THEN "partial"
                 ELSE IF succeeded = 0 THEN "failed"
                 ELSE IF lost > 0 THEN "partial" ELSE "complete"
<1>1. status' = status \/ status' = Outcome(is)
  BY DEF ReportContext, MaySave, Saved
<1>2. UNCHANGED <<bars, asof, pool, abandoned>> /\ cpc = "report" /\ cpc' = "idle"
  BY DEF ReportContext
<1>3. CompleteIsStored'
  <2>1. CASE status' = status
    BY <1>2, <2>1 DEF ContextInv, CompleteIsStored, bars
  <2>2. CASE status' = Outcome(is) /\ status'.is = "complete"
    <3>1. ~abandoned /\ lost = 0 /\ status'.asof = asof
      BY <2>2 DEF Outcome, ContextInv, PoolTyped
    <3> QED BY <1>2, <3>1 DEF ContextInv, NothingDropped, CompleteIsStored, bars
  <2> QED BY <1>1, <2>1, <2>2 DEF CompleteIsStored
<1>4. status'.asof \in 0 .. MaxDay
  BY <1>1 DEF ContextInv, PoolTyped, Outcome
<1>5. PoolTyped' /\ BarsAnswered'
  BY <1>2, <1>4 DEF ContextInv, PoolTyped, BarsAnswered, bars, pool
<1>6. AnswersReach' /\ NothingDropped'
  BY <1>2 DEF AnswersReach, NothingDropped
<1> QED BY <1>3, <1>5, <1>6 DEF ContextInv

\* Cancelling only marks the call.
LEMMA CancelInv == ContextInv /\ Cancel => ContextInv'
<1> SUFFICES ASSUME ContextInv, Cancel PROVE ContextInv'
  OBVIOUS
<1>1. UNCHANGED <<bars, status, cpc, asof, pool>> /\ abandoned' = TRUE
  BY DEF Cancel
<1>2. PoolTyped' /\ BarsAnswered' /\ CompleteIsStored'
  BY <1>1 DEF ContextInv, PoolTyped, BarsAnswered, CompleteIsStored, bars, pool
<1>3. AnswersReach' /\ NothingDropped'
  BY <1>1 DEF ContextInv, AnswersReach, NothingDropped, Reaches, bars, pool
<1> QED BY <1>2, <1>3 DEF ContextInv

\* Every step keeps the invariant.
LEMMA ContextStepInv == ContextInv /\ [ContextNext]_contextVars => ContextInv'
<1> SUFFICES ASSUME ContextInv, [ContextNext]_contextVars PROVE ContextInv'
  OBVIOUS
<1>1. CASE UNCHANGED contextVars
  BY <1>1 DEF contextVars, bars, pool, ContextInv, PoolTyped, BarsAnswered, AnswersReach, Reaches,
              NothingDropped, UnderWay, In, CompleteIsStored
<1> QED BY <1>1, StartContextInv, LeavesInv, DiscoverInv, StopFeedingInv, HandInv, LeavePoolInv,
           FetchInv, ReceiveInv, DrainInv, ReportContextInv, CancelInv DEF ContextNext, ContextStep

\* A call that is reported complete answered for every instrument: whatever was not
\* skipped is under way until it is stored, or the call counts it as lost.
THEOREM CompleteStored == ContextSpec => []CompleteIsStored
<1>1. ContextInv => CompleteIsStored
  BY DEF ContextInv
<1> QED BY <1>1, ContextInitInv, ContextStepInv, PTL DEF ContextSpec

-----------------------------------------------------------------------------
(***************************************************************************)
(* MinutePredictor, for any stocks, bars and samples.                      *)
(*                                                                         *)
(* An actual is called resolved only when its bar is final, and a plan     *)
(* made at the start of a turn stays sound while the turn carries it out,  *)
(* whatever is stored meanwhile.                                           *)
(***************************************************************************)

\* The types the argument needs.
PickTyped ==
    /\ loaded \in Nat /\ pointer \in Nat /\ unreadable \in Nat
    /\ selected # {}
    /\ cards \in [Bars -> Nat] /\ deviations \in [Bars -> Nat]
    /\ turn = [pc |-> turn.pc, at |-> turn.at, plan |-> turn.plan, todo |-> turn.todo]

\* An actual is only called resolved when its bar is final.
ResolvedIsFinal ==
    \A r \in DOMAIN outcome : outcome[r] = "resolved" => <<r.code, r.target>> \in finals

\* So is what a turn has set out to write; it never takes a resolved actual back, and
\* it says one thing of a row.
PlanSound ==
    \A p \in turn.plan :
        /\ p[2] = "resolved" => <<p[1].code, p[1].target>> \in finals
        /\ p[2] # "resolved" => ~(p[1] \in DOMAIN outcome /\ outcome[p[1]] = "resolved")
        /\ \A q \in turn.plan : p[1] = q[1] => p = q

PickInv == PickTyped /\ ResolvedIsFinal /\ PlanSound /\ DeviationIsGrounded

\* Whatever grows without losing a resolved row keeps a deviation card grounded.
LEMMA GroundedKept ==
    ASSUME DeviationIsGrounded, UNCHANGED deviations,
           rows \subseteq rows', finals \subseteq finals',
           \A r \in DOMAIN outcome : outcome[r] = "resolved" =>
               r \in DOMAIN outcome' /\ outcome'[r] = "resolved",
           \A b \in Bars : cards[b] # NoModel => cards'[b] # NoModel
    PROVE  DeviationIsGrounded'
BY DEF DeviationIsGrounded, Of

\* Nothing was predicted yet.
LEMMA PickInitInv == PickInit => PickInv
<1> SUFFICES ASSUME PickInit PROVE PickInv
  OBVIOUS
<1>1. PickTyped
  BY DEF PickInit, PickTyped, NoModel, Waiting
<1>2. ResolvedIsFinal /\ PlanSound /\ DeviationIsGrounded
  BY DEF PickInit, ResolvedIsFinal, PlanSound, DeviationIsGrounded, Waiting
<1> QED BY <1>1, <1>2 DEF PickInv

\* A step that leaves outcome and plan alone, and loses nothing.
LEMMA AsideInv ==
    ASSUME PickInv, UNCHANGED <<outcome, deviations>>, finals \subseteq finals', rows \subseteq rows',
           \A b \in Bars : cards[b] # NoModel => cards'[b] # NoModel,
           turn'.plan \in {turn.plan, {}}, PickTyped'
    PROVE  PickInv'
<1>1. ResolvedIsFinal'
  BY DEF PickInv, ResolvedIsFinal
<1>2. PlanSound'
  BY DEF PickInv, PlanSound
<1>3. DeviationIsGrounded'
  BY GroundedKept DEF PickInv
<1> QED BY <1>1, <1>2, <1>3 DEF PickInv

\* A turn plans an actual for each row that has none yet, from the bars as they are.
LEMMA StartTurnInv == PickInv /\ StartTurn => PickInv'
<1> SUFFICES ASSUME PickInv, StartTurn PROVE PickInv'
  OBVIOUS
<1>1. PICK k \in KnownStatuses :
        turn' = [pc |-> "reconcile", at |-> bell, plan |-> PlanOf(k, bell), todo |-> {}]
  BY DEF StartTurn
<1>2. UNCHANGED <<finals, selected, rows, outcome, cards, deviations, unreadable>>
  BY DEF StartTurn
<1>3. PickTyped'
  BY <1>1, <1>2 DEF StartTurn, PickInv, PickTyped
<1>4. ResolvedIsFinal' /\ DeviationIsGrounded'
  BY <1>2, GroundedKept DEF PickInv, ResolvedIsFinal
<1>5. PlanSound'
  <2>1. \A p \in PlanOf(k, bell) : \E r \in rows :
           \/ p = <<r, "resolved">> /\ <<r.code, r.target>> \in finals
           \/ p = <<r, "unresolved">> /\ <<r.code, r.target>> \notin finals
    BY DEF PlanOf
  <2>2. \A p \in PlanOf(k, bell) :
           \/ p[2] = "resolved" /\ <<p[1].code, p[1].target>> \in finals /\ p = <<p[1], p[2]>>
           \/ p[2] = "unresolved" /\ <<p[1].code, p[1].target>> \notin finals /\ p = <<p[1], p[2]>>
    <3> TAKE p \in PlanOf(k, bell)
    <3>1. PICK r \in rows :
            \/ p = <<r, "resolved">> /\ <<r.code, r.target>> \in finals
            \/ p = <<r, "unresolved">> /\ <<r.code, r.target>> \notin finals
      BY <2>1
    <3>2. CASE p = <<r, "resolved">> /\ <<r.code, r.target>> \in finals
      <4>1. p[1] = r /\ p[2] = "resolved"
        BY <3>2
      <4> QED BY <3>2, <4>1
    <3>3. CASE p = <<r, "unresolved">> /\ <<r.code, r.target>> \notin finals
      <4>1. p[1] = r /\ p[2] = "unresolved"
        BY <3>3
      <4> QED BY <3>3, <4>1
    <3> QED BY <3>1, <3>2, <3>3
  <2>3. turn'.plan = PlanOf(k, bell)
    BY <1>1
  <2>4. ASSUME NEW p \in PlanOf(k, bell), p[2] # "resolved"
        PROVE  ~(p[1] \in DOMAIN outcome /\ outcome[p[1]] = "resolved")
    BY <2>2, <2>4 DEF PickInv, ResolvedIsFinal
  <2>5. \A p, q \in PlanOf(k, bell) : p[1] = q[1] => p = q
    BY <2>2
  <2>6. \A p \in PlanOf(k, bell) : p[2] = "resolved" => <<p[1].code, p[1].target>> \in finals
    BY <2>2
  <2> HIDE DEF PlanOf
  <2> DEFINE P == PlanOf(k, bell)
             Kept(p) == /\ p[2] = "resolved" => <<p[1].code, p[1].target>> \in finals'
                        /\ p[2] # "resolved" => ~(p[1] \in DOMAIN outcome' /\ outcome'[p[1]] = "resolved")
                        /\ \A q \in P : p[1] = q[1] => p = q
  <2>7. finals' = finals /\ outcome' = outcome
    BY <1>2
  <2>8. ASSUME NEW p \in P PROVE Kept(p)
    BY <2>4, <2>5, <2>6, <2>7
  <2> QED
    <3>1. turn'.plan = P
      BY <2>3
    <3>2. \A p \in P : Kept(p)
      BY <2>8
    <3> HIDE DEF P
    <3> QED BY ONLY <3>1, <3>2 DEF PlanSound, Kept
<1> QED BY <1>3, <1>4, <1>5 DEF PickInv

\* One actual is written: the plan that was made before is still sound.
LEMMA InsertActualInv == PickInv /\ InsertActual => PickInv'
<1> SUFFICES ASSUME PickInv, InsertActual PROVE PickInv'
  OBVIOUS
<1>1. PICK p \in turn.plan :
        /\ outcome' = [r \in DOMAIN outcome \cup {p[1]} |-> IF r = p[1] THEN p[2] ELSE outcome[r]]
        /\ turn' = [turn EXCEPT !.plan = @ \ {p}]
  BY DEF InsertActual
<1>2. UNCHANGED <<finals, selected, pointer, rows, cards, deviations, loaded, unreadable>>
  BY DEF InsertActual, memory
<1>3. turn'.plan = turn.plan \ {p} /\ PickTyped'
  BY <1>1, <1>2 DEF PickInv, PickTyped
<1>4. ResolvedIsFinal'
  BY <1>1, <1>2 DEF PickInv, ResolvedIsFinal, PlanSound
<1>5. PlanSound'
  BY <1>1, <1>2, <1>3 DEF PickInv, PlanSound
<1>6. \A r \in DOMAIN outcome : outcome[r] = "resolved" =>
          r \in DOMAIN outcome' /\ outcome'[r] = "resolved"
  BY <1>1 DEF PickInv, PlanSound
<1>7. DeviationIsGrounded'
  BY <1>2, <1>6, GroundedKept DEF PickInv
<1> QED BY <1>3, <1>4, <1>5, <1>7 DEF PickInv

\* A deviation card is only sent of a bar that has been resolved.
LEMMA BeginPredictionInv == PickInv /\ BeginPrediction => PickInv'
<1> SUFFICES ASSUME PickInv, BeginPrediction PROVE PickInv'
  OBVIOUS
<1>1. UNCHANGED <<finals, selected, pointer, rows, outcome, cards, loaded, unreadable>> /\ turn'.plan = turn.plan
  BY DEF BeginPrediction, PickInv, PickTyped
<1>2. universe' # {}
  BY DEF BeginPrediction, PickInv, PickTyped
<1>3. \/ UNCHANGED deviations
      \/ /\ deviations' = [deviations EXCEPT ![turn.at] = loaded]
         /\ cards[turn.at] # NoModel /\ ActualsReady(turn.at)
  BY DEF BeginPrediction
<1>4. PickTyped'
  BY <1>1, <1>3 DEF BeginPrediction, PickInv, PickTyped
<1>5. ResolvedIsFinal' /\ PlanSound'
  BY <1>1 DEF PickInv, ResolvedIsFinal, PlanSound
<1>6. DeviationIsGrounded'
  <2>1. CASE UNCHANGED deviations
    BY <1>1, <2>1, GroundedKept DEF PickInv
  <2>2. CASE /\ deviations' = [deviations EXCEPT ![turn.at] = loaded]
             /\ cards[turn.at] # NoModel /\ ActualsReady(turn.at)
    <3>1. PICK c \in universe' : TRUE
      BY <1>2
    <3> DEFINE r == [code |-> c, target |-> turn.at, model |-> loaded]
    <3>2. /\ r \in Of(turn.at, loaded) /\ r \in DOMAIN outcome /\ outcome[r] = "resolved"
          /\ <<r.code, turn.at>> \in finals
      BY <2>2, <3>1 DEF ActualsReady, Of, PickInv, ResolvedIsFinal
    <3>3. \A b \in Bars : deviations'[b] = IF b = turn.at THEN loaded ELSE deviations[b]
      BY <2>2 DEF PickInv, PickTyped
    <3> HIDE DEF r
    <3>4. ASSUME NEW b \in Bars, deviations'[b] # NoModel
          PROVE  /\ cards'[b] # NoModel
                 /\ \E x \in Of(b, deviations[b])' : /\ x \in DOMAIN outcome' /\ outcome'[x] = "resolved"
                                                     /\ <<x.code, b>> \in finals'
      <4>1. CASE b = turn.at
        BY <1>1, <2>2, <3>2, <3>3, <4>1 DEF Of
      <4>2. CASE b # turn.at
        BY <1>1, <3>3, <3>4, <4>2 DEF PickInv, DeviationIsGrounded, Of
      <4> QED BY <4>1, <4>2
    <3> QED BY <3>4 DEF DeviationIsGrounded
  <2> QED BY <1>3, <2>1, <2>2
<1> QED BY <1>4, <1>5, <1>6 DEF PickInv

\* A turn ends: it may send the card of its bar, and forgets its plan.
LEMMA EndPredictionInv == PickInv /\ EndPrediction => PickInv'
<1> SUFFICES ASSUME PickInv, EndPrediction PROVE PickInv'
  OBVIOUS
<1>1. \A b \in Bars : cards[b] # NoModel => cards'[b] # NoModel
  BY DEF EndPrediction, PickInv, PickTyped
<1>2. PickTyped'
  BY DEF EndPrediction, PickInv, PickTyped, Waiting
<1> QED BY <1>1, <1>2, AsideInv DEF EndPrediction, Waiting

\* Every step keeps the invariant.
LEMMA PickStepInv == PickInv /\ [PickNext]_pickVars => PickInv'
<1> SUFFICES ASSUME PickInv, [PickNext]_pickVars PROVE PickInv'
  OBVIOUS
<1>1. CASE UNCHANGED pickVars
  BY <1>1, AsideInv DEF pickVars, store, memory, PickInv, PickTyped
<1>2. CASE NothingToPredict \/ TurnFails
  BY <1>2, AsideInv DEF NothingToPredict, TurnFails, store, memory, PickInv, PickTyped, Waiting
<1>3. CASE InsertPrediction
  <2>1. UNCHANGED <<outcome, deviations, finals, cards, loaded, pointer, unreadable, selected>> /\ rows \subseteq rows'
    BY <1>3 DEF InsertPrediction, memory
  <2>2. turn'.plan = turn.plan /\ PickTyped'
    BY <1>3, <2>1 DEF InsertPrediction, PickInv, PickTyped
  <2> QED BY <2>1, <2>2, AsideInv
<1>4. CASE PredictorRestarts
  <2>1. loaded' \in Nat /\ unreadable' \in Nat
    BY <1>4 DEF PredictorRestarts, PickInv, PickTyped, NoModel
  <2> QED BY <1>4, <2>1, AsideInv DEF PredictorRestarts, store, PickInv, PickTyped, Waiting
<1>5. CASE BarIsFinal \/ BellRings \/ ReportIsRefreshed
  <2>1. UNCHANGED <<outcome, deviations, rows, cards, turn>> /\ finals \subseteq finals'
    BY <1>5 DEF BarIsFinal, BellRings, ReportIsRefreshed, store, memory
  <2>2. PickTyped'
    BY <1>5, <2>1 DEF BarIsFinal, BellRings, ReportIsRefreshed, store, memory, PickInv, PickTyped
  <2> QED BY <2>1, <2>2, AsideInv
<1> QED BY <1>1, <1>2, <1>3, <1>4, <1>5, StartTurnInv, InsertActualInv, BeginPredictionInv,
           EndPredictionInv DEF PickNext, TurnGoesOn

\* A deviation card compares a prediction that was made and sent with an actual of a
\* final bar, for any set of stocks, bars and samples. (service.go evaluateDeviation)
THEOREM DeviationGrounded == PickSpec => []DeviationIsGrounded
<1>1. PickInv => DeviationIsGrounded
  BY DEF PickInv
<1> QED BY <1>1, PickInitInv, PickStepInv, PTL DEF PickSpec

-----------------------------------------------------------------------------
(***************************************************************************)
(* MinuteBackfill, for any stocks, days and bars.                          *)
(*                                                                         *)
(* What counts as complete is whole, and bars are only ever added.         *)
(***************************************************************************)

FillTyped ==
    /\ finished = [s \in BackfillStock |-> finished[s]]
    /\ byCode = [s \in BackfillStock |-> byCode[s]]

Whole(s) == \A d \in traded[s] : OnDay(finished[s], d) # {}

\* What counts as complete is whole, also when the bars were there before.
CompleteIsWhole == \A s \in BackfillStock : byCode[s] = "complete" => Whole(s)

FillInv == FillTyped /\ CompleteIsWhole /\ SuccessIsWhole

\* A stock that is whole stays whole while bars are only added.
LEMMA WholeKept ==
    ASSUME NEW s, Whole(s), UNCHANGED traded, finished[s] \subseteq finished'[s]
    PROVE  Whole(s)'
BY DEF Whole, OnDay

\* The summary of a stock speaks of bars that are stored.
LEMMA SummaryIsWhole ==
    ASSUME NEW s, NEW counted, Summary(s, counted) = "complete", UNCHANGED traded,
           counted \subseteq finished'[s]
    PROVE  Whole(s)'
BY DEF Summary, Whole, OnDay

\* A step that stores nothing and counts nothing new.
LEMMA NothingCounted ==
    ASSUME FillInv, UNCHANGED <<finished, traded>>, FillTyped',
           \A s \in BackfillStock : byCode'[s] = "complete" => Whole(s),
           reported' = "success" =>
               reported = "success" \/ \A s \in BackfillStock : byCode[s] = "complete"
    PROVE  FillInv'
<1>1. \A s \in BackfillStock : Whole(s)' <=> Whole(s)
  BY DEF Whole, OnDay
<1>2. CompleteIsWhole'
  BY <1>1 DEF CompleteIsWhole
<1>3. SuccessIsWhole'
  BY <1>1 DEF FillInv, CompleteIsWhole, SuccessIsWhole, Whole
<1> QED BY <1>2, <1>3 DEF FillInv

\* Bars are imported and counted.
LEMMA ImportInv ==
    ASSUME FillInv, NEW s, NEW some, Import(s, some), UNCHANGED <<unfinished, traded, reported>>
    PROVE  FillInv'
<1>1. FillTyped'
  BY DEF Import, FillInv, FillTyped
<1>2. \A t \in BackfillStock : /\ finished[t] \subseteq finished'[t]
                               /\ t # s => byCode'[t] = byCode[t]
  BY DEF Import, FillInv, FillTyped
<1>3. s \in BackfillStock => /\ DayBars(s, some) \subseteq finished'[s]
                             /\ byCode'[s] = Summary(s, DayBars(s, some))
  BY DEF Import, FillInv, FillTyped, DayBars, Inserted
<1>4. CompleteIsWhole'
  <2> SUFFICES ASSUME NEW t \in BackfillStock, byCode'[t] = "complete" PROVE Whole(t)'
    BY DEF CompleteIsWhole
  <2>1. CASE t = s
    BY <1>3, <2>1, SummaryIsWhole
  <2>2. CASE t # s
    BY <1>2, <2>2, WholeKept DEF FillInv, CompleteIsWhole
  <2> QED BY <2>1, <2>2
<1>5. SuccessIsWhole'
  <2> SUFFICES ASSUME reported' = "success", NEW t \in BackfillStock PROVE Whole(t)'
    BY DEF SuccessIsWhole, Whole
  <2>1. Whole(t)
    BY DEF FillInv, SuccessIsWhole, Whole
  <2> QED BY <1>2, <2>1, WholeKept
<1> QED BY <1>1, <1>4, <1>5 DEF FillInv

\* Nothing was imported yet.
LEMMA FillInitInv == FillInit => FillInv
BY DEF FillInit, FillInv, FillTyped, CompleteIsWhole, SuccessIsWhole

\* Every step keeps the invariant.
LEMMA FillStepInv == FillInv /\ [FillNext]_fillVars => FillInv'
<1> SUFFICES ASSUME FillInv, [FillNext]_fillVars PROVE FillInv'
  OBVIOUS
<1> USE DEF storedBars
<1>1. CASE StartBackfill
  <2>1. \A s \in BackfillStock : byCode'[s] = "complete" => Whole(s)
    BY <1>1 DEF StartBackfill, Summary, Whole
  <2> QED BY <1>1, <2>1, NothingCounted DEF StartBackfill, FillInv, FillTyped
<1>2. CASE StartStaging
  BY <1>2, NothingCounted DEF StartStaging, FillInv, FillTyped
<1>3. ASSUME NEW w \in FillWorker, HandJob(w) \/ FetchArchive(w) \/ LeaveFetching(w) PROVE FillInv'
  BY <1>3, NothingCounted DEF HandJob, FetchArchive, LeaveFetching, FillInv, FillTyped, CompleteIsWhole
<1>4. ASSUME NEW w \in FillWorker, CollectArchive(w) PROVE FillInv'
  <2>1. CASE Import(fetcher[w].stock, fetcher[w].fetched) /\ UNCHANGED reported
    BY <1>4, <2>1, ImportInv DEF CollectArchive
  <2>2. CASE CommandReturns("error") /\ UNCHANGED <<finished, byCode>>
    BY <1>4, <2>2, NothingCounted DEF CollectArchive, CommandReturns, FillInv, FillTyped, CompleteIsWhole
  <2> QED BY <1>4, <2>1, <2>2 DEF CollectArchive
<1>5. ASSUME NEW w \in FillWorker, CollectFailure(w) PROVE FillInv'
  <2>1. \A s \in BackfillStock : byCode'[s] = "complete" => byCode[s] = "complete"
    BY <1>5 DEF CollectFailure, FillInv, FillTyped
  <2>2. FillTyped' /\ (reported' = "success" => reported = "success")
    BY <1>5 DEF CollectFailure, CommandReturns, FillInv, FillTyped
  <2> QED BY <1>5, <2>1, <2>2, NothingCounted DEF CollectFailure, FillInv, CompleteIsWhole
<1>6. CASE CloseJobs \/ CancelFill \/ EndProcess \/ UNCHANGED fillVars
  BY <1>6, NothingCounted DEF CloseJobs, CancelFill, EndProcess, fillVars, FillInv, FillTyped, CompleteIsWhole
<1>7. CASE EndCollecting \/ EndStaging
  BY <1>7, NothingCounted DEF EndCollecting, EndStaging, CommandReturns, CommandOutcome,
                              FillInv, FillTyped, CompleteIsWhole
<1>8. CASE ImportStaged
  <2>1. ASSUME NEW some, Import(FirstPending, some), UNCHANGED reported PROVE FillInv'
    BY <1>8, <2>1, ImportInv DEF ImportStaged
  <2>2. CASE byCode' = [byCode EXCEPT ![FirstPending] = "failed"] /\ UNCHANGED <<finished, reported>>
    <3>1. \A s \in BackfillStock : byCode'[s] = "complete" => byCode[s] = "complete"
      BY <2>2 DEF FillInv, FillTyped
    <3> QED BY <1>8, <2>2, <3>1, NothingCounted DEF ImportStaged, FillInv, FillTyped, CompleteIsWhole
  <2>3. CASE CommandReturns("error") /\ UNCHANGED <<finished, byCode>>
    BY <1>8, <2>3, NothingCounted DEF ImportStaged, CommandReturns, FillInv, FillTyped, CompleteIsWhole
  <2> QED BY <1>8, <2>1, <2>2, <2>3 DEF ImportStaged
<1> QED BY <1>1, <1>2, <1>3, <1>4, <1>5, <1>6, <1>7, <1>8 DEF FillNext, FillStep

\* A backfill that reports success has bars of every day each stock was traded on.
\* (backfill.go Run)
THEOREM SuccessWhole == FillSpec => []SuccessIsWhole
<1>1. FillInv => SuccessIsWhole
  BY DEF FillInv
<1> QED BY <1>1, FillInitInv, FillStepInv, PTL DEF FillSpec
=============================================================================
