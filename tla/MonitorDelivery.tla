--------------------------- MODULE MonitorDelivery ---------------------------
(***************************************************************************)
(* The delivery half of internal/monitor: how the monitor process keeps    *)
(* state/delivery.json and what it sends, from prepareStartup and Cycle    *)
(* down to flushState, with the storage writes that may fail, the receiver *)
(* that may accept a request whose answer never arrives, cancellation,     *)
(* crashes and restarts, and the operator's retry command.                 *)
(*                                                                         *)
(* One process holds the lock of the data directory (storage.Open), so the *)
(* only concurrency is between the process, the receivers, the clock and   *)
(* the faults.  disk is the ledger in the file; mem is the ledger in the   *)
(* local variable "state" of the running call.                             *)
(*                                                                         *)
(* Abstracted: how a report comes about (Sync, readReport,                 *)
(* prepareSecondStage) is the choice of one of the reports of the last     *)
(* completed session, with or without its second-stage cards; time is      *)
(* counted in steps between the instants that the guards tell apart.       *)
(***************************************************************************)
EXTENDS NotifyLedger

CONSTANTS
    Report,         \* the reports Sync may produce, each the set of its cards
    Review,         \* first-stage review cards
    SecondStage,    \* the cards that wait for the second-stage artifacts
    Audience,       \* [Card -> SUBSET Channel], channelNamesForRoute
    NextClose,      \* [Card -> Nat], until when AsOf is the last session
    Configuration,  \* the sets of channels a process may be configured with
    RetryAfter,     \* the delays a receiver may ask for
    MaxTime, MaxFaults, MaxCopies   \* bounds of the exploration

ASSUME ReportAssumption ==
    /\ Report \subseteq SUBSET Card
    /\ Review \subseteq Card
    /\ Audience \in [Card -> SUBSET Channel]
    /\ NextClose \in [Card -> Nat]
    /\ Configuration \subseteq SUBSET Channel
    /\ RetryAfter \subseteq Nat
    /\ MaxTime \in Nat
    /\ MaxFaults \in Nat
    /\ MaxCopies \in Nat \ {0, 1}

\* A report has the whole chain of each of its cards, with one audience; the
\* calendar finds the next session within 31 days or fails, and finished
\* events are kept for 30 days after they expired.
ASSUME SessionAssumption ==
    /\ \A r \in Report : \A c \in r :
          DependsOn[c] # NoCard => /\ DependsOn[c] \in r
                                   /\ Audience[c] = Audience[DependsOn[c]]
                                   /\ c \in SecondStage <=> DependsOn[c] \in SecondStage
    /\ \A c \in Review : DependsOn[c] = NoCard
    /\ \A c \in Card : NextClose[c] <= ExpiresAt[c] + Keep

VARIABLES
    now,        \* the wall clock
    disk,       \* state/delivery.json
    mem,        \* the ledger of the running call, NewLedger between calls
    pc,         \* where the process is
    ready,      \* startupReady; TRUE from the start under the once command
    round,      \* which of Cycle's two flushes runs or comes next
    asof,       \* the session of the report in hand
    due,        \* what flushState still has to go through
    cur,        \* the slot flushState is sending
    accepted,   \* the receiver has accepted the request on the wire
    live,       \* the channels this process was configured with
    cancelled,  \* the context of Run is done
    got,        \* how many copies each receiver has accepted
    faults      \* crashes, cancellations and failed writes so far

process == <<ready, live, cancelled>>
flush == <<due, cur, accepted>>
vars == <<now, disk, mem, pc, ready, round, asof, due, cur, accepted, live,
          cancelled, got, faults>>

NoSlot == <<>>
Sending == {"launch", "wire"}
Loaded == {"flush", "loop", "launch", "wire", "sync", "review"}

TypeOK ==
    /\ now \in 0 .. MaxTime
    /\ disk \in Ledger
    /\ mem \in Ledger
    /\ pc \in {"down", "top"} \cup Loaded
    /\ ready \in BOOLEAN
    /\ round \in {1, 2}
    /\ asof \in Nat
    /\ due \subseteq Slot
    /\ cur \in Slot \cup {NoSlot}
    /\ accepted \in BOOLEAN
    /\ live \subseteq Channel
    /\ cancelled \in BOOLEAN
    /\ got \in [Slot -> 0 .. MaxCopies]
    /\ faults \in 0 .. MaxFaults

Init ==
    /\ now = 0
    /\ disk = NewLedger
    /\ mem = NewLedger
    /\ pc = "down"
    /\ ready = FALSE
    /\ round = 1
    /\ asof = 0
    /\ due = {}
    /\ cur = NoSlot
    /\ accepted = FALSE
    /\ live = {}
    /\ cancelled = FALSE
    /\ got = [s \in Slot |-> 0]
    /\ faults = 0

-----------------------------------------------------------------------------
(* The file.  A failed write leaves the old contents, or the new ones when  *)
(* it fails after the rename.                                               *)

Fault == faults < MaxFaults /\ faults' = faults + 1

Written(l) == disk' = l /\ UNCHANGED faults

WriteFails(l) == Fault /\ disk' \in {disk, l}

\* A write the code makes only when the ledger changed.
WrittenIfChanged(old, l) == IF l = old THEN UNCHANGED <<disk, faults>> ELSE Written(l)

-----------------------------------------------------------------------------
(* The process and its two loops.                                           *)

\* A process starts, under systemd or as the once command, which is a Cycle
\* without prepareStartup.  It ends after that Cycle; as a process keeps nothing
\* between cycles, running once again is here one more cycle of it.
Start(once, channels) ==
    /\ pc = "down"
    /\ pc' = "top"
    /\ ready' = once
    /\ live' = channels
    /\ UNCHANGED <<now, disk, mem, round, asof, flush, cancelled, got, faults>>

\* The call ends and its ledger with it.
Forget ==
    /\ mem' = NewLedger
    /\ round' = 1
    /\ asof' = 0
    /\ due' = {}
    /\ cur' = NoSlot
    /\ accepted' = FALSE

Return == pc' = "top" /\ Forget

\* readState: prepareStartup goes on to Sync with it, Cycle to its first flush.
ReadState ==
    /\ pc = "top"
    /\ ~cancelled
    /\ Validate(disk)
    /\ LET l == Normalize(disk) IN
        /\ WrittenIfChanged(disk, l)
        /\ mem' = l
    /\ pc' = IF ready THEN "flush" ELSE "sync"
    /\ round' = 1
    /\ UNCHANGED <<now, process, asof, flush, got>>

ReadStateFails ==
    /\ pc = "top"
    /\ ~cancelled
    /\ IF Validate(disk)
       THEN Normalize(disk) # disk /\ WriteFails(Normalize(disk))
       ELSE UNCHANGED <<disk, faults>>
    /\ Return
    /\ UNCHANGED <<now, process, got>>

\* Run ends once its context is done.
Stop ==
    /\ pc = "top"
    /\ cancelled
    /\ pc' = "down"
    /\ ready' = FALSE
    /\ live' = {}
    /\ cancelled' = FALSE
    /\ UNCHANGED <<now, disk, mem, round, asof, flush, got, faults>>

-----------------------------------------------------------------------------
(* flushState.                                                              *)

\* flushState returns.  Cycle remembers the error of its first flush and goes
\* on with the same ledger l; after the second flush it returns too.
FlushReturns(l) ==
    IF round = 1
    THEN /\ pc' = "sync"
         /\ mem' = l
         /\ due' = {}
         /\ cur' = NoSlot
         /\ accepted' = FALSE
         /\ UNCHANGED <<round, asof>>
    ELSE Return

OpenFlush ==
    /\ pc = "flush"
    /\ LET l == Prune(Expire(Normalize(mem), now), now) IN
        \/ /\ WrittenIfChanged(mem, l)
           /\ mem' = l
           /\ due' = Due(l, now)
           /\ pc' = "loop"
           /\ UNCHANGED <<round, asof, cur, accepted>>
        \/ /\ l # mem
           /\ WriteFails(l)
           /\ FlushReturns(l)
    /\ UNCHANGED <<now, process, got>>

\* The deliveries are gone through in the order of Due.
Turn(s) ==
    /\ pc = "loop"
    /\ ~cancelled
    /\ s \in due
    /\ \A r \in due : ~Precedes(r, s)

Skip(s) ==
    /\ Turn(s)
    /\ s[2] \notin live \/ ~CanDeliver(mem, s)
    /\ due' = due \ {s}
    /\ UNCHANGED <<now, disk, mem, pc, process, round, asof, cur, accepted, got, faults>>

\* Mutant of Claim: the in_flight mark stays in memory.
ClaimUnsaved(s) ==
    /\ Turn(s)
    /\ s[2] \in live
    /\ CanDeliver(mem, s)
    /\ mem' = MarkInFlight(mem, s)
    /\ due' = due \ {s}
    /\ cur' = s
    /\ pc' = "launch"
    /\ UNCHANGED <<now, disk, process, round, asof, accepted, got, faults>>

\* The delivery is marked in_flight, and on disk, before it is sent; or that
\* write fails; or Store.Check has found the data directory gone.
Claim(s) ==
    /\ Turn(s)
    /\ s[2] \in live
    /\ CanDeliver(mem, s)
    /\ LET l == MarkInFlight(mem, s) IN
        \/ /\ Written(l)
           /\ mem' = l
           /\ due' = due \ {s}
           /\ cur' = s
           /\ pc' = "launch"
           /\ UNCHANGED <<round, asof, accepted>>
        \/ /\ WriteFails(l)
           /\ FlushReturns(l)
        \/ /\ Fault
           /\ FlushReturns(mem)
           /\ UNCHANGED disk
    /\ UNCHANGED <<now, process, got>>

\* What became of the current delivery is written; if that works the loop goes
\* on, where a done context is noticed.
Settle(l) ==
    /\ \/ /\ Written(l)
          /\ mem' = l
          /\ pc' = "loop"
          /\ cur' = NoSlot
          /\ accepted' = FALSE
          /\ UNCHANGED <<round, asof, due>>
       \/ /\ WriteFails(l)
          /\ FlushReturns(l)
    /\ UNCHANGED <<now, process, got>>

\* The session opened while the mark was written: nothing is sent.
LateExpire ==
    /\ pc = "launch"
    /\ ExpiresAt[cur[1]] <= now
    /\ Settle(Expire(mem, now))

Launch ==
    /\ pc = "launch"
    /\ now < ExpiresAt[cur[1]]
    /\ pc' = "wire"
    /\ UNCHANGED <<now, disk, mem, process, round, asof, flush, got, faults>>

\* The receiver accepts the request: the user sees one more copy.
Accept ==
    /\ pc = "wire"
    /\ ~accepted
    /\ accepted' = TRUE
    /\ got' = [got EXCEPT ![cur] = IF @ < MaxCopies THEN @ + 1 ELSE @]
    /\ UNCHANGED <<now, disk, mem, pc, process, round, asof, due, cur, faults>>

\* sendCtx is done: Run was cancelled, or the card expired.
SendDone == cancelled \/ ExpiresAt[cur[1]] <= now

ReplyOK ==
    /\ pc = "wire"
    /\ accepted
    /\ Settle(MarkDelivered(mem, cur))

\* The send is cut short, whether or not the receiver has accepted it.
ReplyCut ==
    /\ pc = "wire"
    /\ SendDone
    /\ LET l == MarkUnknown(mem, cur) IN
        Settle(IF cancelled THEN l ELSE Expire(l, ExpiresAt[cur[1]]))

\* The receiver refuses the message for good.
ReplyPermanent ==
    /\ pc = "wire"
    /\ ~SendDone
    /\ ~accepted
    /\ Settle(MarkPermanent(mem, cur))

\* Any other error.  A broken connection or an unreadable answer says nothing
\* about the receiver, so the message may have been accepted.
ReplyRetryable ==
    /\ pc = "wire"
    /\ ~SendDone
    /\ \E after \in RetryAfter : Settle(MarkRetryable(mem, cur, after, now))

EndFlush ==
    /\ pc = "loop"
    /\ due = {} \/ cancelled
    /\ FlushReturns(mem)
    /\ UNCHANGED <<now, disk, process, got, faults>>

-----------------------------------------------------------------------------
(* Sync and enqueueReportDeferred, enqueueFirstStageReview.                 *)

\* Mutant of NoReport: a failed startup synchronization counts as done.
NoReportReady ==
    /\ pc = "sync"
    /\ ready' = TRUE
    /\ Return
    /\ UNCHANGED <<now, disk, live, cancelled, got, faults>>

\* No report: Sync failed, a report is not due, or the completed session
\* changed during the startup synchronization.  The call returns.
NoReport ==
    /\ pc = "sync"
    /\ Return
    /\ UNCHANGED <<now, disk, process, got, faults>>

\* Mutant of Recorded: only a confirmed message counts.
RecordedDelivered(l, date, ch) ==
    \E c \in Card : AsOf[c] = date /\ l[<<c, ch>>].status = "delivered"

\* No channel gets a second message for one data date.
Recorded(l, date, ch) ==
    \E c \in Card : AsOf[c] = date /\ l[<<c, ch>>].status # "absent"

\* The slots of report r, without its second-stage cards when these are deferred.
\* Which channels have a message for the date is asked before any card is added.
Wanted(l, r, deferred) ==
    {s \in r \X live :
        /\ s[2] \in Audience[s[1]]
        /\ ~Recorded(l, AsOf[s[1]], s[2])
        /\ ~(deferred /\ s[1] \in SecondStage)}

EnqueueReport(r, deferred) ==
    /\ pc = "sync"
    /\ \A c \in r : AsOf[c] <= now /\ now < NextClose[c]
    /\ LET open == \A c \in r : now < ExpiresAt[c]
           l == IF open THEN Enqueue(mem, Wanted(mem, r, deferred)) ELSE mem
       IN  \/ /\ WrittenIfChanged(mem, l)
              /\ mem' = l
              /\ pc' = "review"
              /\ asof' \in {AsOf[c] : c \in r}
              /\ UNCHANGED <<round, flush>>
           \/ /\ l # mem
              /\ WriteFails(l)
              /\ Return
    /\ UNCHANGED <<now, process, got>>

\* After the review prepareStartup is done, and Cycle flushes again.
ReviewDone(l) ==
    IF ready
    THEN /\ pc' = "flush"
         /\ round' = 2
         /\ mem' = l
         /\ asof' = 0
         /\ UNCHANGED <<ready, flush>>
    ELSE /\ ready' = TRUE
         /\ Return

\* A review is enqueued once, for all its channels.  Cycle and prepareStartup
\* only log its failure: with the entry in memory Cycle goes on.
EnqueueReview(c) ==
    /\ pc = "review"
    /\ AsOf[c] = asof
    /\ now < NextClose[c]
    /\ ~Present(mem, c)
    /\ LET l == Enqueue(mem, {c} \X (Audience[c] \cap live)) IN
        /\ l # mem
        /\ Written(l) \/ WriteFails(l)
        /\ ReviewDone(l)
    /\ UNCHANGED <<now, live, cancelled, got>>

NoReview ==
    /\ pc = "review"
    /\ ReviewDone(mem)
    /\ UNCHANGED <<now, disk, live, cancelled, got, faults>>

-----------------------------------------------------------------------------
(* Cancellation, crashes, the retry command, the clock.                     *)

\* The context of Run is cancelled: a signal, or another part of the program.
Cancel ==
    /\ pc # "down"
    /\ ~cancelled
    /\ cancelled' = TRUE
    /\ Fault
    /\ UNCHANGED <<now, disk, mem, pc, ready, round, asof, flush, live, got>>

\* The process is gone; the kernel drops its lock.
Crash ==
    /\ pc # "down"
    /\ Fault
    /\ pc' = "down"
    /\ Forget
    /\ ready' = FALSE
    /\ live' = {}
    /\ cancelled' = FALSE
    /\ UNCHANGED <<now, disk, got>>

\* The operator's retry command needs the lock as well.  It persists the
\* normalized ledger, then the ledger with the blocked deliveries reopened.
RetryCommand(channels) ==
    /\ pc = "down"
    /\ Validate(disk)
    /\ LET n == Normalize(disk)
           l == Retry(n, channels, now)
       IN  \/ /\ l # disk
              /\ Written(l)
           \/ /\ n # l
              /\ Fault
              /\ disk' \in {disk, n, l}
    /\ UNCHANGED <<now, mem, pc, process, round, asof, flush, got>>

Tick ==
    /\ now < MaxTime
    /\ now' = now + 1
    /\ UNCHANGED <<disk, mem, pc, process, round, asof, flush, got, faults>>

-----------------------------------------------------------------------------
StartSome == \E once \in BOOLEAN, channels \in Configuration : Start(once, channels)

Flush ==
    \/ OpenFlush
    \/ \E s \in due : Skip(s) \/ Claim(s)
    \/ LateExpire \/ Launch
    \/ ReplyOK \/ ReplyCut \/ ReplyPermanent \/ ReplyRetryable
    \/ EndFlush

Publish ==
    \/ NoReport
    \/ \E r \in Report, deferred \in BOOLEAN : EnqueueReport(r, deferred)
    \/ \E c \in Review : EnqueueReview(c)
    \/ NoReview

\* What the process does on its own.
Work == ReadState \/ ReadStateFails \/ Stop \/ Flush \/ Publish

RetrySome == \E channels \in {Channel} \cup {{ch} : ch \in Channel} : RetryCommand(channels)

Next ==
    \/ StartSome \/ Work
    \/ Accept
    \/ Cancel \/ Crash \/ RetrySome \/ Tick

Spec == Init /\ [][Next]_vars

\* The service manager restarts the process, the process does not stall (every
\* send and every synchronization has a timeout), time passes, and a process
\* that keeps trying its startup synchronization gets it done some day.
Fairness ==
    /\ WF_vars(StartSome)
    /\ WF_vars(Work)
    /\ WF_vars(Tick)
    /\ SF_vars(~ready /\ \E r \in Report, deferred \in BOOLEAN : EnqueueReport(r, deferred))

FairSpec == Spec /\ Fairness

-----------------------------------------------------------------------------
(* Properties.                                                              *)

\* Write-ahead: from the moment a message may leave the process until its
\* outcome is written, the file shows that delivery as in_flight and agrees
\* with the memory, and the message it depends on is recorded as delivered
\* (flushState marks and saves before channel.Send).
WriteAhead ==
    pc \in Sending =>
        /\ disk = mem
        /\ disk[cur].status = "in_flight"
        /\ Dependent(cur) => disk[Before(cur)].status = "delivered"

\* A receiver that saw a detail page saw the card it belongs to before
\* (CanDeliver, over crashes, retries and failed writes).
ChainOrder ==
    \A s \in Slot : got[s] > 0 /\ Dependent(s) => got[Before(s)] > 0

\* A delivery is recorded as delivered only if its receiver has accepted it,
\* and what a receiver accepted stays in the ledger until its retention ends:
\* pruning or a failed write never lets a message be enqueued afresh.
DeliveredIsTrue ==
    \A s \in Slot :
        /\ disk[s].status = "delivered" => got[s] > 0
        /\ got[s] > 0 /\ disk[s].status = "absent" => ExpiresAt[s[1]] + Keep <= now

\* Nothing is sent twice in silence: when the receiver may have a copy that is
\* not recorded as delivered, or has more than one, the entry says so, by its
\* possibly_duplicate mark or its failed attempts.
NoSilentCopy ==
    \A s \in Slot :
        \/ got[s] > 0 /\ disk[s].status \notin {"absent", "in_flight", "delivered"}
        \/ got[s] > 1 /\ disk[s].status # "absent"
        => Traced(disk[s])

\* The file never reaches a state that the next start refuses to read, and an
\* unfinished delivery always has the one it waits for in the file, for the
\* same channel: otherwise it could never be delivered (Validate checks only
\* that the event is there).
LedgerReadable ==
    /\ Validate(disk)
    /\ \A s \in Slot : Dependent(s) /\ disk[s].status \in Open =>
                       disk[Before(s)].status # "absent"

\* No channel gets the messages of two reports of one data date, however often
\* the report is refreshed ("Keep the first durable message per data date and
\* channel", startup.go).
OneReportPerDate ==
    \A c, d \in Card \ Review : \A ch \in Channel :
        /\ AsOf[c] = AsOf[d]
        /\ disk[<<c, ch>>].status # "absent"
        /\ disk[<<d, ch>>].status # "absent"
        => \E r \in Report : c \in r /\ d \in r

\* A confirmed delivery is final: no step reopens it, blocks it, or brings its
\* receiver another copy, and only the retention removes it.
ConfirmedIsFinal ==
    [][\A s \in Slot : disk[s].status = "delivered" =>
          /\ got'[s] = got[s]
          /\ \/ disk'[s].status = "delivered"
             \/ disk'[s].status = "absent" /\ ExpiresAt[s[1]] + Keep <= now]_vars

\* "A failed refresh must not send a cached recommendation" (startup.go): after
\* a start nothing leaves the process before a synchronization has succeeded and
\* its report was queued, and nothing that has expired is handed to a sender at
\* all.  Only the once command is ready when it starts.
StartupGate ==
    [][/\ pc' = "wire" /\ pc # "wire" => ready /\ now < ExpiresAt[cur[1]]
       /\ ready' /\ ~ready => pc \in {"down", "review"}]_vars

\* No delivery stays open for ever: it is confirmed, blocked, given up or
\* removed, whatever the receivers answer and even when its channel is no
\* longer configured (Expire and Prune, reached by every Cycle).
Settles == \A s \in Slot : disk[s].status \in Open ~> disk[s].status \notin Open

\* The file, read as the record of CardPromise.  What has expired is over, even
\* before Expire has written it, unless it is on the wire at that moment.
Outstanding(s) ==
    /\ disk[s].status \in Open
    /\ now < ExpiresAt[s[1]] \/ (pc = "wire" /\ cur = s)

phaseOf ==
    [s \in Slot |-> IF disk[s].status \in {"absent", "delivered"} THEN disk[s].status
                    ELSE IF Outstanding(s) THEN "open" ELSE "stopped"]

Promise == INSTANCE CardPromise WITH phase <- phaseOf

\* The monitor implements CardPromise.
KeepsPromise == Promise!Spec
=============================================================================
