---------------------------- MODULE ServiceLedger ----------------------------
(***************************************************************************)
(* A delivery ledger that a service keeps in memory beside its file: the   *)
(* premarket cards and article of the day-range service                    *)
(* (dayrange/delivery.go, premarket_article.go), its execution card        *)
(* (dayrange/execution.go) and the cards of the minute predictor           *)
(* (predictor/monitor.go).  The three owners share the loop that sends;    *)
(* they differ in the clock they flush by, in when they flush, and in the  *)
(* push switch.                                                            *)
(*                                                                         *)
(* Unlike the monitor, which reads its file again in every cycle, a        *)
(* service reads it once, when the process starts.  mem is that ledger; it *)
(* lives until the process ends, so that a failed write leaves the two     *)
(* apart and nothing but a later write brings them together.               *)
(*                                                                         *)
(* A call is one turn of the service's loop: step and Flush of the         *)
(* day-range service, one turn of the predictor's Run.  The mutex of the   *)
(* ledger is held from the flush on until it returns.                      *)
(*                                                                         *)
(* Abstracted: which cards a forecast gives is the choice of a batch.      *)
(***************************************************************************)
EXTENDS NotifyLedger

CONSTANTS
    Owner,          \* "dayrange", "execution" or "predictor"
    Batch,          \* the sets of cards that are published together
    Audience,       \* [Card -> SUBSET Channel], the channels of its route
    Configuration,  \* the sets of channels a process may be configured with
    RetryAfter,     \* the delays a receiver may ask for
    RetryBy,        \* the channels the operator may give to the retry command
    MaxTime, MaxFaults, MaxCopies   \* bounds of the exploration

ASSUME OwnerAssumption == Owner \in {"dayrange", "execution", "predictor"}

\* A batch has the whole chain of each of its cards, with one audience; the
\* predictor's cards stand alone.  Finished events are kept for 30 days.
ASSUME BatchAssumption ==
    /\ Batch \subseteq SUBSET Card
    /\ Audience \in [Card -> SUBSET Channel]
    /\ \A b \in Batch : \A c \in b :
          DependsOn[c] # NoCard => /\ DependsOn[c] \in b
                                   /\ Audience[c] = Audience[DependsOn[c]]

ASSUME ServiceAssumption ==
    /\ Configuration \subseteq SUBSET Channel
    /\ RetryAfter \subseteq Nat
    /\ RetryBy \subseteq Channel
    /\ MaxTime \in Nat
    /\ MaxFaults \in Nat
    /\ MaxCopies \in Nat \ {0, 1}

VARIABLES
    now,        \* the wall clock
    disk,       \* the ledger in the file
    mem,        \* the ledger of the running service, NewLedger without one
    pc,         \* where the service is
    home,       \* where it goes when the flush returns
    clock,      \* the time that was read when the call began
    at,         \* the time by which the flush judges
    due,        \* what the flush still has to go through
    cur,        \* the slot it is sending
    accepted,   \* the receiver has accepted the request on the wire
    live,       \* the channels this process was configured with
    push,       \* the push switch of the running service
    setting,    \* what the predictor's runtime configuration file says of it
    seen,       \* push was on at some moment of this call
    got,        \* how many copies each receiver has accepted
    asked,      \* the channels the operator has named in a retry command
    faults      \* crashes, restarts and failed writes so far

flush == <<at, due, cur, accepted>>
call == <<home, clock, seen>>
process == <<live, push>>
world == <<now, got, asked>>
vars == <<now, disk, mem, pc, home, clock, at, due, cur, accepted, live, push,
          setting, seen, got, asked, faults>>

NoSlot == <<>>
Sending == {"launch", "wire"}
Flushing == {"loop"} \cup Sending

TypeOK ==
    /\ now \in 0 .. MaxTime
    /\ disk \in Ledger
    /\ mem \in Ledger
    /\ pc \in {"down", "idle", "call", "open"} \cup Flushing
    /\ home \in {"idle", "call"}
    /\ clock \in 0 .. now
    /\ at \in clock .. now
    /\ due \subseteq Slot
    /\ cur \in Slot \cup {NoSlot}
    /\ accepted \in BOOLEAN
    /\ live \subseteq Channel
    /\ push \in BOOLEAN
    /\ setting \in BOOLEAN
    /\ seen \in BOOLEAN
    /\ got \in [Slot -> 0 .. MaxCopies]
    /\ asked \subseteq RetryBy
    /\ faults \in 0 .. MaxFaults

Init ==
    /\ now = 0
    /\ disk = NewLedger
    /\ mem = NewLedger
    /\ pc = "down"
    /\ home = "idle"
    /\ clock = 0
    /\ at = 0
    /\ due = {}
    /\ cur = NoSlot
    /\ accepted = FALSE
    /\ live = {}
    /\ push = FALSE
    /\ setting \in BOOLEAN
    /\ seen = FALSE
    /\ got = [s \in Slot |-> 0]
    /\ asked = {}
    /\ faults = 0

-----------------------------------------------------------------------------
(* The file.                                                                *)

Fault == faults < MaxFaults /\ faults' = faults + 1

Written(l) == disk' = l /\ UNCHANGED faults

\* A failed write leaves the old contents, or the new ones when it fails after
\* the rename.
WriteFails(l) == Fault /\ disk' \in {disk, l}

Saved(l) == Written(l) \/ WriteFails(l)

\* What a save makes of the file when its error is dropped, or when the code
\* has nothing to save.
SavedIfChanged(old, l) == IF l = old THEN UNCHANGED <<disk, faults>> ELSE Saved(l)

-----------------------------------------------------------------------------
(* The process: ConfigureDelivery, ConfigureExecutionDelivery, loadLedger.  *)

\* The predictor remembers its switch in a file; the day-range service has it
\* from the configuration; the execution card has none.
PushAtStart ==
    CASE Owner = "predictor" -> {setting}
      [] Owner = "dayrange"  -> BOOLEAN
      [] OTHER               -> {TRUE}

\* The ledger is read, normalized and, if that changed it, saved.
Load(channels) ==
    /\ pc = "down"
    /\ Validate(disk)
    /\ LET l == Normalize(disk) IN
        /\ IF l = disk THEN UNCHANGED <<disk, faults>> ELSE Written(l)
        /\ mem' = l
    /\ pc' = "idle"
    /\ live' = channels
    /\ push' \in PushAtStart
    /\ UNCHANGED <<world, call, flush, setting>>

\* The save fails, and with it the start of the process.
LoadFails ==
    /\ pc = "down"
    /\ Validate(disk)
    /\ Normalize(disk) # disk
    /\ WriteFails(Normalize(disk))
    /\ UNCHANGED <<world, mem, pc, call, flush, process, setting>>

\* The ledger in memory is gone.
Gone ==
    /\ pc' = "down"
    /\ mem' = NewLedger
    /\ home' = "idle"
    /\ clock' = 0
    /\ seen' = FALSE
    /\ at' = 0
    /\ due' = {}
    /\ cur' = NoSlot
    /\ accepted' = FALSE
    /\ live' = {}
    /\ push' = FALSE

Crash ==
    /\ pc # "down"
    /\ Fault
    /\ Gone
    /\ UNCHANGED <<world, disk, setting>>

\* The process is stopped between two calls.  The predictor saves its ledger
\* once more and drops the error.
Stop ==
    /\ pc = "idle"
    /\ Fault
    /\ disk' \in IF Owner = "predictor" THEN {disk, mem} ELSE {disk}
    /\ Gone
    /\ UNCHANGED <<world, setting>>

-----------------------------------------------------------------------------
(* A call, and what it publishes.                                           *)

Begin ==
    /\ pc = "idle"
    /\ pc' = "call"
    /\ clock' = now
    /\ at' = now
    /\ seen' = push
    /\ UNCHANGED <<world, disk, mem, home, due, cur, accepted, process, setting, faults>>

\* The slots of a batch.  The predictor leaves a card alone that it has queued.
Added(l, b) ==
    IF Owner = "predictor" /\ \E c \in b : Present(l, c)
    THEN {}
    ELSE {s \in b \X live : s[2] \in Audience[s[1]]}

\* publishPremarket, publishPremarketArticle, publishExecutionCard and
\* enqueueMessage.  The deadline is judged by the clock of the call; push was
\* read at some moment of it.  A failed save leaves the cards in memory.  The
\* first three flush at once.  A call does not last as long as the retention,
\* which is 30 days.
Publish(b) ==
    /\ pc = "call"
    /\ seen
    /\ \A c \in b : /\ AsOf[c] <= clock /\ clock < ExpiresAt[c]
                    /\ now < ExpiresAt[c] + Keep
    /\ Added(mem, b) # {}
    /\ LET l == Enqueue(mem, Added(mem, b)) IN
        /\ mem' = l
        /\ \/ /\ Written(l)
              /\ pc' = IF Owner = "predictor" THEN "call" ELSE "open"
           \/ /\ WriteFails(l)
              /\ UNCHANGED pc
    /\ UNCHANGED <<world, call, flush, process, setting>>

-----------------------------------------------------------------------------
(* The flush.                                                               *)

FlushStarts == pc \in {"open", "call"}

\* Where it returns to: a flush after publishing goes on with the call.
Home == IF pc = "open" THEN "call" ELSE "idle"

\* The day-range service reads the clock again, the others use the call's.
FlushTime == IF Owner = "dayrange" THEN now ELSE clock

\* The call of the execution card ends without a flush of its own.  The day-range
\* service has nothing to flush, and writes nothing, while its ledger has no event;
\* the predictor makes no such exception.
NothingToFlush ==
    \/ Owner = "execution" /\ pc = "call"
    \/ Owner # "predictor" /\ \A c \in Card : ~Present(mem, c)

FlushEmpty ==
    /\ pc' = Home
    /\ UNCHANGED <<world, disk, mem, call, flush, process, setting, faults>>

OpenFlush ==
    /\ FlushStarts
    /\ IF NothingToFlush THEN FlushEmpty
       ELSE /\ push
            /\ at' = FlushTime
            /\ due' = Due(mem, FlushTime)
            /\ home' = Home
            /\ pc' = "loop"
            /\ UNCHANGED <<world, disk, mem, clock, seen, cur, accepted, process, setting, faults>>

\* expirePendingLocked: everything that is open is given up.
Withdraw(l) ==
    [s \in Slot |-> IF l[s].status \in Open
                    THEN [l[s] EXCEPT !.status = "expired", !.next = 0]
                    ELSE l[s]]

\* With push off nothing is sent.
FlushOff ==
    /\ FlushStarts
    /\ ~NothingToFlush
    /\ ~push
    /\ LET l == IF Owner = "predictor" THEN Withdraw(mem) ELSE Expire(mem, FlushTime) IN
        /\ mem' = l
        /\ SavedIfChanged(mem, l)
    /\ pc' = Home
    /\ UNCHANGED <<world, call, flush, process, setting>>

\* The flush ends, with the ledger l.
FlushReturns(l) ==
    /\ mem' = l
    /\ pc' = home
    /\ due' = {}
    /\ cur' = NoSlot
    /\ accepted' = FALSE
    /\ UNCHANGED at

\* The deliveries are gone through in the order of Due.
Turn(s) ==
    /\ pc = "loop"
    /\ s \in due
    /\ \A r \in due : ~Precedes(r, s)

\* A channel that is not configured blocks its messages, in memory.
ChannelMissing(s) ==
    /\ Turn(s)
    /\ s[2] \notin live
    /\ mem' = MarkPermanent(mem, s)
    /\ due' = due \ {s}
    /\ UNCHANGED <<world, disk, pc, call, at, cur, accepted, process, setting, faults>>

Skip(s) ==
    /\ Turn(s)
    /\ s[2] \in live
    /\ ~CanDeliver(mem, s)
    /\ due' = due \ {s}
    /\ UNCHANGED <<world, disk, mem, pc, call, at, cur, accepted, process, setting, faults>>

\* Mutant of Claim: the mark is saved with the outcome only.
ClaimUnsaved(s) ==
    /\ Turn(s)
    /\ s[2] \in live
    /\ CanDeliver(mem, s)
    /\ mem' = MarkInFlight(mem, s)
    /\ due' = due \ {s}
    /\ cur' = s
    /\ pc' = "launch"
    /\ UNCHANGED <<world, disk, call, at, accepted, process, setting, faults>>

\* The in_flight mark is saved before the message is sent.  If the save fails
\* the mark stays in memory; if Store.Check fails nothing was marked.
Claim(s) ==
    /\ Turn(s)
    /\ s[2] \in live
    /\ CanDeliver(mem, s)
    /\ LET l == MarkInFlight(mem, s) IN
        \/ /\ Written(l)
           /\ mem' = l
           /\ due' = due \ {s}
           /\ cur' = s
           /\ pc' = "launch"
           /\ UNCHANGED <<at, accepted>>
        \/ WriteFails(l) /\ FlushReturns(l)
        \/ Fault /\ UNCHANGED disk /\ FlushReturns(mem)
    /\ UNCHANGED <<world, call, process, setting>>

\* The deadline passed during the save: nothing is sent, and nothing saved.
LateExpire ==
    /\ pc = "launch"
    /\ ExpiresAt[cur[1]] <= now
    /\ mem' = Expire(mem, now)
    /\ pc' = "loop"
    /\ cur' = NoSlot
    /\ UNCHANGED <<world, disk, call, at, due, accepted, process, setting, faults>>

Launch ==
    /\ pc = "launch"
    /\ now < ExpiresAt[cur[1]]
    /\ pc' = "wire"
    /\ UNCHANGED <<world, disk, mem, call, flush, process, setting, faults>>

\* The receiver accepts the request: the user sees one more copy.
Accept ==
    /\ pc = "wire"
    /\ ~accepted
    /\ accepted' = TRUE
    /\ got' = [got EXCEPT ![cur] = IF @ < MaxCopies THEN @ + 1 ELSE @]
    /\ UNCHANGED <<now, asked, disk, mem, pc, call, at, due, cur, process, setting, faults>>

\* Mutant of Settle: a save that fails takes the outcome back.
SettleUndone(l) ==
    /\ pc = "wire"
    /\ \/ /\ Written(l)
          /\ mem' = l
          /\ pc' = "loop"
          /\ cur' = NoSlot
          /\ accepted' = FALSE
          /\ UNCHANGED <<at, due>>
       \/ WriteFails(l) /\ FlushReturns(mem)
    /\ UNCHANGED <<world, call, process, setting>>

\* The outcome is marked and saved; if that fails the flush ends.
Settle(l) ==
    /\ pc = "wire"
    /\ \/ /\ Written(l)
          /\ mem' = l
          /\ pc' = "loop"
          /\ cur' = NoSlot
          /\ accepted' = FALSE
          /\ UNCHANGED <<at, due>>
       \/ WriteFails(l) /\ FlushReturns(l)
    /\ UNCHANGED <<world, call, process, setting>>

ReplyOK == accepted /\ Settle(MarkDelivered(mem, cur))

\* The receiver refuses the message for good.
ReplyPermanent == ~accepted /\ Settle(MarkPermanent(mem, cur))

\* Any other error, a timeout and a cancellation among them: the message may
\* have been accepted all the same.
ReplyRetryable ==
    \E after \in RetryAfter : Settle(MarkRetryable(mem, cur, after, now))

\* The end of the loop: expire, prune and save.
EndFlush ==
    /\ pc = "loop"
    /\ due = {}
    /\ LET l == Prune(Expire(mem, at), at) IN
        /\ Saved(l)
        /\ FlushReturns(l)
    /\ UNCHANGED <<world, call, process, setting>>

-----------------------------------------------------------------------------
(* The switch, the retry command, the clock.                                *)

\* Mutant of SetPushEnabled: it does not wait for the flush to end.
SetPushUnlocked(enabled) ==
    /\ Owner = "predictor"
    /\ pc # "down"
    /\ setting' = enabled
    /\ push' = enabled
    /\ seen' = (seen \/ enabled)
    /\ LET l == IF enabled THEN mem ELSE Withdraw(mem) IN
        /\ mem' = l
        /\ SavedIfChanged(mem, l)
    /\ UNCHANGED <<world, pc, home, clock, flush, live>>

\* The dashboard turns the predictor's cards on or off, between two uses of the
\* ledger.  The setting is written first; what is open is withdrawn, and the
\* error of saving that is dropped.
SetPushEnabled(enabled) ==
    /\ Owner = "predictor"
    /\ pc \in {"idle", "call"}
    /\ \/ /\ setting' = enabled
          /\ push' = enabled
          /\ seen' = (seen \/ (pc = "call" /\ enabled))
          /\ LET l == IF enabled THEN mem ELSE Withdraw(mem) IN
              /\ mem' = l
              /\ SavedIfChanged(mem, l)
       \/ /\ Fault
          /\ setting' \in {setting, enabled}
          /\ UNCHANGED <<push, seen, mem, disk>>
    /\ UNCHANGED <<world, pc, home, clock, flush, live>>

\* Monitor.Retry, the only retry there is, reads and writes state/delivery.json
\* and no other ledger.
RetryCommand(ch) ==
    /\ pc = "down"
    /\ asked' = asked \cup {ch}
    /\ UNCHANGED <<now, got, disk, mem, pc, call, flush, process, setting, faults>>

Tick ==
    /\ now < MaxTime
    /\ now' = now + 1
    /\ UNCHANGED <<got, asked, disk, mem, pc, call, flush, process, setting, faults>>

-----------------------------------------------------------------------------
LoadSome == \E channels \in Configuration : Load(channels)

Flush ==
    \/ OpenFlush \/ FlushOff
    \/ \E s \in due : ChannelMissing(s) \/ Skip(s) \/ Claim(s)
    \/ LateExpire \/ Launch
    \/ ReplyOK \/ ReplyPermanent \/ ReplyRetryable
    \/ EndFlush

\* What the service does on its own.
Work == Begin \/ (\E b \in Batch : Publish(b)) \/ Flush

Next ==
    \/ LoadSome \/ LoadFails \/ Work
    \/ Accept
    \/ \E enabled \in BOOLEAN : SetPushEnabled(enabled)
    \/ \E ch \in RetryBy : RetryCommand(ch)
    \/ Stop \/ Crash \/ Tick

Spec == Init /\ [][Next]_vars

\* The service manager restarts the process, which does not stall; time passes.
FairSpec == Spec /\ WF_vars(LoadSome) /\ WF_vars(Work) /\ WF_vars(Tick)

-----------------------------------------------------------------------------
(* Properties.                                                              *)

\* Write-ahead: while a message may leave the process the file shows it as
\* in_flight and agrees with the memory, and shows the page before it as
\* delivered, however often an earlier save has failed.
WriteAhead ==
    pc \in Sending =>
        /\ disk = mem
        /\ disk[cur].status = "in_flight"
        /\ Dependent(cur) => disk[Before(cur)].status = "delivered"

\* The memory never forgets what the file knows: what the file shows as
\* delivered the service will not send again, and what a receiver has is in
\* both until its retention ends, also after a save that failed half way.
MemoryKnows ==
    pc # "down" => \A s \in Slot :
        /\ disk[s].status = "delivered" /\ ExpiresAt[s[1]] + Keep > now =>
              mem[s].status = "delivered"
        /\ got[s] > 0 /\ ExpiresAt[s[1]] + Keep > now =>
              mem[s].status # "absent" /\ disk[s].status # "absent"

\* Nothing is sent twice in silence: when the receiver may have a copy that is
\* not recorded as delivered, or has more than one, the entry says so, by its
\* possibly_duplicate mark or its failed attempts.
NoSilentCopy ==
    \A s \in Slot :
        \/ got[s] > 0 /\ disk[s].status \notin {"absent", "in_flight", "delivered"}
        \/ got[s] > 1 /\ disk[s].status # "absent"
        => Traced(disk[s])

\* The file never reaches a state that the next start of the process refuses,
\* and an unfinished page has the page it waits for in the file.
LedgerReadable ==
    /\ Validate(disk)
    /\ \A s \in Slot : Dependent(s) /\ disk[s].status \in Open =>
                       disk[Before(s)].status # "absent"

\* SetPushEnabled(false) takes effect when it returns: nothing is being sent
\* then and nothing is sent until the switch is on again, although the dashboard
\* calls it from another goroutine and PredictOnce reads the switch long before
\* it queues a card.
SwitchObeyed == pc \in Sending => push

\* A message that the switch withdrew, so that the file shows it as expired
\* before its time, stays withdrawn: turning the switch on again, a restart or a
\* card that is published again does not bring it back.
WithdrawnIsFinal ==
    [][\A s \in Slot : disk[s].status = "expired" /\ now < ExpiresAt[s[1]] =>
          disk'[s].status = "expired"]_vars

\* The running service settles every message, also when a save has left it in
\* a state from which it is not sent (in_flight) or when its switch is off.
Settles == \A s \in Slot : mem[s].status \in Open ~> mem[s].status \notin Open

\* The file, read as the record of CardPromise.
Outstanding(s) ==
    /\ disk[s].status \in Open
    /\ now < ExpiresAt[s[1]] \/ (pc = "wire" /\ cur = s)

phaseOf ==
    [s \in Slot |-> IF disk[s].status \in {"absent", "delivered"} THEN disk[s].status
                    ELSE IF Outstanding(s) THEN "open" ELSE "stopped"]

Promise == INSTANCE CardPromise WITH phase <- phaseOf

\* Each service keeps the promise of CardPromise.
KeepsPromise == Promise!Spec
=============================================================================
