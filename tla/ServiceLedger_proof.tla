------------------------- MODULE ServiceLedger_proof -------------------------
(***************************************************************************)
(* Proofs about ServiceLedger, for each of its three owners and every set  *)
(* of cards, channels and batches, and every bound.                        *)
(*                                                                         *)
(* The memory of a service outlives its failed writes, so that the file    *)
(* and the memory may differ for as long as the process runs.  What every  *)
(* operation keeps is that the memory may still replace the file (Safe):   *)
(* it agrees with the receivers, confirms what the file confirms, leaves   *)
(* withdrawn what the file shows as withdrawn, and holds whole chains.     *)
(***************************************************************************)
EXTENDS ServiceLedger, NotifyLedger_proof

-----------------------------------------------------------------------------
(* The inductive invariant.                                                 *)

\* What ledger d shows as withdrawn is withdrawn in ledger l.
Kept(d, l, t) ==
    \A s \in Slot : d[s].status = "expired" /\ t < ExpiresAt[s[1]] => l[s].status = "expired"

\* Ledger l may be written to the file.
Safe(l) == Good(disk, l, got, now) /\ Kept(disk, l, now) /\ Chained(l)

\* A message that was left in_flight by a failed save is traced.
Settled(l) == \A s \in Slot : l[s].status = "in_flight" /\ got[s] > 0 => Traced(l[s])

\* What may still be sent, or has expired since the flush began.
DueIn(l, S) ==
    \A s \in S : /\ s \in Slot
                 /\ l[s].status \notin {"absent", "in_flight", "delivered"}
                 /\ l[s].status = "expired" => ExpiresAt[s[1]] <= now

LedgersOK ==
    /\ Good(disk, disk, got, now) /\ Chained(disk)
    /\ pc # "down" => Safe(mem)

ControlOK ==
    /\ IF pc \in Sending THEN cur \in Slot ELSE cur = NoSlot
    /\ due # {} => pc \in Flushing
    /\ accepted => pc = "wire"
    /\ pc \in Flushing => push

\* While a message is sent it may be in_flight without a trace, no other may.
InFlightOK ==
    pc # "down" => \A s \in Slot :
        mem[s].status = "in_flight" /\ got[s] > 0 =>
            Traced(mem[s]) \/ (pc \in Sending /\ s = cur)

\* What is sent again is marked as such before it is sent.
SendOK ==
    pc \in Sending => /\ got[cur] > 0 => accepted \/ Traced(disk[cur])
                      /\ got[cur] > 1 => Traced(disk[cur])
                      /\ accepted => got[cur] > 0
                      /\ cur \notin due

IInv ==
    /\ TypeOK
    /\ LedgersOK
    /\ ControlOK
    /\ DueIn(mem, due)
    /\ InFlightOK
    /\ SendOK
    /\ WriteAhead

\* What a step does to the file when neither the clock nor a receiver moves.
Moves ==
    /\ UNCHANGED <<now, got>>
    /\ Follows(disk, disk', now)
    /\ Kept(disk, disk', now)
    /\ pc' = "wire" => /\ UNCHANGED <<disk, cur>>
                       /\ pc = "wire" \/ now < ExpiresAt[cur[1]]

\* The bounds of the exploration are numbers.
LEMMA BoundsType ==
    /\ MaxTime \in Nat /\ MaxFaults \in Nat /\ MaxCopies \in Nat /\ MaxCopies > 1
    /\ (0 .. MaxCopies) \subseteq Nat
BY ServiceAssumption

\* The empty ledger.
LEMMA NewLedgerGood ==
    NewLedger \in Ledger /\ \A s \in Slot : NewLedger[s] = Absent
BY BoundAssumption DEF NewLedger, Absent, Ledger, ChannelState, Status

\* A write that happens, or fails before or after its rename, keeps the file
\* consistent, and the memory with it.
LEMMA WriteGood ==
    ASSUME IInv, NEW l, Safe(l), disk' \in {disk, l}, UNCHANGED <<now, got>>
    PROVE  /\ Good(disk', disk', got', now') /\ Chained(disk')
           /\ Good(disk', l, got', now') /\ Kept(disk', l, now') /\ Chained(l)
           /\ Follows(disk, disk', now) /\ Kept(disk, disk', now)
<1>0. now \in Nat /\ Good(disk, disk, got, now) /\ Chained(disk)
  BY DEF IInv, TypeOK, LedgersOK
<1>1. Good(l, l, got, now)
  BY <1>0, WrittenGood DEF Safe
<1>2. Kept(disk, disk, now) /\ Kept(l, l, now)
  BY DEF Kept
<1> QED BY <1>0, <1>1, <1>2 DEF Safe, Good

\* Steps that leave the file alone.
LEMMA StillMoves ==
    ASSUME IInv, UNCHANGED <<disk, now, got>>,
           pc' = "wire" => /\ UNCHANGED cur
                           /\ pc = "wire" \/ now < ExpiresAt[cur[1]]
    PROVE  Moves
<1>1. Follows(disk, disk, now) /\ Kept(disk, disk, now)
  BY DEF IInv, LedgersOK, Good, Kept
<1> QED BY <1>1 DEF Moves

\* A step after which no message is being sent keeps the invariant if the
\* ledger it leaves in memory is safe, whether or not it was written.
LEMMA RestInv ==
    ASSUME IInv, NEW l, Safe(l), Settled(l), DueIn(l, due'),
           mem' = l, disk' \in {disk, l}, UNCHANGED <<now, got>>,
           pc' \in {"idle", "call", "open", "loop"},
           pc' = "loop" => push',
           due' # {} => pc' = "loop",
           cur' = NoSlot, accepted' = FALSE,
           home' \in {"idle", "call"}, clock' \in 0 .. now, at' \in clock' .. now,
           live' \subseteq Channel, push' \in BOOLEAN, setting' \in BOOLEAN,
           seen' \in BOOLEAN, asked' \subseteq RetryBy, faults' \in 0 .. MaxFaults
    PROVE  IInv' /\ Moves
<1>1. /\ Good(disk', disk', got', now') /\ Chained(disk')
      /\ Good(disk', l, got', now') /\ Kept(disk', l, now') /\ Chained(l)
      /\ Follows(disk, disk', now) /\ Kept(disk, disk', now)
  BY WriteGood
<1>2. disk' \in Ledger /\ mem' \in Ledger
  BY <1>1 DEF Good
<1>3. TypeOK'
  BY <1>2 DEF IInv, TypeOK, Flushing, DueIn
<1>4. LedgersOK' /\ ControlOK' /\ DueIn(mem, due)'
  BY <1>1 DEF LedgersOK, Safe, ControlOK, Flushing, Sending, DueIn
<1>5. InFlightOK' /\ SendOK' /\ WriteAhead'
  BY DEF InFlightOK, SendOK, WriteAhead, Settled, Sending
<1>6. Moves
  BY <1>1 DEF Moves
<1> QED BY <1>3, <1>4, <1>5, <1>6 DEF IInv

\* A process that is down keeps the invariant: what was in memory is gone.
LEMMA DownInv ==
    ASSUME IInv, pc' = "down", mem' = NewLedger, due' = {}, cur' = NoSlot, accepted' = FALSE,
           Good(disk', disk', got', now'), Chained(disk'), UNCHANGED <<now, got>>,
           home' \in {"idle", "call"}, clock' \in 0 .. now, at' \in clock' .. now,
           live' \subseteq Channel, push' \in BOOLEAN, setting' \in BOOLEAN,
           seen' \in BOOLEAN, asked' \subseteq RetryBy, faults' \in 0 .. MaxFaults
    PROVE  IInv'
<1>1. TypeOK'
  BY NewLedgerGood DEF IInv, TypeOK, Good
<1>2. LedgersOK' /\ ControlOK' /\ DueIn(mem, due)' /\ InFlightOK' /\ SendOK' /\ WriteAhead'
  BY DEF LedgersOK, ControlOK, DueIn, InFlightOK, SendOK, WriteAhead, Flushing, Sending
<1> QED BY <1>1, <1>2 DEF IInv

-----------------------------------------------------------------------------
(* What the operations leave safe.                                          *)

\* What is read from the file and normalized is safe.
LEMMA NormalizeSafe ==
    ASSUME IInv
    PROVE  Safe(Normalize(disk)) /\ Settled(Normalize(disk))
<1> DEFINE l == Normalize(disk)
<1>0. now \in Nat /\ Good(disk, disk, got, now) /\ Chained(disk) /\ disk \in Ledger
  BY DEF IInv, TypeOK, LedgersOK
<1>1. Good(disk, l, got, now)
  BY <1>0, NormalizeGood
<1>2. Kept(disk, l, now)
  BY DEF Kept, Normalize
<1>3. /\ \A s \in Slot : disk[s].status # "absent" => l[s].status # "absent"
      /\ \A s \in Slot : l[s].status \in Open => disk[s].status \in Open
      /\ \A s \in Slot : l[s].status # "in_flight"
  BY <1>0 DEF Normalize, Ledger, ChannelState, Open
<1> HIDE DEF l
<1>4. Chained(l)
  BY <1>0, <1>3, ChainedStep
<1> QED BY <1>1, <1>2, <1>3, <1>4 DEF Safe, Settled, l

\* Expire by a time that has come leaves a settled ledger safe.
LEMMA ExpireSafe ==
    ASSUME IInv, NEW l, Safe(l), Settled(l), NEW u \in Nat, u <= now
    PROVE  Safe(Expire(l, u)) /\ Settled(Expire(l, u))
<1> DEFINE m == Expire(l, u)
<1>0. now \in Nat /\ l \in Ledger
  BY DEF IInv, TypeOK, Safe, Good
<1>1. Good(disk, m, got, now)
  BY <1>0, ExpireGood DEF Safe, Settled
<1>2. Kept(disk, m, now)
  BY DEF Safe, Kept, Expire
<1>3. /\ \A s \in Slot : l[s].status # "absent" => m[s].status # "absent"
      /\ \A s \in Slot : m[s].status \in Open => l[s].status \in Open
      /\ Settled(m)
  BY <1>0 DEF Expire, Ledger, ChannelState, Open, Settled, Traced
<1> HIDE DEF m
<1>4. Chained(m)
  BY <1>3, ChainedStep DEF Safe
<1> QED BY <1>1, <1>2, <1>3, <1>4 DEF Safe, m

\* Withdrawing what is open leaves a settled ledger safe (expirePendingLocked).
LEMMA WithdrawSafe ==
    ASSUME IInv, NEW l, Safe(l), Settled(l)
    PROVE  Safe(Withdraw(l)) /\ Settled(Withdraw(l))
<1> DEFINE m == Withdraw(l)
<1>0. now \in Nat /\ l \in Ledger
  BY DEF IInv, TypeOK, Safe, Good
<1>1. m \in Ledger
  BY <1>0 DEF Withdraw, Ledger, ChannelState, Status, Open, Terminal
<1>2. Sound(m, got, now)
  BY <1>0 DEF Safe, Good, Sound, Settled, Withdraw, Traced, Ledger, ChannelState, Open
<1>3. Follows(disk, m, now)
  BY <1>0 DEF Safe, Good, Follows, Withdraw, Ledger, ChannelState, Open
<1>4. Kept(disk, m, now)
  BY DEF Safe, Kept, Withdraw, Open
<1>5. /\ \A s \in Slot : l[s].status # "absent" => m[s].status # "absent"
      /\ \A s \in Slot : m[s].status \in Open => l[s].status \in Open
      /\ Settled(m)
  BY <1>0 DEF Withdraw, Ledger, ChannelState, Open, Settled, Traced
<1> HIDE DEF m
<1>6. Chained(m)
  BY <1>5, ChainedStep DEF Safe
<1> QED BY <1>1, <1>2, <1>3, <1>4, <1>5, <1>6 DEF Safe, Good, m

\* Prune by a time that has come leaves a ledger safe.
LEMMA PruneSafe ==
    ASSUME IInv, NEW l, Safe(l), Settled(l), NEW u \in Nat, u <= now
    PROVE  Safe(Prune(l, u)) /\ Settled(Prune(l, u))
<1>0. now \in Nat
  BY DEF IInv, TypeOK
<1>1. Good(disk, Prune(l, u), got, now) /\ Chained(Prune(l, u))
  BY <1>0, PruneGood, ChainedPrune DEF Safe
<1>2. \A s \in Slot : \/ Prune(l, u)[s] = l[s]
                      \/ Prune(l, u)[s] = Absent /\ ExpiresAt[s[1]] <= now
  <2>1. \A s \in Slot : ExpiresAt[s[1]] + Keep <= u => ExpiresAt[s[1]] <= now
    BY <1>0, SlotType, BoundAssumption
  <2> QED BY <2>1 DEF Prune, Prunable
<1>3. Kept(disk, Prune(l, u), now)
  BY <1>0, <1>2, SlotType DEF Safe, Kept
<1>4. Settled(Prune(l, u))
  BY <1>2 DEF Settled, Absent
<1> QED BY <1>1, <1>3, <1>4 DEF Safe

\* Entry e may replace the entry of slot r in ledger l.
EntryOK(l, r, e) ==
    /\ Safe(l) /\ r \in Slot /\ e \in ChannelState
    /\ l[r].status \notin {"absent", "delivered"}
    /\ disk[r].status = "absent" => e.status # "delivered"
    /\ disk[r].status = "expired" /\ now < ExpiresAt[r[1]] => e.status = "expired"
    /\ Dependent(r) => \/ l[r].status \in Open
                       \/ e.status \notin Open
                       \/ l[Before(r)].status # "absent"
    /\ e.status # "absent"
    /\ e.status = "delivered" => got[r] > 0
    /\ got[r] > 0 /\ e.status \notin {"in_flight", "delivered"} => Traced(e)
    /\ got[r] > 1 => Traced(e)

\* Replacing one entry leaves a ledger safe.
LEMMA EntrySafe ==
    ASSUME IInv, NEW l, NEW r, NEW e, EntryOK(l, r, e), NEW m, m = [l EXCEPT ![r] = e]
    PROVE  Safe(m)
<1> USE DEF EntryOK
<1>0. now \in Nat /\ got \in [Slot -> Nat] /\ l \in Ledger
  BY BoundsType DEF IInv, TypeOK, Safe, Good
<1>1. m[r] = e /\ \A s \in Slot : s # r => m[s] = l[s]
  BY <1>0 DEF Ledger
<1>2. disk[r].status # "delivered"
  BY DEF Safe, Good, Follows
<1>3. Good(disk, m, got, now)
  BY <1>0, <1>2, EntryGood DEF Safe
<1>4. Kept(disk, m, now)
  BY <1>1 DEF Safe, Kept
<1>5. Chained(m)
  <2>1. Chained(l)
    BY DEF Safe
  <2>2. \A s \in Slot : l[s].status # "absent" => m[s].status # "absent"
    BY <1>1
  <2>3. \A s \in Slot : Dependent(s) /\ m[s].status \in Open =>
                       l[s].status \in Open \/ l[Before(s)].status # "absent"
    BY <1>1
  <2> HIDE DEF EntryOK
  <2> QED BY <2>1, <2>2, <2>3, ChainedStep
<1> QED BY <1>1, <1>3, <1>4, <1>5 DEF Safe

-----------------------------------------------------------------------------
(* The steps.                                                               *)

\* What is known of a running service that is not sending.
LEMMA RestFacts ==
    ASSUME IInv, pc # "down", pc \notin Sending
    PROVE  /\ Safe(mem) /\ Settled(mem) /\ DueIn(mem, due)
           /\ cur = NoSlot /\ accepted = FALSE
           /\ pc # "loop" => due = {}
           /\ now \in Nat /\ clock \in Nat /\ at \in Nat /\ clock <= at /\ at <= now
BY DEF IInv, TypeOK, LedgersOK, ControlOK, InFlightOK, Settled, Flushing, Sending

\* What is known of a service that is sending.
LEMMA SendingFacts ==
    ASSUME IInv, pc \in Sending
    PROVE  /\ Safe(mem) /\ disk = mem /\ DueIn(mem, due)
           /\ cur \in Slot /\ cur \notin due /\ mem[cur] \in ChannelState
           /\ mem[cur].status = "in_flight"
           /\ now \in Nat /\ got \in [Slot -> Nat]
           /\ at \in Nat /\ at <= now
           /\ \A s \in Slot : s # cur =>
                 (mem[s].status = "in_flight" /\ got[s] > 0 => Traced(mem[s]))
<1>1. pc # "down"
  BY DEF Sending
<1>2. mem \in Ledger /\ cur \in Slot
  BY <1>1 DEF IInv, TypeOK, ControlOK
<1>3. mem[cur] \in ChannelState
  BY <1>2 DEF Ledger
<1> QED BY <1>1, <1>2, <1>3, BoundsType
        DEF IInv, TypeOK, LedgersOK, InFlightOK, SendOK, WriteAhead

\* The invariant holds at the start.
LEMMA InvInit == Init => IInv
<1> SUFFICES ASSUME Init PROVE IInv
  OBVIOUS
<1>1. 0 \in 0 .. MaxTime /\ 0 \in 0 .. MaxFaults /\ 0 \in 0 .. MaxCopies /\ 0 \in Nat
      /\ 0 \in 0 .. 0
  BY BoundsType
<1>2. TypeOK
  BY <1>1, NewLedgerGood DEF Init, TypeOK
<1>3. Good(disk, disk, got, now) /\ Chained(disk)
  BY NewLedgerGood DEF Init, Good, Sound, Follows, Absent, Chained, Open
<1> QED BY <1>2, <1>3
        DEF Init, IInv, LedgersOK, ControlOK, DueIn, InFlightOK, SendOK, WriteAhead, Flushing, Sending

\* The start of a process keeps the invariant.
LEMMA LoadInv == ASSUME IInv, NEW channels \in Configuration, Load(channels) PROVE IInv' /\ Moves
<1>1. /\ Safe(Normalize(disk)) /\ Settled(Normalize(disk))
      /\ mem' = Normalize(disk) /\ disk' \in {disk, Normalize(disk)} /\ faults' = faults
  BY NormalizeSafe DEF Load, Written
<1>2. /\ due' = {} /\ cur' = NoSlot /\ accepted' = FALSE
      /\ pc' = "idle" /\ live' \subseteq Channel /\ push' \in BOOLEAN
  BY ServiceAssumption
  DEF IInv, TypeOK, ControlOK, Load, flush, Flushing, Sending, PushAtStart
<1> QED BY <1>1, <1>2, RestInv DEF IInv, TypeOK, Load, flush, call, world, DueIn

\* A start that fails keeps the invariant.
LEMMA LoadFailsInv == IInv /\ LoadFails => IInv' /\ Moves
<1> SUFFICES ASSUME IInv, LoadFails PROVE IInv' /\ Moves
  OBVIOUS
<1>1. /\ disk' \in {disk, Normalize(disk)} /\ faults' \in 0 .. MaxFaults
      /\ UNCHANGED <<mem, pc, due, cur, accepted, now, got>> /\ pc = "down"
  BY BoundsType DEF LoadFails, WriteFails, Fault, IInv, TypeOK, flush, world
<1>2. /\ Good(disk', disk', got', now') /\ Chained(disk')
      /\ Follows(disk, disk', now) /\ Kept(disk, disk', now)
  BY <1>1, NormalizeSafe, WriteGood
<1>3. TypeOK'
  BY <1>1, <1>2 DEF IInv, TypeOK, LoadFails, Good, flush, call, process, world
<1>4. LedgersOK' /\ ControlOK' /\ DueIn(mem, due)' /\ InFlightOK' /\ SendOK' /\ WriteAhead'
  BY <1>1, <1>2
  DEF IInv, LedgersOK, ControlOK, DueIn, InFlightOK, SendOK, WriteAhead, Flushing, Sending
<1>5. Moves
  BY <1>1, <1>2 DEF Moves
<1> QED BY <1>3, <1>4, <1>5 DEF IInv

\* A crash keeps the invariant, with the file as it was.
LEMMA CrashInv == IInv /\ Crash => IInv' /\ Moves
<1> SUFFICES ASSUME IInv, Crash PROVE IInv' /\ Moves
  OBVIOUS
<1>1. /\ disk' = disk /\ UNCHANGED <<now, got, asked, setting>> /\ pc' = "down"
      /\ faults' \in 0 .. MaxFaults
  BY BoundsType DEF Crash, Fault, Gone, IInv, TypeOK, world
<1>2. Good(disk', disk', got', now') /\ Chained(disk')
  BY <1>1 DEF IInv, LedgersOK
<1>3. 0 \in 0 .. now /\ 0 \in 0 .. 0
  BY DEF IInv, TypeOK
<1>4. IInv'
  BY <1>1, <1>2, <1>3, DownInv DEF Crash, Gone, IInv, TypeOK
<1> QED BY <1>1, <1>4, StillMoves

\* A stop keeps the invariant, with or without the predictor's last save.
LEMMA StopInv == IInv /\ Stop => IInv' /\ Moves
<1> SUFFICES ASSUME IInv, Stop PROVE IInv' /\ Moves
  OBVIOUS
<1>1. /\ disk' \in {disk, mem} /\ UNCHANGED <<now, got, asked, setting>> /\ pc' = "down"
      /\ faults' \in 0 .. MaxFaults
  BY BoundsType DEF Stop, Fault, Gone, IInv, TypeOK, world
<1>2. /\ Good(disk', disk', got', now') /\ Chained(disk')
      /\ Follows(disk, disk', now) /\ Kept(disk, disk', now)
  BY <1>1, RestFacts, WriteGood DEF Stop, Sending
<1>3. 0 \in 0 .. now /\ 0 \in 0 .. 0
  BY DEF IInv, TypeOK
<1>4. IInv'
  BY <1>1, <1>2, <1>3, DownInv DEF Stop, Gone, IInv, TypeOK
<1> QED BY <1>1, <1>2, <1>4 DEF Moves

\* The retry command changes nothing that the service keeps.
LEMMA RetryCommandInv ==
    ASSUME IInv, NEW ch \in RetryBy, RetryCommand(ch) PROVE IInv' /\ Moves
<1>1. IInv'
  <2>1. TypeOK'
    BY DEF IInv, TypeOK, RetryCommand, flush, call, process
  <2>2. LedgersOK' /\ ControlOK' /\ DueIn(mem, due)' /\ InFlightOK' /\ SendOK' /\ WriteAhead'
    BY DEF IInv, LedgersOK, Safe, ControlOK, DueIn, InFlightOK, SendOK, WriteAhead,
           RetryCommand, flush, call, process
  <2> QED BY <2>1, <2>2 DEF IInv
<1> QED BY <1>1, StillMoves DEF RetryCommand

\* The beginning of a call keeps the invariant.
LEMMA BeginInv == IInv /\ Begin => IInv' /\ Moves
<1> SUFFICES ASSUME IInv, Begin PROVE IInv' /\ Moves
  OBVIOUS
<1>1. /\ Safe(mem) /\ Settled(mem) /\ due = {} /\ cur = NoSlot /\ accepted = FALSE
  BY RestFacts DEF Begin, Sending
<1>2. clock' \in 0 .. now /\ at' \in clock' .. now
  BY DEF Begin, IInv, TypeOK
<1>3. DueIn(mem, due')
  BY <1>1 DEF Begin, DueIn
<1> QED BY <1>1, <1>2, <1>3, RestInv DEF Begin, IInv, TypeOK, world, process

\* A batch has the whole chain of each of its cards.
LEMMA AddedChain ==
    ASSUME NEW b \in Batch, NEW l
    PROVE  \A s \in Slot : s \in Added(l, b) /\ Dependent(s) => Before(s) \in Added(l, b)
<1> SUFFICES ASSUME NEW s \in Slot, s \in Added(l, b), Dependent(s)
             PROVE  Before(s) \in Added(l, b)
  OBVIOUS
<1>1. s \in b \X live /\ s[2] \in Audience[s[1]]
  BY DEF Added
<1>2. s[1] \in b /\ DependsOn[s[1]] \in b /\ Audience[s[1]] = Audience[DependsOn[s[1]]]
  BY <1>1, BatchAssumption DEF Dependent
<1>3. Before(s) \in b \X live /\ Before(s)[1] = DependsOn[s[1]] /\ Before(s)[2] = s[2]
  BY <1>1, <1>2 DEF Before
<1> QED BY <1>1, <1>2, <1>3 DEF Added

\* Publishing keeps the invariant, whether or not the save succeeds.
LEMMA PublishInv == ASSUME IInv, NEW b \in Batch, Publish(b) PROVE IInv' /\ Moves
<1> DEFINE S == Added(mem, b)
           l == Enqueue(mem, S)
<1>0. /\ Safe(mem) /\ Settled(mem) /\ pc = "call" /\ due = {}
      /\ cur = NoSlot /\ accepted = FALSE /\ now \in Nat /\ got \in [Slot -> Nat]
  BY RestFacts, BoundsType DEF Publish, Sending, IInv, TypeOK
<1>1. \A s \in S : s \in Slot => now < ExpiresAt[s[1]] + Keep
  BY DEF Publish, Added
<1>2. Good(disk, l, got, now)
  BY <1>0, <1>1, EnqueueGood DEF Safe
<1>3. Chained(l)
  BY <1>0, AddedChain, ChainedEnqueue DEF Safe
<1>4. Kept(disk, l, now)
  BY <1>0 DEF Safe, Kept, Enqueue
<1>5. Settled(l)
  BY <1>0 DEF Settled, Enqueue, Fresh
<1>6. /\ disk' \in {disk, l} /\ mem' = l /\ faults' \in 0 .. MaxFaults
      /\ pc' \in {"call", "open"}
  BY <1>0, BoundsType DEF Publish, Written, WriteFails, Fault, IInv, TypeOK
<1> HIDE DEF l
<1> QED BY <1>0, <1>2, <1>3, <1>4, <1>5, <1>6, RestInv
        DEF Publish, Safe, IInv, TypeOK, world, call, flush, process, DueIn

\* The time of a flush has come, and is not before the time of its call.
LEMMA FlushTimeType ==
    ASSUME IInv
    PROVE  FlushTime \in Nat /\ FlushTime <= now /\ FlushTime \in clock .. now
BY DEF IInv, TypeOK, FlushTime

\* A flush that has nothing to do keeps the invariant.
LEMMA FlushEmptyInv == IInv /\ FlushStarts /\ FlushEmpty => IInv' /\ Moves
<1> SUFFICES ASSUME IInv, FlushStarts, FlushEmpty PROVE IInv' /\ Moves
  OBVIOUS
<1>1. /\ Safe(mem) /\ Settled(mem) /\ due = {} /\ cur = NoSlot /\ accepted = FALSE
  BY RestFacts DEF FlushStarts, Sending
<1>2. pc' \in {"idle", "call"}
  BY DEF FlushEmpty, Home
<1> QED BY <1>1, <1>2, RestInv
        DEF FlushEmpty, IInv, TypeOK, world, call, flush, process, DueIn

\* What is due is neither confirmed, given up nor in flight.
LEMMA OpenFlushInv == IInv /\ OpenFlush => IInv' /\ Moves
<1> SUFFICES ASSUME IInv, OpenFlush, ~NothingToFlush PROVE IInv' /\ Moves
  BY FlushEmptyInv DEF OpenFlush
<1>1. Safe(mem) /\ Settled(mem) /\ cur = NoSlot /\ accepted = FALSE
  BY RestFacts DEF OpenFlush, FlushStarts, Sending
<1>2. DueIn(mem, due')
  BY DEF OpenFlush, Due, DueIn
<1>3. at' \in clock .. now /\ home' \in {"idle", "call"}
  BY FlushTimeType DEF OpenFlush, Home
<1> QED BY <1>1, <1>2, <1>3, RestInv DEF OpenFlush, IInv, TypeOK, world, process

\* A flush with the switch off keeps the invariant.
LEMMA FlushOffInv == IInv /\ FlushOff => IInv' /\ Moves
<1> SUFFICES ASSUME IInv, FlushOff PROVE IInv' /\ Moves
  OBVIOUS
<1> DEFINE l == IF Owner = "predictor" THEN Withdraw(mem) ELSE Expire(mem, FlushTime)
<1>1. /\ Safe(mem) /\ Settled(mem) /\ due = {} /\ cur = NoSlot /\ accepted = FALSE
  BY RestFacts DEF FlushOff, FlushStarts, Sending
<1>2. Safe(l) /\ Settled(l)
  BY <1>1, FlushTimeType, ExpireSafe, WithdrawSafe
<1>3. mem' = l /\ disk' \in {disk, l} /\ faults' \in 0 .. MaxFaults /\ pc' \in {"idle", "call"}
  BY BoundsType
  DEF FlushOff, SavedIfChanged, Saved, Written, WriteFails, Fault, Home, IInv, TypeOK
<1> HIDE DEF l
<1> QED BY <1>1, <1>2, <1>3, RestInv
        DEF FlushOff, IInv, TypeOK, world, call, flush, process, DueIn

\* A flush may return at any point with a ledger that is safe.
LEMMA FlushReturnsInv ==
    ASSUME IInv, pc # "down", NEW l, Safe(l), Settled(l), disk' \in {disk, l}, FlushReturns(l),
           UNCHANGED <<world, call, process, setting>>, faults' \in 0 .. MaxFaults
    PROVE  IInv' /\ Moves
BY RestInv DEF FlushReturns, IInv, TypeOK, world, call, process, DueIn

\* The loop may go on at any point with a ledger that is safe.
LEMMA LoopInv ==
    ASSUME IInv, pc \in Flushing, NEW l, Safe(l), Settled(l), DueIn(l, due'),
           mem' = l, disk' \in {disk, l}, pc' = "loop", cur' = NoSlot, accepted' = FALSE,
           UNCHANGED <<world, call, process, setting, at>>, faults' \in 0 .. MaxFaults
    PROVE  IInv' /\ Moves
BY RestInv DEF IInv, TypeOK, ControlOK, world, call, process

\* Blocking a channel that is not configured keeps the invariant.
LEMMA ChannelMissingInv ==
    ASSUME IInv, NEW s \in due, ChannelMissing(s) PROVE IInv' /\ Moves
<1> DEFINE l == MarkPermanent(mem, s)
           n == Attempted(mem[s].attempts)
           e == [mem[s] EXCEPT !.status = "blocked", !.attempts = n, !.next = 0]
<1>1. /\ Safe(mem) /\ Settled(mem) /\ DueIn(mem, due) /\ cur = NoSlot /\ accepted = FALSE
      /\ pc = "loop" /\ pc \in Flushing
  BY RestFacts DEF ChannelMissing, Turn, Sending, Flushing
<1>2. /\ s \in Slot /\ mem[s] \in ChannelState
      /\ mem[s].status \notin {"absent", "in_flight", "delivered"}
      /\ mem[s].status = "expired" => ExpiresAt[s[1]] <= now
      /\ now \in Nat /\ ExpiresAt[s[1]] \in Nat
  BY <1>1, SlotType DEF DueIn, Safe, Good, Ledger, IInv, TypeOK
<1>3. /\ e \in ChannelState /\ e.status = "blocked" /\ Traced(e)
      /\ l = [mem EXCEPT ![s] = e]
  <2>1. mem[s].attempts \in 0 .. MaxAttempts
    BY <1>2 DEF ChannelState
  <2>2. n \in 0 .. MaxAttempts /\ n > 0
    <3>1. n \in 1 .. MaxAttempts
      BY <2>1, AttemptedType
    <3> QED BY <3>1, BoundAssumption
  <2>3. l = [mem EXCEPT ![s] = e]
    BY DEF MarkPermanent
  <2> HIDE DEF n, l
  <2>4. e \in ChannelState /\ e.status = "blocked" /\ Traced(e)
    BY <1>2, <2>2 DEF ChannelState, Status, Open, Terminal, Traced
  <2> QED BY <2>3, <2>4
<1> HIDE DEF e
<1>4. disk[s].status = "expired" /\ now < ExpiresAt[s[1]] => e.status = "expired"
  BY <1>1, <1>2 DEF Safe, Kept
<1>5. /\ Safe(l) /\ l[s] = e /\ \A r \in Slot : r # s => l[r] = mem[r]
  <2>1. EntryOK(mem, s, e)
    BY <1>1, <1>2, <1>3, <1>4 DEF EntryOK, Open
  <2>2. l = [mem EXCEPT ![s] = e]
    BY <1>3
  <2> HIDE DEF l, n
  <2>3. Safe(l)
    BY <2>1, <2>2, EntrySafe
  <2>4. l[s] = e /\ \A r \in Slot : r # s => l[r] = mem[r]
    BY <1>1, <1>2, <2>2 DEF Safe, Good, Ledger
  <2> QED BY <2>3, <2>4
<1> HIDE DEF l
<1>6. Settled(l) /\ DueIn(l, due \ {s})
  BY <1>1, <1>3, <1>5 DEF Settled, DueIn
<1>7. mem' = l /\ due' = due \ {s} /\ disk' = disk /\ faults' \in 0 .. MaxFaults
  BY DEF ChannelMissing, l, IInv, TypeOK
<1> QED BY <1>1, <1>5, <1>6, <1>7, LoopInv DEF ChannelMissing

\* Passing over a message keeps the invariant.
LEMMA SkipInv == ASSUME IInv, NEW s \in due, Skip(s) PROVE IInv' /\ Moves
<1>1. /\ Safe(mem) /\ Settled(mem) /\ DueIn(mem, due) /\ cur = NoSlot /\ accepted = FALSE
      /\ pc = "loop" /\ pc \in Flushing
  BY RestFacts DEF Skip, Turn, Sending, Flushing
<1>2. DueIn(mem, due')
  BY <1>1 DEF Skip, DueIn
<1> QED BY <1>1, <1>2, LoopInv DEF Skip, IInv, TypeOK

\* Marking a message and saving the mark keeps the invariant; so does the
\* mark that stays in memory when the save fails.
LEMMA ClaimInv == ASSUME IInv, NEW s \in due, Claim(s) PROVE IInv' /\ Moves
<1> DEFINE l == MarkInFlight(mem, s)
           e == [mem[s] EXCEPT !.status = "in_flight"]
<1>1. /\ Safe(mem) /\ Settled(mem) /\ DueIn(mem, due) /\ cur = NoSlot /\ accepted = FALSE
      /\ pc = "loop" /\ pc \in Flushing /\ pc # "down"
  BY RestFacts DEF Claim, Turn, Sending, Flushing
<1>2. /\ s \in Slot /\ mem[s] \in ChannelState /\ mem \in Ledger
      /\ mem[s].status \notin {"absent", "in_flight", "delivered"}
      /\ mem[s].status = "expired" => ExpiresAt[s[1]] <= now
      /\ now \in Nat /\ ExpiresAt[s[1]] \in Nat /\ got \in [Slot -> Nat]
  BY <1>1, SlotType, BoundsType DEF DueIn, Safe, Good, Ledger, IInv, TypeOK
<1>3. /\ e \in ChannelState /\ e.status = "in_flight" /\ (Traced(e) <=> Traced(mem[s]))
      /\ l = [mem EXCEPT ![s] = e]
  BY <1>2 DEF ChannelState, Status, Open, Traced, MarkInFlight
<1> HIDE DEF e
<1>4. got[s] > 0 => Traced(e)
  BY <1>1, <1>2, <1>3 DEF Safe, Good, Sound
<1>5. disk[s].status = "expired" /\ now < ExpiresAt[s[1]] => e.status = "expired"
  BY <1>1, <1>2 DEF Safe, Kept
<1>6. Dependent(s) => Before(s) \in Slot /\ Before(s) # s /\ mem[Before(s)].status = "delivered"
  BY <1>2, SlotType DEF Claim, CanDeliver
<1>7. /\ Safe(l) /\ l[s] = e /\ \A r \in Slot : r # s => l[r] = mem[r]
  <2>1. got[s] > 1 => Traced(e)
    BY <1>2, <1>4
  <2>2. EntryOK(mem, s, e)
    BY <1>1, <1>2, <1>3, <1>4, <1>5, <1>6, <2>1 DEF EntryOK
  <2>3. l = [mem EXCEPT ![s] = e]
    BY <1>3
  <2> HIDE DEF l
  <2>4. Safe(l)
    BY <2>2, <2>3, EntrySafe
  <2>5. l[s] = e /\ \A r \in Slot : r # s => l[r] = mem[r]
    BY <1>2, <2>3 DEF Ledger
  <2> QED BY <2>4, <2>5
<1> HIDE DEF l
<1>8. Settled(l)
  BY <1>1, <1>3, <1>4, <1>7 DEF Settled
<1>9. CASE /\ Written(l) /\ mem' = l /\ due' = due \ {s} /\ cur' = s /\ pc' = "launch"
           /\ UNCHANGED <<at, accepted>>
  <2>1. /\ Good(disk', disk', got', now') /\ Chained(disk') /\ disk' = l
        /\ Good(disk', l, got', now') /\ Kept(disk', l, now') /\ Chained(l)
        /\ Follows(disk, disk', now) /\ Kept(disk, disk', now)
        /\ UNCHANGED <<now, got>>
    BY <1>7, <1>9, WriteGood DEF Claim, Written, world
  <2>2. TypeOK'
    BY <1>2, <1>9, <2>1 DEF IInv, TypeOK, Claim, Good, Written, world, call, process, Flushing, Sending
  <2>3. LedgersOK' /\ ControlOK'
    BY <1>1, <1>2, <1>9, <2>1
    DEF IInv, LedgersOK, Safe, ControlOK, Claim, process, Flushing, Sending
  <2>4. DueIn(mem, due)'
    BY <1>1, <1>7, <1>9, <2>1 DEF DueIn
  <2>5. InFlightOK'
    BY <1>8, <1>9, <2>1 DEF InFlightOK, Settled
  <2>6. SendOK'
    <3>1. got[s] > 1 => got[s] > 0
      BY <1>2
    <3> QED BY <1>1, <1>4, <1>7, <1>9, <2>1, <3>1 DEF SendOK
  <2>7. WriteAhead'
    BY <1>3, <1>6, <1>7, <1>9, <2>1 DEF WriteAhead
  <2>8. Moves
    BY <1>9, <2>1 DEF Moves
  <2> QED BY <2>2, <2>3, <2>4, <2>5, <2>6, <2>7, <2>8 DEF IInv
<1>10. CASE WriteFails(l) /\ FlushReturns(l)
  BY <1>1, <1>7, <1>8, <1>10, FlushReturnsInv, BoundsType
  DEF Claim, WriteFails, Fault, IInv, TypeOK
<1>11. CASE Fault /\ UNCHANGED disk /\ FlushReturns(mem)
  BY <1>1, <1>11, FlushReturnsInv, BoundsType DEF Claim, Fault, IInv, TypeOK
<1> QED BY <1>9, <1>10, <1>11 DEF Claim, l

\* A message whose deadline passed while its mark was saved is given up.
LEMMA LateExpireInv == IInv /\ LateExpire => IInv' /\ Moves
<1> SUFFICES ASSUME IInv, LateExpire PROVE IInv' /\ Moves
  OBVIOUS
<1> DEFINE l == Expire(mem, now)
<1>0. pc \in Sending /\ pc \in Flushing /\ pc # "wire"
  BY DEF LateExpire, Sending, Flushing
<1>1. /\ Safe(mem) /\ disk = mem /\ DueIn(mem, due) /\ now \in Nat /\ now <= now
      /\ accepted = FALSE
  BY <1>0, SendingFacts DEF IInv, TypeOK, ControlOK
<1>2. Settled(mem)
  BY <1>0, <1>1, SendingFacts DEF Settled, IInv, SendOK
<1>3. Safe(l) /\ Settled(l)
  BY <1>1, <1>2, ExpireSafe
<1>4. DueIn(l, due)
  BY <1>1 DEF DueIn, Expire, Safe, Good, Ledger, ChannelState
<1> HIDE DEF l
<1>5. mem' = l
  BY DEF LateExpire, l
<1> QED BY <1>0, <1>1, <1>3, <1>4, <1>5, LoopInv DEF LateExpire, IInv, TypeOK

\* Sending keeps the invariant.
LEMMA LaunchInv == IInv /\ Launch => IInv' /\ Moves
<1> SUFFICES ASSUME IInv, Launch PROVE IInv' /\ Moves
  OBVIOUS
<1>1. TypeOK'
  BY DEF IInv, TypeOK, Launch, world, call, flush, process, Flushing, Sending
<1>2. LedgersOK' /\ ControlOK' /\ DueIn(mem, due)'
  BY DEF IInv, LedgersOK, Safe, ControlOK, DueIn, Launch, world, flush, process, Flushing, Sending
<1>3. InFlightOK' /\ SendOK' /\ WriteAhead'
  BY DEF IInv, InFlightOK, SendOK, WriteAhead, Launch, world, flush, Sending
<1>4. Moves
  BY StillMoves DEF Launch, world, flush
<1> QED BY <1>1, <1>2, <1>3, <1>4 DEF IInv

\* The receiver accepts a message the file shows as in_flight.
LEMMA AcceptInv == IInv /\ Accept => IInv'
<1> SUFFICES ASSUME IInv, Accept PROVE IInv'
  OBVIOUS
<1>0. pc \in Sending /\ pc = "wire" /\ pc # "down"
  BY DEF Accept, Sending
<1>1. /\ cur \in Slot /\ disk = mem /\ mem[cur].status = "in_flight"
      /\ got \in [Slot -> 0 .. MaxCopies]
      /\ UNCHANGED <<now, disk, mem, pc, due, cur>> /\ accepted' = TRUE /\ ~accepted
      /\ got' = [got EXCEPT ![cur] = IF @ < MaxCopies THEN @ + 1 ELSE @]
      /\ now \in Nat
  BY <1>0, SendingFacts DEF IInv, TypeOK, Accept
<1>2. /\ got' \in [Slot -> 0 .. MaxCopies]
      /\ got'[cur] > 0 /\ (got'[cur] > 1 => got[cur] > 0)
      /\ \A s \in Slot : s # cur => got'[s] = got[s]
  <2>1. got[cur] \in Nat /\ got[cur] <= MaxCopies
    BY <1>1, BoundsType
  <2> QED BY <1>1, <2>1, BoundsType
<1>3. got[cur] > 0 => Traced(disk[cur])
  BY <1>0, <1>1 DEF IInv, SendOK
<1>4. TypeOK'
  BY <1>1, <1>2 DEF IInv, TypeOK, Accept, call, process
<1>5. Good(disk', disk', got', now') /\ Good(disk', mem', got', now')
  <2>1. Good(disk, mem, got, now)
    BY <1>0 DEF IInv, LedgersOK, Safe
  <2>2. Sound(mem, got', now)
    BY <1>1, <1>2, <1>3, <2>1 DEF Good, Sound
  <2> QED BY <1>1, <2>1, <2>2 DEF Good
<1>6. LedgersOK' /\ ControlOK' /\ DueIn(mem, due)'
  BY <1>0, <1>1, <1>5
  DEF IInv, LedgersOK, Safe, ControlOK, DueIn, Accept, process, Flushing, Sending
<1>7. InFlightOK'
  BY <1>0, <1>1, <1>2 DEF IInv, InFlightOK
<1>8. SendOK' /\ WriteAhead'
  BY <1>0, <1>1, <1>2, <1>3 DEF IInv, SendOK, WriteAhead
<1> QED BY <1>4, <1>6, <1>7, <1>8 DEF IInv

\* Entry e records an outcome of the send.
Outcome(e) ==
    /\ e \in ChannelState
    /\ e.status \notin {"absent", "in_flight"}
    /\ e.status = "delivered" => got[cur] > 0
    /\ got[cur] > 0 /\ e.status # "delivered" => Traced(e)
    /\ got[cur] > 1 => Traced(e)

\* The outcome of a send, whether it is saved or not, keeps the invariant.
LEMMA SettleInv ==
    ASSUME IInv, pc \in Sending, NEW e, Outcome(e),
           NEW l, l = [mem EXCEPT ![cur] = e], Settle(l)
    PROVE  IInv' /\ Moves
<1>1. /\ Safe(mem) /\ disk = mem /\ DueIn(mem, due) /\ cur \in Slot /\ cur \notin due
      /\ mem[cur].status = "in_flight" /\ mem \in Ledger /\ pc # "down"
      /\ got \in [Slot -> Nat]
      /\ \A s \in Slot : s # cur => (mem[s].status = "in_flight" /\ got[s] > 0 => Traced(mem[s]))
  BY SendingFacts DEF IInv, TypeOK, Sending
<1>2. Safe(l)
  <2>1. EntryOK(mem, cur, e)
    BY <1>1 DEF EntryOK, Outcome, Open
  <2> QED BY <2>1, EntrySafe
<1>3. l[cur] = e /\ \A s \in Slot : s # cur => l[s] = mem[s]
  BY <1>1 DEF Ledger
<1>4. Settled(l)
  BY <1>1, <1>3 DEF Settled, Outcome
<1>5. DueIn(l, due)
  BY <1>1, <1>3 DEF DueIn
<1>6. CASE Written(l) /\ mem' = l /\ pc' = "loop" /\ cur' = NoSlot /\ accepted' = FALSE
           /\ UNCHANGED <<at, due>>
  BY <1>2, <1>4, <1>5, <1>6, LoopInv DEF Settle, Written, IInv, TypeOK, Flushing
<1>7. CASE WriteFails(l) /\ FlushReturns(l)
  <2>1. disk' \in {disk, l} /\ faults' \in 0 .. MaxFaults
    BY <1>7, BoundsType DEF WriteFails, Fault, IInv, TypeOK
  <2>2. UNCHANGED <<world, call, process, setting>>
    BY DEF Settle
  <2> QED BY <1>1, <1>2, <1>4, <1>7, <2>1, <2>2, FlushReturnsInv
<1> QED BY <1>6, <1>7 DEF Settle

\* A confirmation keeps the invariant.
LEMMA ReplyOKInv == IInv /\ ReplyOK => IInv' /\ Moves
<1> SUFFICES ASSUME IInv, ReplyOK PROVE IInv' /\ Moves
  OBVIOUS
<1> DEFINE e == [mem[cur] EXCEPT !.status = "delivered", !.next = 0]
<1>0. pc \in Sending /\ pc = "wire" /\ accepted
  BY DEF ReplyOK, Settle, Sending
<1>1. mem[cur] \in ChannelState /\ disk = mem
  BY <1>0, SendingFacts
<1>2. /\ e \in ChannelState /\ e.status = "delivered" /\ (Traced(e) <=> Traced(mem[cur]))
  BY <1>1 DEF ChannelState, Status, Open, Terminal, Traced
<1> HIDE DEF e
<1>3. Outcome(e)
  BY <1>0, <1>1, <1>2 DEF Outcome, IInv, SendOK
<1>4. MarkDelivered(mem, cur) = [mem EXCEPT ![cur] = e]
  BY DEF MarkDelivered, e
<1> QED BY <1>0, <1>3, <1>4, SettleInv DEF ReplyOK

\* A refusal keeps the invariant: the attempt is counted.
LEMMA ReplyPermanentInv == IInv /\ ReplyPermanent => IInv' /\ Moves
<1> SUFFICES ASSUME IInv, ReplyPermanent PROVE IInv' /\ Moves
  OBVIOUS
<1> DEFINE n == Attempted(mem[cur].attempts)
           e == [mem[cur] EXCEPT !.status = "blocked", !.attempts = n, !.next = 0]
<1>0. pc \in Sending
  BY DEF ReplyPermanent, Settle, Sending
<1>1. n \in 0 .. MaxAttempts /\ n > 0
  <2>1. n \in 1 .. MaxAttempts
    BY <1>0, SendingFacts, AttemptedType DEF ChannelState
  <2> QED BY <2>1, BoundAssumption
<1> HIDE DEF n
<1>2. e \in ChannelState /\ e.status = "blocked" /\ Traced(e)
  <2>1. mem[cur] \in ChannelState
    BY <1>0, SendingFacts
  <2> QED BY <1>1, <2>1 DEF ChannelState, Status, Open, Terminal, Traced
<1>3. MarkPermanent(mem, cur) = [mem EXCEPT ![cur] = e]
  BY DEF MarkPermanent, n
<1> HIDE DEF e
<1>4. Outcome(e)
  BY <1>2 DEF Outcome
<1> QED BY <1>0, <1>3, <1>4, SettleInv DEF ReplyPermanent

\* A failure that is tried again keeps the invariant: the attempt is counted.
LEMMA ReplyRetryableInv == IInv /\ ReplyRetryable => IInv' /\ Moves
<1> SUFFICES ASSUME IInv, NEW after \in RetryAfter, Settle(MarkRetryable(mem, cur, after, now))
             PROVE  IInv' /\ Moves
  BY DEF ReplyRetryable
<1> DEFINE n == Attempted(mem[cur].attempts)
           delay == IF after > Backoff[n] THEN after ELSE Backoff[n]
           e == [mem[cur] EXCEPT !.status = "pending", !.attempts = n, !.next = now + delay]
<1>0. pc \in Sending
  BY DEF Settle, Sending
<1>1. n \in 0 .. MaxAttempts /\ n > 0 /\ delay \in Nat
  <2>1. n \in 1 .. MaxAttempts
    BY <1>0, SendingFacts, AttemptedType DEF ChannelState
  <2>2. Backoff[n] \in Nat
    BY <2>1, BoundAssumption
  <2> QED BY <2>1, <2>2, ServiceAssumption, BoundAssumption
<1> HIDE DEF n, delay
<1>2. e \in ChannelState /\ e.status = "pending" /\ Traced(e)
  <2>1. mem[cur] \in ChannelState
    BY <1>0, SendingFacts
  <2>2. now + delay \in Nat
    BY <1>0, <1>1, SendingFacts
  <2> QED BY <1>1, <2>1, <2>2 DEF ChannelState, Status, Open, Terminal, Traced
<1>3. MarkRetryable(mem, cur, after, now) = [mem EXCEPT ![cur] = e]
  BY DEF MarkRetryable, n, delay
<1> HIDE DEF e
<1>4. Outcome(e)
  BY <1>2 DEF Outcome
<1> QED BY <1>0, <1>3, <1>4, SettleInv

\* The end of a flush keeps the invariant.
LEMMA EndFlushInv == IInv /\ EndFlush => IInv' /\ Moves
<1> SUFFICES ASSUME IInv, EndFlush PROVE IInv' /\ Moves
  OBVIOUS
<1> DEFINE l == Prune(Expire(mem, at), at)
<1>1. Safe(mem) /\ Settled(mem) /\ at \in Nat /\ at <= now /\ pc # "down"
  BY RestFacts DEF EndFlush, Sending
<1>2. Safe(l) /\ Settled(l)
  <2>1. Safe(Expire(mem, at)) /\ Settled(Expire(mem, at))
    BY <1>1, ExpireSafe
  <2> QED BY <1>1, <2>1, PruneSafe
<1> HIDE DEF l
<1>3. /\ disk' \in {disk, l} /\ faults' \in 0 .. MaxFaults /\ FlushReturns(l)
      /\ UNCHANGED <<world, call, process, setting>>
  BY BoundsType DEF EndFlush, Saved, Written, WriteFails, Fault, IInv, TypeOK, l
<1> QED BY <1>1, <1>2, <1>3, FlushReturnsInv

\* The switch keeps the invariant, whether or not its saves succeed.
LEMMA SetPushEnabledInv ==
    ASSUME IInv, NEW enabled \in BOOLEAN, SetPushEnabled(enabled) PROVE IInv' /\ Moves
<1> DEFINE l == IF enabled THEN mem ELSE Withdraw(mem)
<1>1. /\ Safe(mem) /\ Settled(mem) /\ due = {} /\ cur = NoSlot /\ accepted = FALSE
      /\ pc \in {"idle", "call"}
  BY RestFacts DEF SetPushEnabled, Sending
<1>2. Safe(l) /\ Settled(l)
  BY <1>1, WithdrawSafe
<1>3. CASE /\ setting' = enabled /\ push' = enabled
           /\ seen' = (seen \/ (pc = "call" /\ enabled))
           /\ mem' = l /\ SavedIfChanged(mem, l)
  <2>1. disk' \in {disk, l} /\ faults' \in 0 .. MaxFaults /\ seen' \in BOOLEAN
    BY <1>3, BoundsType
    DEF SavedIfChanged, Saved, Written, WriteFails, Fault, IInv, TypeOK
  <2> HIDE DEF l
  <2> QED BY <1>1, <1>2, <1>3, <2>1, RestInv
          DEF SetPushEnabled, IInv, TypeOK, world, flush, DueIn
<1>4. CASE /\ Fault /\ setting' \in {setting, enabled} /\ UNCHANGED <<push, seen, mem, disk>>
  <2>1. setting' \in BOOLEAN /\ faults' \in 0 .. MaxFaults
    BY <1>4, BoundsType DEF Fault, IInv, TypeOK
  <2> QED BY <1>1, <1>4, <2>1, RestInv
          DEF SetPushEnabled, IInv, TypeOK, world, flush, DueIn
<1> QED BY <1>3, <1>4 DEF SetPushEnabled

\* The passing of time keeps the invariant.
LEMMA TickInv == IInv /\ Tick => IInv'
<1> SUFFICES ASSUME IInv, Tick PROVE IInv'
  OBVIOUS
<1>1. /\ now \in Nat /\ now' = now + 1 /\ now' \in 0 .. MaxTime
      /\ UNCHANGED <<got, disk, mem, pc, due, cur, accepted, push>>
  BY BoundsType DEF IInv, TypeOK, Tick, flush, process
<1>2. TypeOK'
  BY <1>1 DEF IInv, TypeOK, Tick, flush, call, process
<1>3. \A s \in Slot : /\ ExpiresAt[s[1]] + Keep <= now => ExpiresAt[s[1]] + Keep <= now'
                      /\ now' < ExpiresAt[s[1]] => now < ExpiresAt[s[1]]
                      /\ ExpiresAt[s[1]] <= now => ExpiresAt[s[1]] <= now'
  BY <1>1, SlotType
<1>4. LedgersOK' /\ DueIn(mem, due)'
  <2>1. Good(disk', disk', got', now') /\ Chained(disk')
    BY <1>1, <1>3 DEF IInv, LedgersOK, Good, Sound, Follows
  <2>2. pc # "down" => Good(disk', mem', got', now') /\ Kept(disk', mem', now') /\ Chained(mem')
    BY <1>1, <1>3 DEF IInv, LedgersOK, Safe, Good, Sound, Follows, Kept
  <2>3. DueIn(mem, due)'
    BY <1>1, <1>3 DEF IInv, DueIn
  <2> QED BY <1>1, <2>1, <2>2, <2>3 DEF LedgersOK, Safe
<1>5. ControlOK' /\ InFlightOK' /\ SendOK' /\ WriteAhead'
  BY <1>1 DEF IInv, ControlOK, InFlightOK, SendOK, WriteAhead
<1> QED BY <1>2, <1>4, <1>5 DEF IInv

\* Every step keeps the invariant, and is one of three kinds.
LEMMA InvStep == IInv /\ [Next]_vars => IInv' /\ (Moves \/ Accept \/ Tick)
<1> SUFFICES ASSUME IInv, [Next]_vars PROVE IInv' /\ (Moves \/ Accept \/ Tick)
  OBVIOUS
<1>1. CASE LoadSome \/ LoadFails \/ Crash \/ Stop
  BY <1>1, LoadInv, LoadFailsInv, CrashInv, StopInv DEF LoadSome
<1>2. CASE Begin \/ \E b \in Batch : Publish(b)
  BY <1>2, BeginInv, PublishInv
<1>3. CASE Flush
  <2>1. CASE OpenFlush \/ FlushOff \/ EndFlush
    BY <2>1, OpenFlushInv, FlushOffInv, EndFlushInv
  <2>2. CASE \E s \in due : ChannelMissing(s) \/ Skip(s) \/ Claim(s)
    BY <2>2, ChannelMissingInv, SkipInv, ClaimInv
  <2>3. CASE LateExpire \/ Launch
    BY <2>3, LateExpireInv, LaunchInv
  <2>4. CASE ReplyOK \/ ReplyPermanent \/ ReplyRetryable
    BY <2>4, ReplyOKInv, ReplyPermanentInv, ReplyRetryableInv
  <2> QED BY <1>3, <2>1, <2>2, <2>3, <2>4 DEF Flush
<1>4. CASE Accept
  BY <1>4, AcceptInv
<1>5. CASE \E enabled \in BOOLEAN : SetPushEnabled(enabled)
  BY <1>5, SetPushEnabledInv
<1>6. CASE \E ch \in RetryBy : RetryCommand(ch)
  BY <1>6, RetryCommandInv
<1>7. CASE Tick
  BY <1>7, TickInv
<1>8. CASE UNCHANGED vars
  <2>1. TypeOK' /\ LedgersOK' /\ ControlOK' /\ DueIn(mem, due)'
    BY <1>8 DEF vars, IInv, TypeOK, LedgersOK, Safe, ControlOK, DueIn
  <2>2. InFlightOK' /\ SendOK' /\ WriteAhead'
    BY <1>8 DEF vars, IInv, InFlightOK, SendOK, WriteAhead
  <2>3. Moves
    BY <1>8, StillMoves DEF vars
  <2> QED BY <2>1, <2>2, <2>3 DEF IInv
<1> QED BY <1>1, <1>2, <1>3, <1>4, <1>5, <1>6, <1>7, <1>8 DEF Next, Work

\* The inductive invariant holds in every state.
LEMMA Invariance == Spec => []IInv
<1>1. Init => IInv
  BY InvInit
<1>2. IInv /\ [Next]_vars => IInv'
  BY InvStep
<1> QED BY <1>1, <1>2, PTL DEF Spec

-----------------------------------------------------------------------------
(* The theorems.                                                            *)

\* Every variable of the service's delivery keeps its type.
THEOREM TypeCorrect == Spec => []TypeOK
<1>1. IInv => TypeOK
  BY DEF IInv
<1> QED BY <1>1, Invariance, PTL

\* Nothing is sent that the file does not show as being sent (flushLocked).
THEOREM WriteAheadHolds == Spec => []WriteAhead
<1>1. IInv => WriteAhead
  BY DEF IInv
<1> QED BY <1>1, Invariance, PTL

\* However often a save fails, the ledger of the running service confirms what
\* the file confirms and knows what the receivers have.
THEOREM MemoryKnowsHolds == Spec => []MemoryKnows
<1>1. ASSUME IInv PROVE MemoryKnows
  <2> SUFFICES ASSUME pc # "down", NEW s \in Slot, ExpiresAt[s[1]] + Keep > now
               PROVE  /\ disk[s].status = "delivered" => mem[s].status = "delivered"
                      /\ got[s] > 0 => mem[s].status # "absent" /\ disk[s].status # "absent"
    BY DEF MemoryKnows
  <2>1. ~(ExpiresAt[s[1]] + Keep <= now)
    BY <1>1, SlotType DEF IInv, TypeOK
  <2> QED BY <1>1, <2>1 DEF IInv, LedgersOK, Safe, Good, Sound, Follows
<1> QED BY <1>1, Invariance, PTL

\* No receiver gets a second copy, or one the file does not confirm, without a
\* mark of it in the file.
THEOREM NoSilentCopyHolds == Spec => []NoSilentCopy
<1>1. IInv => NoSilentCopy
  BY DEF IInv, LedgersOK, Good, Sound, NoSilentCopy
<1> QED BY <1>1, Invariance, PTL

\* The file never reaches a state that keeps the service from starting.
THEOREM LedgerReadableHolds == Spec => []LedgerReadable
<1>1. IInv => LedgerReadable
  BY ChainedValid DEF IInv, LedgersOK, Chained, LedgerReadable
<1> QED BY <1>1, Invariance, PTL

\* Nothing is sent while the push switch is off (SetPushEnabled).
THEOREM SwitchObeyedHolds == Spec => []SwitchObeyed
<1>1. IInv => SwitchObeyed
  BY DEF IInv, ControlOK, Flushing, SwitchObeyed
<1> QED BY <1>1, Invariance, PTL

\* What the switch withdrew is not brought back.
THEOREM WithdrawnIsFinalHolds == Spec => WithdrawnIsFinal
<1>1. IInv /\ [Next]_vars =>
        [\A s \in Slot : disk[s].status = "expired" /\ now < ExpiresAt[s[1]] =>
            disk'[s].status = "expired"]_vars
  <2>1. IInv /\ [Next]_vars => Moves \/ Accept \/ Tick
    BY InvStep
  <2> QED BY <2>1 DEF Moves, Kept, Accept, Tick
<1> QED BY <1>1, Invariance, PTL DEF Spec, WithdrawnIsFinal

-----------------------------------------------------------------------------
(* The refinement.                                                          *)

\* The initial states are mapped to initial states of CardPromise.
LEMMA PhaseInit == Init => Promise!Init
<1> SUFFICES ASSUME Init PROVE Promise!Init
  OBVIOUS
<1>1. \A s \in Slot : disk[s].status = "absent"
  BY DEF Init, NewLedger, Absent
<1>2. phaseOf = [s \in Slot |-> "absent"]
  BY <1>1 DEF phaseOf
<1> QED BY <1>2 DEF Init, Promise!Init, Promise!Slot, Slot

\* A step of the file is a step of the record of CardPromise.
LEMMA MovesRecord == ASSUME IInv, IInv', Moves PROVE Promise!Record
<1>1. phaseOf' \in [Slot -> Promise!Phase]
  BY DEF IInv, phaseOf, TypeOK, Promise!Phase
<1>2. ASSUME NEW s \in Slot, phaseOf'[s] # phaseOf[s]
      PROVE  \/ phaseOf'[s] = "open" /\ Promise!Opens(s)
             \/ phaseOf'[s] = "stopped" /\ Promise!Stops(s)
             \/ phaseOf'[s] = "delivered" /\ Promise!Confirms(s)
             \/ phaseOf'[s] = "absent" /\ Promise!Forgotten(s)
  <2>1. /\ now' = now /\ got' = got /\ now \in Nat /\ got \in [Slot -> Nat]
        /\ disk \in Ledger /\ disk' \in Ledger
        /\ Sound(disk, got, now) /\ Sound(disk', got, now) /\ Follows(disk, disk', now)
    BY BoundsType DEF Moves, IInv, TypeOK, LedgersOK, Good
  <2> DEFINE O == {r \in Slot : Outstanding(r)}
             P == {r \in Slot : Outstanding(r)'}
             x == phaseOf[s]
             y == phaseOf'[s]
             e == disk'
  <2>2. PhaseIs(x, disk[s].status, s \in O) /\ PhaseIs(y, e[s].status, s \in P)
    BY DEF phaseOf, PhaseIs
  <2>3. /\ s \in O => disk[s].status \in Open
        /\ s \in P => e[s].status \in Open
        /\ s \in P => s \in O \/ now < ExpiresAt[s[1]]
    BY <2>1 DEF Outstanding, Moves
  <2>4. x # y /\ e \in Ledger /\ Sound(e, got, now) /\ Follows(disk, e, now)
    BY <1>2, <2>1
  <2> HIDE DEF O, P, x, y, e
  <2>5. Replaces(disk, e, got, now, s, O, P, x, y)
    BY <2>1, <2>2, <2>3, <2>4 DEF Replaces
  <2>6. Advances(got, now, s, x, y)
    BY <2>5, PhaseStep
  <2> QED BY <2>1, <2>6
    DEF Advances, x, y, Promise!Opens, Promise!Expired, Promise!Stops, Promise!Confirms, Promise!Forgotten
<1> QED BY <1>1, <1>2 DEF Promise!Record, Promise!Slot, Slot, Moves

\* A receiver accepts only what the record shows as open and next in its chain.
LEMMA AcceptReceives == ASSUME IInv, Accept PROVE Promise!Receive(cur)
<1>1. /\ pc = "wire" /\ pc \in Sending /\ UNCHANGED <<now, disk, pc, cur>>
      /\ got' = [got EXCEPT ![cur] = IF @ < MaxCopies THEN @ + 1 ELSE @]
  BY DEF Accept, Sending
<1>2. cur \in Slot /\ disk[cur].status = "in_flight"
      /\ (Dependent(cur) => Before(cur) \in Slot /\ disk[Before(cur)].status = "delivered")
  BY <1>1, SendingFacts, SlotType DEF IInv, WriteAhead
<1>3. phaseOf[cur] = "open"
  BY <1>1, <1>2 DEF phaseOf, Outstanding, Open
<1>4. Dependent(cur) => phaseOf[Before(cur)] = "delivered"
  BY <1>2 DEF phaseOf
<1>5. phaseOf' = phaseOf
  BY <1>1 DEF phaseOf, Outstanding
<1> QED BY <1>1, <1>3, <1>4, <1>5 DEF Promise!Receive, Dependent, Before

\* The passing of time is mapped to the passing of time, which stops what expires.
LEMMA TickTicks == ASSUME IInv, Tick PROVE Promise!Tick
<1>1. now \in Nat /\ now' = now + 1 /\ UNCHANGED <<disk, pc, cur, got>>
  BY DEF IInv, TypeOK, Tick, flush
<1>2. phaseOf' \in [Slot -> Promise!Phase]
  BY <1>1 DEF IInv, phaseOf, TypeOK, Promise!Phase
<1>3. ASSUME NEW s \in Slot, phaseOf'[s] # phaseOf[s]
      PROVE  phaseOf[s] = "open" /\ phaseOf'[s] = "stopped" /\ ExpiresAt[s[1]] <= now'
  BY <1>1, <1>3, SlotType DEF phaseOf, Outstanding
<1> QED BY <1>1, <1>2, <1>3 DEF Promise!Tick, Promise!Slot, Slot

\* Every service that keeps its ledger in memory implements CardPromise too.
THEOREM PromiseKept == Spec => KeepsPromise
<1>1. Init => Promise!Init
  BY PhaseInit
<1>2. IInv /\ IInv' /\ [Next]_vars => [Promise!Next]_(Promise!vars)
  <2> SUFFICES ASSUME IInv, IInv', [Next]_vars PROVE Promise!Next
    OBVIOUS
  <2>1. CASE Moves
    BY <2>1, MovesRecord DEF Promise!Next
  <2>2. CASE Accept
    <3>1. cur \in Promise!Slot
      BY <2>2, SendingFacts DEF Accept, Sending, Promise!Slot, Slot
    <3> QED BY <2>2, <3>1, AcceptReceives DEF Promise!Next
  <2>3. CASE Tick
    BY <2>3, TickTicks DEF Promise!Next
  <2> QED BY <2>1, <2>2, <2>3, InvStep
<1> QED BY <1>1, <1>2, Invariance, PTL DEF Spec, KeepsPromise, Promise!Spec
=============================================================================
