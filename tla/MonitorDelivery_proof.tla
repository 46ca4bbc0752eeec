------------------------ MODULE MonitorDelivery_proof ------------------------
(***************************************************************************)
(* Proofs about MonitorDelivery, for every set of cards, channels and      *)
(* reports and every bound.                                                *)
(*                                                                         *)
(* The argument is about two ledgers, the one in the file and the one in   *)
(* memory, against what the receivers have got (Sound) and against each    *)
(* other (Follows).  Every operation of the ledger preserves both          *)
(* relations, so it does not matter which of the writes between them was   *)
(* lost.                                                                   *)
(***************************************************************************)
EXTENDS MonitorDelivery, NotifyLedger_proof

-----------------------------------------------------------------------------
(* The inductive invariant.                                                 *)

LedgersOK ==
    /\ Good(disk, disk, got, now)
    /\ pc \in Loaded => Good(disk, mem, got, now)

ControlOK ==
    /\ IF pc \in Sending THEN cur \in Slot ELSE cur = NoSlot
    /\ due # {} => pc \in {"loop"} \cup Sending
    /\ accepted => pc = "wire"

\* The snapshot of flushState holds nothing confirmed or in flight.
DueOK == \A s \in due : mem[s].status \notin {"absent", "in_flight", "delivered"}

\* Within flushState nothing is in_flight but the delivery being sent.
InFlightOK ==
    /\ pc = "loop" => \A s \in Slot : mem[s].status # "in_flight"
    /\ pc \in Sending => \A s \in Slot : mem[s].status = "in_flight" => s = cur

\* What is sent again is marked as such before it is sent.
SendOK ==
    pc \in Sending => /\ got[cur] > 0 => accepted \/ Traced(disk[cur])
                      /\ got[cur] > 1 => Traced(disk[cur])
                      /\ accepted => got[cur] > 0

IInv ==
    /\ TypeOK
    /\ LedgersOK
    /\ ControlOK
    /\ DueOK
    /\ InFlightOK
    /\ SendOK
    /\ WriteAhead
    /\ ChainOrder

\* What a step does to the file when neither the clock nor a receiver moves.
Moves ==
    /\ UNCHANGED <<now, got>>
    /\ Follows(disk, disk', now)
    /\ pc' = "wire" => /\ UNCHANGED <<disk, cur>>
                       /\ pc = "wire" \/ now < ExpiresAt[cur[1]]

\* The bounds of the exploration are numbers.
LEMMA BoundsType ==
    /\ MaxTime \in Nat /\ MaxFaults \in Nat /\ MaxCopies \in Nat /\ MaxCopies > 1
    /\ (0 .. MaxCopies) \subseteq Nat
BY ReportAssumption

\* A write that happens, or fails before or after its rename, keeps the file consistent.
LEMMA WriteGood ==
    ASSUME TypeOK, NEW l, Good(disk, l, got, now), disk' \in {disk, l},
           UNCHANGED <<now, got>>
    PROVE  /\ Good(disk', l, got', now')
           /\ Good(disk', disk', got', now')
           /\ Follows(disk, disk', now)
<1>0. now \in Nat
  BY DEF TypeOK
<1>1. Good(l, l, got, now)
  BY <1>0, WrittenGood
<1>2. Good(disk, disk, got, now)
  BY DEF Good, Follows, Ledger, ChannelState, Status, Open, Terminal
<1> QED BY <1>1, <1>2 DEF Good

\* Steps that leave the file alone.
LEMMA StillMoves ==
    ASSUME IInv, UNCHANGED <<disk, now, got>>,
           pc' = "wire" => /\ UNCHANGED cur
                           /\ pc = "wire" \/ now < ExpiresAt[cur[1]]
    PROVE  Moves
<1>1. Follows(disk, disk, now)
  BY DEF IInv, LedgersOK, Good
<1> QED BY <1>1 DEF Moves

\* A call that ends keeps the invariant: what was in memory is gone.
LEMMA ReturnInv ==
    ASSUME IInv, Forget, pc' \in {"down", "top"}, Good(disk', disk', got', now'),
           UNCHANGED <<now, got>>, ready' \in BOOLEAN, live' \subseteq Channel,
           cancelled' \in BOOLEAN, faults' \in 0 .. MaxFaults
    PROVE  IInv'
<1>1. TypeOK'
  <2>1. NewLedger \in Ledger
    BY BoundAssumption DEF NewLedger, Absent, Ledger, ChannelState, Status
  <2> QED BY <2>1 DEF IInv, TypeOK, Forget, Good
<1>2. LedgersOK' /\ ControlOK' /\ DueOK' /\ InFlightOK' /\ SendOK' /\ WriteAhead'
  BY DEF Forget, LedgersOK, ControlOK, DueOK, InFlightOK, SendOK, WriteAhead, Loaded, Sending
<1>3. ChainOrder'
  BY DEF IInv, ChainOrder
<1> QED BY <1>1, <1>2, <1>3 DEF IInv

\* flushState may return at any point with a ledger that is consistent.
LEMMA FlushReturnsInv ==
    ASSUME IInv, NEW l, Good(disk, l, got, now), disk' \in {disk, l}, FlushReturns(l),
           UNCHANGED <<now, process, got>>, faults' \in 0 .. MaxFaults
    PROVE  IInv' /\ Moves
<1>0. Good(disk', l, got', now') /\ Good(disk', disk', got', now') /\ Follows(disk, disk', now)
  BY WriteGood DEF IInv
<1>m. Moves
  BY <1>0 DEF Moves, FlushReturns, Return
<1>1. CASE round = 1
  <2>1. /\ pc' = "sync" /\ mem' = l /\ due' = {} /\ cur' = NoSlot /\ accepted' = FALSE
        /\ UNCHANGED <<round, asof>>
    BY <1>1 DEF FlushReturns
  <2>2. TypeOK'
    BY <1>0, <2>1 DEF IInv, TypeOK, Good, process, Loaded
  <2>3. LedgersOK' /\ ControlOK' /\ DueOK' /\ InFlightOK' /\ SendOK' /\ WriteAhead'
    BY <1>0, <2>1
    DEF LedgersOK, ControlOK, DueOK, InFlightOK, SendOK, WriteAhead, Loaded, Sending
  <2>4. ChainOrder'
    BY DEF IInv, ChainOrder
  <2> QED BY <1>m, <2>2, <2>3, <2>4 DEF IInv
<1>2. CASE round # 1
  BY <1>0, <1>2, <1>m, ReturnInv DEF FlushReturns, Return, IInv, TypeOK, process
<1> QED BY <1>1, <1>2, <1>m

\* A send that ends keeps the invariant once its slot is no longer in flight.
LEMMA SettleInv ==
    ASSUME IInv, pc \in Sending, NEW l, Good(disk, l, got, now), Settle(l),
           \A s \in Slot : l[s].status # "in_flight",
           \A s \in due : l[s].status \notin {"absent", "in_flight", "delivered"}
    PROVE  IInv' /\ Moves
<1>1. CASE Written(l) /\ mem' = l /\ pc' = "loop" /\ cur' = NoSlot /\ accepted' = FALSE
           /\ UNCHANGED <<round, asof, due>>
  <2>1. /\ Good(disk', mem', got', now') /\ Good(disk', disk', got', now')
        /\ Follows(disk, disk', now)
    BY <1>1, WriteGood DEF IInv, Settle, Written
  <2>2. TypeOK'
    BY <1>1, <2>1 DEF IInv, TypeOK, Good, Settle, process, Loaded, Written
  <2>3. LedgersOK' /\ ControlOK' /\ DueOK' /\ InFlightOK' /\ SendOK' /\ WriteAhead'
    BY <1>1, <2>1
    DEF IInv, LedgersOK, ControlOK, DueOK, InFlightOK, SendOK, WriteAhead, Loaded, Sending
  <2>4. ChainOrder'
    BY DEF IInv, ChainOrder, Settle
  <2>5. Moves
    BY <1>1, <2>1 DEF Moves, Settle
  <2> QED BY <2>2, <2>3, <2>4, <2>5 DEF IInv
<1>2. CASE WriteFails(l) /\ FlushReturns(l)
  BY <1>2, FlushReturnsInv, BoundsType DEF Settle, WriteFails, Fault, IInv, TypeOK
<1> QED BY <1>1, <1>2 DEF Settle

-----------------------------------------------------------------------------
(* The steps.                                                               *)

\* The invariant holds at the start.
LEMMA InvInit == Init => IInv
<1> SUFFICES ASSUME Init PROVE IInv
  OBVIOUS
<1>1. NewLedger \in Ledger /\ \A s \in Slot : NewLedger[s] = Absent
  BY BoundAssumption DEF NewLedger, Absent, Ledger, ChannelState, Status
<1>2. TypeOK
  <2>1. 0 \in 0 .. MaxTime /\ 0 \in 0 .. MaxFaults /\ 0 \in 0 .. MaxCopies /\ 0 \in Nat
    BY BoundsType
  <2> QED BY <1>1, <2>1 DEF Init, TypeOK
<1>3. Good(disk, disk, got, now)
  BY <1>1 DEF Init, Good, Sound, Follows, Absent
<1>4. LedgersOK /\ ControlOK /\ DueOK /\ InFlightOK /\ SendOK /\ WriteAhead
  BY <1>3 DEF Init, LedgersOK, ControlOK, DueOK, InFlightOK, SendOK, WriteAhead, Loaded, Sending
<1>5. ChainOrder
  BY SlotType DEF Init, ChainOrder
<1> QED BY <1>2, <1>4, <1>5 DEF IInv

\* The start of a process keeps the invariant.
LEMMA StartInv ==
    ASSUME IInv, NEW once \in BOOLEAN, NEW channels \in Configuration, Start(once, channels)
    PROVE  IInv'
<1>1. TypeOK'
  BY ReportAssumption DEF IInv, TypeOK, Start, flush
<1>2. LedgersOK' /\ ControlOK' /\ DueOK' /\ InFlightOK' /\ SendOK' /\ WriteAhead' /\ ChainOrder'
  BY DEF IInv, Start, flush, LedgersOK, ControlOK, DueOK, InFlightOK, SendOK, WriteAhead,
         ChainOrder, Loaded, Sending
<1> QED BY <1>1, <1>2 DEF IInv

\* Stop keeps the invariant.
LEMMA StopInv == IInv /\ Stop => IInv'
<1> SUFFICES ASSUME IInv, Stop PROVE IInv'
  OBVIOUS
<1>1. TypeOK'
  BY DEF IInv, TypeOK, Stop, flush
<1>2. LedgersOK' /\ ControlOK' /\ DueOK' /\ InFlightOK' /\ SendOK' /\ WriteAhead' /\ ChainOrder'
  BY DEF IInv, Stop, flush, LedgersOK, ControlOK, DueOK, InFlightOK, SendOK, WriteAhead,
         ChainOrder, Loaded, Sending
<1> QED BY <1>1, <1>2 DEF IInv

\* ReadState keeps the invariant, and does to the file only what Moves allows.
LEMMA ReadStateInv == IInv /\ ReadState => IInv' /\ Moves
<1> SUFFICES ASSUME IInv, ReadState PROVE IInv' /\ Moves
  OBVIOUS
<1> DEFINE l == Normalize(disk)
<1>1. Good(disk, l, got, now)
  BY NormalizeGood DEF IInv, LedgersOK, TypeOK
<1>2. disk' \in {disk, l} /\ mem' = l /\ pc' \in {"flush", "sync"} /\ faults' = faults
      /\ (disk' = disk \/ disk' = mem')
  BY DEF ReadState, WrittenIfChanged, Written
<1>3. /\ Good(disk', l, got', now') /\ Good(disk', disk', got', now')
      /\ Follows(disk, disk', now)
  BY <1>1, <1>2, WriteGood DEF IInv, ReadState
<1>4. TypeOK'
  BY <1>2, <1>3 DEF IInv, TypeOK, ReadState, process, flush, Good, Loaded
<1>5. LedgersOK' /\ ControlOK' /\ DueOK' /\ InFlightOK' /\ SendOK' /\ WriteAhead' /\ ChainOrder'
  BY <1>2, <1>3
  DEF IInv, ReadState, flush, LedgersOK, ControlOK, DueOK, InFlightOK, SendOK, WriteAhead,
      ChainOrder, Loaded, Sending
<1>6. Moves
  BY <1>2, <1>3 DEF Moves, ReadState
<1> QED BY <1>4, <1>5, <1>6 DEF IInv

\* ReadStateFails keeps the invariant, and does to the file only what Moves allows.
LEMMA ReadStateFailsInv == IInv /\ ReadStateFails => IInv' /\ Moves
<1> SUFFICES ASSUME IInv, ReadStateFails PROVE IInv' /\ Moves
  OBVIOUS
<1>1. Good(disk, Normalize(disk), got, now)
  BY NormalizeGood DEF IInv, LedgersOK, TypeOK
<1>2. disk' \in {disk, Normalize(disk)} /\ faults' \in 0 .. MaxFaults
  BY BoundsType DEF ReadStateFails, WriteFails, Fault, IInv, TypeOK
<1>3. Good(disk', disk', got', now') /\ Follows(disk, disk', now)
  BY <1>1, <1>2, WriteGood DEF IInv, ReadStateFails
<1>4. Moves
  BY <1>3 DEF Moves, ReadStateFails, Return
<1> QED BY <1>2, <1>3, <1>4, ReturnInv DEF ReadStateFails, Return, process, IInv, TypeOK

\* OpenFlush keeps the invariant, and does to the file only what Moves allows.
LEMMA OpenFlushInv == IInv /\ OpenFlush => IInv' /\ Moves
<1> SUFFICES ASSUME IInv, OpenFlush PROVE IInv' /\ Moves
  OBVIOUS
<1> DEFINE l1 == Normalize(mem)
           l2 == Expire(l1, now)
           l == Prune(l2, now)
<1>0. now \in Nat /\ Good(disk, mem, got, now)
  BY DEF IInv, TypeOK, LedgersOK, OpenFlush, Loaded
<1>1. Good(disk, l1, got, now) /\ \A s \in Slot : l1[s].status # "in_flight"
  <2>1. Good(disk, l1, got, now)
    BY <1>0, NormalizeGood
  <2>2. \A s \in Slot : l1[s].status # "in_flight"
    BY <1>0 DEF Normalize, Good, Ledger, ChannelState
  <2> QED BY <2>1, <2>2
<1>2. Good(disk, l2, got, now) /\ \A s \in Slot : l2[s].status # "in_flight"
  <2>1. Good(disk, l2, got, now)
    BY <1>0, <1>1, ExpireGood
  <2>2. \A s \in Slot : l2[s].status # "in_flight"
    BY <1>1 DEF Expire, Good, Ledger, ChannelState
  <2> QED BY <2>1, <2>2
<1>3. Good(disk, l, got, now) /\ \A s \in Slot : l[s].status # "in_flight"
  <2>1. Good(disk, l, got, now)
    BY <1>0, <1>2, PruneGood
  <2>2. \A s \in Slot : l[s].status # "in_flight"
    BY <1>2 DEF Prune, Absent, Good, Ledger, ChannelState
  <2> QED BY <2>1, <2>2
<1> HIDE DEF l
<1>4. CASE WrittenIfChanged(mem, l) /\ mem' = l /\ due' = Due(l, now) /\ pc' = "loop"
           /\ UNCHANGED <<round, asof, cur, accepted>>
  <2>1. disk' \in {disk, l} /\ faults' = faults
    BY <1>4 DEF WrittenIfChanged, Written
  <2>2. /\ Good(disk', l, got', now') /\ Good(disk', disk', got', now')
        /\ Follows(disk, disk', now)
    BY <1>3, <2>1, WriteGood DEF IInv, OpenFlush
  <2>3. due' \subseteq Slot /\ \A s \in due' : l[s].status \in {"pending", "unknown"}
    BY <1>4 DEF Due
  <2>4. TypeOK'
    BY <1>4, <2>1, <2>2, <2>3 DEF IInv, TypeOK, OpenFlush, process, Good, Loaded
  <2>5. LedgersOK' /\ ControlOK' /\ DueOK' /\ InFlightOK' /\ SendOK' /\ WriteAhead' /\ ChainOrder'
    BY <1>3, <1>4, <2>2, <2>3
    DEF IInv, OpenFlush, LedgersOK, ControlOK, DueOK, InFlightOK, SendOK, WriteAhead,
        ChainOrder, Loaded, Sending
  <2>6. Moves
    BY <1>4, <2>2 DEF Moves, OpenFlush
  <2> QED BY <2>4, <2>5, <2>6 DEF IInv
<1>5. CASE WriteFails(l) /\ FlushReturns(l)
  BY <1>3, <1>5, FlushReturnsInv, BoundsType DEF OpenFlush, WriteFails, Fault, IInv, TypeOK
<1> QED BY <1>4, <1>5 DEF OpenFlush, l

\* Skip keeps the invariant.
LEMMA SkipInv == ASSUME IInv, NEW s \in due, Skip(s) PROVE IInv'
<1>1. TypeOK'
  BY DEF IInv, TypeOK, Skip, process, Loaded
<1>2. LedgersOK' /\ ControlOK' /\ DueOK' /\ InFlightOK' /\ SendOK' /\ WriteAhead' /\ ChainOrder'
  BY DEF IInv, Skip, Turn, LedgersOK, ControlOK, DueOK, InFlightOK, SendOK, WriteAhead,
         ChainOrder, Loaded, Sending
<1> QED BY <1>1, <1>2 DEF IInv

\* EndFlush keeps the invariant, and does to the file only what Moves allows.
LEMMA EndFlushInv == IInv /\ EndFlush => IInv' /\ Moves
BY FlushReturnsInv DEF EndFlush, IInv, TypeOK, LedgersOK, Loaded

\* Claim keeps the invariant, and does to the file only what Moves allows.
LEMMA ClaimInv == ASSUME IInv, NEW s \in due, Claim(s) PROVE IInv' /\ Moves
<1> DEFINE l == MarkInFlight(mem, s)
           e == [mem[s] EXCEPT !.status = "in_flight"]
<1>0. /\ s \in Slot /\ pc = "loop" /\ Good(disk, mem, got, now)
      /\ now \in Nat /\ got \in [Slot -> Nat]
      /\ mem[s].status \notin {"absent", "in_flight", "delivered"}
      /\ mem[s] \in ChannelState
  BY BoundsType DEF IInv, TypeOK, LedgersOK, DueOK, Claim, Turn, Loaded, Good, Ledger
<1>1. /\ e \in ChannelState /\ e.status = "in_flight" /\ (Traced(e) <=> Traced(mem[s]))
      /\ l = [mem EXCEPT ![s] = e]
  BY <1>0 DEF ChannelState, Status, Open, Traced, MarkInFlight
<1> HIDE DEF e
<1>2. got[s] > 0 => Traced(e)
  BY <1>0, <1>1 DEF Good, Sound
<1>3. Good(disk, l, got, now)
  <2>1. got[s] > 1 => Traced(e)
    BY <1>0, <1>2
  <2>2. disk[s].status # "delivered" /\ e.status # "absent" /\ e.status # "delivered"
    BY <1>0, <1>1 DEF Good, Follows
  <2>3. Good(disk, [mem EXCEPT ![s] = e], got, now)
    BY <1>0, <1>1, <1>2, <2>1, <2>2, EntryGood
  <2> QED BY <1>1, <2>3
<1>4. l[s] = e /\ \A r \in Slot : r # s => l[r] = mem[r]
  BY <1>0, <1>1 DEF Good, Ledger
<1>5. CASE Written(l) /\ mem' = l /\ due' = due \ {s} /\ cur' = s /\ pc' = "launch"
           /\ UNCHANGED <<round, asof, accepted>>
  <2>1. /\ Good(disk', l, got', now') /\ Good(disk', disk', got', now') /\ disk' = l
        /\ Follows(disk, disk', now)
    BY <1>3, <1>5, WriteGood DEF IInv, Claim, Written
  <2>2. TypeOK'
    BY <1>0, <1>5, <2>1 DEF IInv, TypeOK, Claim, process, Good, Loaded, Written
  <2>3. WriteAhead'
    <3>1. Dependent(s) => Before(s) # s /\ Before(s) \in Slot /\ mem[Before(s)].status = "delivered"
      BY <1>0, SlotType DEF Claim, CanDeliver
    <3> QED BY <1>1, <1>4, <1>5, <2>1, <3>1 DEF WriteAhead
  <2>4. SendOK'
    <3>1. got[s] > 1 => got[s] > 0
      BY <1>0
    <3>2. ~accepted
      BY <1>0 DEF IInv, ControlOK
    <3> QED BY <1>2, <1>4, <1>5, <2>1, <3>1, <3>2 DEF SendOK, Claim
  <2>5. LedgersOK' /\ ControlOK' /\ DueOK' /\ InFlightOK' /\ ChainOrder'
    BY <1>0, <1>4, <1>5, <2>1
    DEF IInv, TypeOK, Claim, LedgersOK, ControlOK, DueOK, InFlightOK, ChainOrder, Loaded, Sending
  <2>6. Moves
    BY <1>5, <2>1 DEF Moves, Claim
  <2> QED BY <2>2, <2>3, <2>4, <2>5, <2>6 DEF IInv
<1>6. CASE WriteFails(l) /\ FlushReturns(l)
  BY <1>3, <1>6, FlushReturnsInv, BoundsType DEF Claim, WriteFails, Fault, IInv, TypeOK
<1>7. CASE Fault /\ FlushReturns(mem) /\ UNCHANGED disk
  BY <1>0, <1>7, FlushReturnsInv, BoundsType DEF Claim, Fault, IInv, TypeOK
<1> QED BY <1>5, <1>6, <1>7 DEF Claim

\* Launch keeps the invariant.
LEMMA LaunchInv == IInv /\ Launch => IInv'
<1> SUFFICES ASSUME IInv, Launch PROVE IInv'
  OBVIOUS
<1>1. TypeOK'
  BY DEF IInv, TypeOK, Launch, process, flush, Loaded
<1>2. LedgersOK' /\ ControlOK' /\ DueOK' /\ InFlightOK' /\ SendOK' /\ WriteAhead' /\ ChainOrder'
  BY DEF IInv, Launch, flush, LedgersOK, ControlOK, DueOK, InFlightOK, SendOK, WriteAhead,
         ChainOrder, Loaded, Sending
<1> QED BY <1>1, <1>2 DEF IInv

\* What is known while a delivery is being sent.
LEMMA SendingFacts ==
    ASSUME IInv, pc \in Sending
    PROVE  /\ cur \in Slot /\ now \in Nat /\ got \in [Slot -> Nat]
           /\ Good(disk, mem, got, now) /\ disk = mem
           /\ mem[cur] \in ChannelState /\ mem[cur].status = "in_flight"
           /\ \A s \in Slot : s # cur => mem[s].status # "in_flight"
           /\ \A s \in due : s \in Slot /\ s # cur
BY BoundsType
DEF IInv, TypeOK, LedgersOK, ControlOK, DueOK, InFlightOK, WriteAhead, Loaded, Sending, Good, Ledger

\* The entry being sent is replaced.
LEMMA OutcomeGood ==
    ASSUME IInv, pc \in Sending, NEW e \in ChannelState,
           e.status \notin {"absent", "in_flight"},
           e.status = "delivered" => got[cur] > 0,
           got[cur] > 0 /\ e.status # "delivered" => Traced(e),
           got[cur] > 1 => Traced(e)
    PROVE  LET l == [mem EXCEPT ![cur] = e]
           IN  /\ Good(disk, l, got, now)
               /\ \A s \in Slot : l[s].status # "in_flight"
               /\ \A s \in due : l[s].status \notin {"absent", "in_flight", "delivered"}
<1> DEFINE l == [mem EXCEPT ![cur] = e]
<1>1. Good(disk, l, got, now)
  BY SendingFacts, EntryGood
<1>2. l[cur] = e /\ \A s \in Slot : s # cur => l[s] = mem[s]
  BY SendingFacts DEF Good, Ledger
<1>3. \A s \in Slot : l[s].status # "in_flight"
  BY <1>2, SendingFacts
<1>4. \A s \in due : l[s].status \notin {"absent", "in_flight", "delivered"}
  BY <1>2, SendingFacts DEF IInv, DueOK
<1> QED BY <1>1, <1>3, <1>4

\* LateExpire keeps the invariant, and does to the file only what Moves allows.
LEMMA LateExpireInv == IInv /\ LateExpire => IInv' /\ Moves
<1> SUFFICES ASSUME IInv, LateExpire PROVE IInv' /\ Moves
  OBVIOUS
<1> DEFINE l == Expire(mem, now)
<1>0. pc = "launch" /\ pc \in Sending /\ ~accepted /\ ExpiresAt[cur[1]] <= now
  BY DEF LateExpire, Sending, IInv, ControlOK
<1>1. \A s \in Slot : mem[s].status = "in_flight" /\ got[s] > 0 => Traced(mem[s])
  BY <1>0, SendingFacts DEF IInv, SendOK
<1>2. Good(disk, l, got, now)
  BY <1>0, <1>1, SendingFacts, ExpireGood
<1>3. \A s \in Slot : l[s].status # "in_flight"
  BY <1>0, SendingFacts DEF Expire, Good, Ledger, ChannelState
<1>4. \A s \in due : l[s].status \notin {"absent", "in_flight", "delivered"}
  BY <1>0, SendingFacts DEF Expire, Good, Ledger, ChannelState, IInv, DueOK
<1> QED BY <1>0, <1>2, <1>3, <1>4, SettleInv DEF LateExpire

\* Accept keeps the invariant.
LEMMA AcceptInv == IInv /\ Accept => IInv'
<1> SUFFICES ASSUME IInv, Accept PROVE IInv'
  OBVIOUS
<1>0. pc = "wire" /\ pc \in Sending /\ ~accepted /\ accepted' = TRUE
      /\ UNCHANGED <<now, disk, mem, pc, ready, live, cancelled, round, asof, due, cur, faults>>
  BY DEF Accept, Sending, process
<1>1. /\ got' \in [Slot -> 0 .. MaxCopies]
      /\ got' \in [Slot -> Nat]
      /\ got'[cur] > 0
      /\ got'[cur] > 1 => got[cur] > 0
      /\ \A s \in Slot : s # cur => got'[s] = got[s]
  <2>1. cur \in Slot /\ got \in [Slot -> 0 .. MaxCopies] /\ MaxCopies \in Nat /\ MaxCopies > 1
    BY <1>0, SendingFacts, BoundsType DEF IInv, TypeOK
  <2> QED BY <2>1 DEF Accept
<1>2. TypeOK'
  BY <1>0, <1>1 DEF IInv, TypeOK
<1>3. got'[cur] > 1 => Traced(disk[cur])
  BY <1>0, <1>1 DEF IInv, SendOK
<1>4. Sound(mem, got', now)
  <2>1. Sound(mem, got, now) /\ mem[cur].status = "in_flight" /\ mem = disk
    BY <1>0, SendingFacts DEF Good
  <2> QED BY <1>1, <1>3, <2>1 DEF Sound
<1>5. LedgersOK'
  BY <1>0, <1>4, SendingFacts DEF LedgersOK, Good
<1>6. SendOK'
  BY <1>0, <1>1, <1>3 DEF SendOK
<1>7. ChainOrder'
  <2> SUFFICES ASSUME NEW s \in Slot, got'[s] > 0, Dependent(s)
               PROVE  got'[Before(s)] > 0
    BY DEF ChainOrder
  <2>1. Before(s) \in Slot
    BY SlotType
  <2>2. CASE s = cur
    <3>1. disk[Before(s)].status = "delivered"
      BY <1>0, <2>2 DEF IInv, WriteAhead
    <3> QED BY <1>1, <2>1, <3>1, SendingFacts, <1>0 DEF Good, Sound
  <2>3. CASE s # cur
    BY <1>1, <2>1, <2>3 DEF IInv, ChainOrder
  <2> QED BY <2>2, <2>3
<1>8. ControlOK' /\ DueOK' /\ InFlightOK' /\ WriteAhead'
  BY <1>0 DEF IInv, ControlOK, DueOK, InFlightOK, WriteAhead
<1> QED BY <1>2, <1>5, <1>6, <1>7, <1>8 DEF IInv

\* ReplyOK keeps the invariant, and does to the file only what Moves allows.
LEMMA ReplyOKInv == IInv /\ ReplyOK => IInv' /\ Moves
<1> SUFFICES ASSUME IInv, ReplyOK PROVE IInv' /\ Moves
  OBVIOUS
<1> DEFINE e == [mem[cur] EXCEPT !.status = "delivered", !.next = 0]
<1>0. pc \in Sending /\ accepted
  BY DEF ReplyOK, Sending
<1>1. e \in ChannelState /\ e.status = "delivered" /\ (Traced(e) <=> Traced(mem[cur]))
  BY <1>0, SendingFacts DEF ChannelState, Status, Open, Terminal, Traced
<1>2. MarkDelivered(mem, cur) = [mem EXCEPT ![cur] = e]
  BY DEF MarkDelivered
<1> HIDE DEF e
<1>3. got[cur] > 0 /\ (got[cur] > 1 => Traced(e))
  BY <1>0, <1>1, SendingFacts DEF IInv, SendOK
<1> QED BY <1>0, <1>1, <1>2, <1>3, OutcomeGood, SettleInv DEF ReplyOK

\* An entry that is marked whatever its receiver has got.
LEMMA TracedOutcome ==
    ASSUME IInv, pc \in Sending, NEW e \in ChannelState,
           e.status \in {"unknown", "blocked", "pending"}, Traced(e)
    PROVE  LET l == [mem EXCEPT ![cur] = e]
           IN  /\ Good(disk, l, got, now)
               /\ \A s \in Slot : l[s].status # "in_flight"
               /\ \A s \in due : l[s].status \notin {"absent", "in_flight", "delivered"}
BY OutcomeGood

\* ReplyCut keeps the invariant, and does to the file only what Moves allows.
LEMMA ReplyCutInv == IInv /\ ReplyCut => IInv' /\ Moves
<1> SUFFICES ASSUME IInv, ReplyCut PROVE IInv' /\ Moves
  OBVIOUS
<1> DEFINE e == [mem[cur] EXCEPT !.status = "unknown", !.dup = TRUE]
           l == MarkUnknown(mem, cur)
           x == Expire(l, ExpiresAt[cur[1]])
<1>0. pc \in Sending
  BY DEF ReplyCut, Sending
<1>1. e \in ChannelState /\ e.status = "unknown" /\ Traced(e)
  BY <1>0, SendingFacts DEF ChannelState, Status, Open, Terminal, Traced
<1>2. l = [mem EXCEPT ![cur] = e]
  BY DEF MarkUnknown
<1>3. /\ Good(disk, l, got, now)
      /\ \A s \in Slot : l[s].status # "in_flight"
      /\ \A s \in due : l[s].status \notin {"absent", "in_flight", "delivered"}
  BY <1>0, <1>1, <1>2, TracedOutcome
<1> HIDE DEF e, l
<1>4. CASE cancelled
  BY <1>0, <1>3, <1>4, SettleInv DEF ReplyCut, l
<1>5. CASE ~cancelled
  <2>1. ExpiresAt[cur[1]] \in Nat /\ ExpiresAt[cur[1]] <= now
    BY <1>0, <1>5, SendingFacts, SlotType DEF ReplyCut, SendDone
  <2>2. Good(disk, x, got, now)
    BY <1>0, <1>3, <2>1, SendingFacts, ExpireGood
  <2>3. \A s \in Slot : x[s] = l[s] \/ x[s].status = "expired"
    BY <1>3 DEF Expire, Good, Ledger, ChannelState
  <2>4. Settle(x)
    BY <1>5 DEF ReplyCut, l
  <2> QED BY <1>0, <1>3, <2>2, <2>3, <2>4, SendingFacts, SettleInv
<1> QED BY <1>4, <1>5

\* ReplyPermanent keeps the invariant, and does to the file only what Moves allows.
LEMMA ReplyPermanentInv == IInv /\ ReplyPermanent => IInv' /\ Moves
<1> SUFFICES ASSUME IInv, ReplyPermanent PROVE IInv' /\ Moves
  OBVIOUS
<1> DEFINE n == Attempted(mem[cur].attempts)
           e == [mem[cur] EXCEPT !.status = "blocked", !.attempts = n, !.next = 0]
<1>0. pc \in Sending
  BY DEF ReplyPermanent, Sending
<1>a. n \in 0 .. MaxAttempts /\ n > 0
  <2>1. n \in 1 .. MaxAttempts
    BY <1>0, SendingFacts, AttemptedType DEF ChannelState
  <2> QED BY <2>1, BoundAssumption
<1> HIDE DEF n
<1>1. e \in ChannelState /\ e.status = "blocked" /\ Traced(e)
  <2>1. mem[cur] \in ChannelState
    BY <1>0, SendingFacts
  <2> QED BY <1>a, <2>1 DEF ChannelState, Status, Open, Terminal, Traced
<1>2. MarkPermanent(mem, cur) = [mem EXCEPT ![cur] = e]
  BY DEF MarkPermanent, n
<1> HIDE DEF e
<1> QED BY <1>0, <1>1, <1>2, TracedOutcome, SettleInv DEF ReplyPermanent

\* ReplyRetryable keeps the invariant, and does to the file only what Moves allows.
LEMMA ReplyRetryableInv == IInv /\ ReplyRetryable => IInv' /\ Moves
<1> SUFFICES ASSUME IInv, NEW after \in RetryAfter, pc = "wire",
                    Settle(MarkRetryable(mem, cur, after, now))
             PROVE  IInv' /\ Moves
  BY DEF ReplyRetryable
<1> DEFINE n == Attempted(mem[cur].attempts)
           delay == IF after > Backoff[n] THEN after ELSE Backoff[n]
           e == [mem[cur] EXCEPT !.status = "pending", !.attempts = n, !.next = now + delay]
<1>0. pc \in Sending
  BY DEF Sending
<1>1. n \in 0 .. MaxAttempts /\ n > 0 /\ delay \in Nat
  <2>1. n \in 1 .. MaxAttempts
    BY <1>0, SendingFacts, AttemptedType DEF ChannelState
  <2>2. Backoff[n] \in Nat
    BY <2>1, BoundAssumption
  <2> QED BY <2>1, <2>2, ReportAssumption, BoundAssumption
<1> HIDE DEF n, delay
<1>2. e \in ChannelState /\ e.status = "pending" /\ Traced(e)
  <2>1. mem[cur] \in ChannelState
    BY <1>0, SendingFacts
  <2>2. now + delay \in Nat
    BY <1>0, <1>1, SendingFacts
  <2> QED BY <1>1, <2>1, <2>2 DEF ChannelState, Status, Open, Terminal, Traced
<1>3. MarkRetryable(mem, cur, after, now) = [mem EXCEPT ![cur] = e]
  BY DEF MarkRetryable, n, delay
<1> HIDE DEF e
<1> QED BY <1>0, <1>2, <1>3, TracedOutcome, SettleInv

\* NoReport keeps the invariant.
LEMMA NoReportInv == IInv /\ NoReport => IInv'
BY ReturnInv DEF NoReport, Return, IInv, TypeOK, LedgersOK, process

\* A session is the last completed one only until its next close, which comes
\* before the retention of its cards ends.
LEMMA WantedOpen ==
    ASSUME IInv, NEW c \in Card, now < NextClose[c]
    PROVE  now < ExpiresAt[c] + Keep
BY SessionAssumption, ReportAssumption, CardAssumption, BoundAssumption DEF IInv, TypeOK

\* Queueing a report keeps the invariant: a card that is added was never sent.
LEMMA EnqueueReportInv ==
    ASSUME IInv, NEW r \in Report, NEW deferred \in BOOLEAN, EnqueueReport(r, deferred)
    PROVE  IInv' /\ Moves
<1> DEFINE open == \A c \in r : now < ExpiresAt[c]
           S == Wanted(mem, r, deferred)
           l == IF open THEN Enqueue(mem, S) ELSE mem
<1>0. pc = "sync" /\ r \subseteq Card /\ now \in Nat /\ got \in [Slot -> Nat]
      /\ Good(disk, mem, got, now)
  BY ReportAssumption, BoundsType DEF EnqueueReport, IInv, TypeOK, LedgersOK, Loaded
<1>1. \A s \in S : s \in Slot => now < ExpiresAt[s[1]] + Keep
  <2> SUFFICES ASSUME NEW s \in S PROVE now < ExpiresAt[s[1]] + Keep
    OBVIOUS
  <2>1. s[1] \in r
    BY DEF Wanted
  <2> QED BY <1>0, <2>1, WantedOpen DEF EnqueueReport
<1>2. Good(disk, l, got, now)
  <2>1. Good(disk, Enqueue(mem, S), got, now)
    BY <1>0, <1>1, EnqueueGood
  <2> QED BY <1>0, <2>1
<1>3. CASE WrittenIfChanged(mem, l) /\ mem' = l /\ pc' = "review"
           /\ asof' \in {AsOf[c] : c \in r} /\ UNCHANGED <<round, flush>>
  <2>1. disk' \in {disk, l} /\ faults' = faults
    BY <1>3 DEF WrittenIfChanged, Written
  <2>2. /\ Good(disk', l, got', now') /\ Good(disk', disk', got', now')
        /\ Follows(disk, disk', now)
    BY <1>2, <2>1, WriteGood DEF IInv, EnqueueReport
  <2>3. asof' \in Nat
    BY <1>0, <1>3, CardAssumption
  <2>4. TypeOK'
    BY <1>3, <2>1, <2>2, <2>3 DEF IInv, TypeOK, EnqueueReport, process, flush, Good, Loaded
  <2>5. LedgersOK' /\ ControlOK' /\ DueOK' /\ InFlightOK' /\ SendOK' /\ WriteAhead' /\ ChainOrder'
    BY <1>0, <1>3, <2>2
    DEF IInv, EnqueueReport, flush, LedgersOK, ControlOK, DueOK, InFlightOK, SendOK, WriteAhead,
        ChainOrder, Loaded, Sending
  <2>6. Moves
    BY <1>3, <2>2 DEF Moves, EnqueueReport
  <2> QED BY <2>4, <2>5, <2>6 DEF IInv
<1>4. CASE WriteFails(l) /\ Return
  <2>1. Good(disk', disk', got', now') /\ Follows(disk, disk', now)
    BY <1>2, <1>4, WriteGood DEF IInv, EnqueueReport, WriteFails
  <2>2. Moves
    BY <1>4, <2>1 DEF Moves, EnqueueReport, Return
  <2> QED BY <1>4, <2>1, <2>2, ReturnInv, BoundsType
          DEF EnqueueReport, Return, WriteFails, Fault, process, IInv, TypeOK
<1> QED BY <1>3, <1>4 DEF EnqueueReport

\* The end of the publishing half of a call, with ledger l in memory.
LEMMA ReviewDoneInv ==
    ASSUME IInv, pc = "review", NEW l, Good(disk, l, got, now), disk' \in {disk, l},
           ReviewDone(l), UNCHANGED <<now, live, cancelled, got>>, faults' \in 0 .. MaxFaults
    PROVE  IInv' /\ Moves
<1>1. /\ Good(disk', l, got', now') /\ Good(disk', disk', got', now')
      /\ Follows(disk, disk', now)
  BY WriteGood DEF IInv
<1>m. Moves
  BY <1>1 DEF Moves, ReviewDone, Return
<1>2. CASE ready
  <2>1. /\ pc' = "flush" /\ round' = 2 /\ mem' = l /\ asof' = 0
        /\ UNCHANGED <<ready, due, cur, accepted>>
    BY <1>2 DEF ReviewDone, flush
  <2>2. TypeOK'
    BY <1>1, <2>1 DEF IInv, TypeOK, Good, Loaded
  <2>3. LedgersOK' /\ ControlOK' /\ DueOK' /\ InFlightOK' /\ SendOK' /\ WriteAhead' /\ ChainOrder'
    BY <1>1, <2>1
    DEF IInv, LedgersOK, ControlOK, DueOK, InFlightOK, SendOK, WriteAhead, ChainOrder, Loaded, Sending
  <2> QED BY <1>m, <2>2, <2>3 DEF IInv
<1>3. CASE ~ready
  BY <1>1, <1>3, <1>m, ReturnInv DEF ReviewDone, Return, IInv, TypeOK
<1> QED BY <1>2, <1>3

\* EnqueueReview keeps the invariant, and does to the file only what Moves allows.
LEMMA EnqueueReviewInv == ASSUME IInv, NEW c \in Review, EnqueueReview(c) PROVE IInv' /\ Moves
<1> DEFINE S == {c} \X (Audience[c] \cap live)
           l == Enqueue(mem, S)
<1>0. /\ pc = "review" /\ c \in Card /\ now \in Nat /\ got \in [Slot -> Nat]
      /\ Good(disk, mem, got, now)
  BY ReportAssumption, BoundsType DEF EnqueueReview, IInv, TypeOK, LedgersOK, Loaded
<1>1. \A s \in S : s \in Slot => now < ExpiresAt[s[1]] + Keep
  BY <1>0, WantedOpen DEF EnqueueReview
<1>2. Good(disk, l, got, now)
  BY <1>0, <1>1, EnqueueGood
<1>3. disk' \in {disk, l} /\ faults' \in 0 .. MaxFaults
  BY BoundsType DEF EnqueueReview, Written, WriteFails, Fault, IInv, TypeOK
<1> QED BY <1>0, <1>2, <1>3, ReviewDoneInv DEF EnqueueReview

\* NoReview keeps the invariant, and does to the file only what Moves allows.
LEMMA NoReviewInv == IInv /\ NoReview => IInv' /\ Moves
BY ReviewDoneInv DEF NoReview, IInv, TypeOK, LedgersOK, Loaded

\* Cancel keeps the invariant.
LEMMA CancelInv == IInv /\ Cancel => IInv'
<1> SUFFICES ASSUME IInv, Cancel PROVE IInv'
  OBVIOUS
<1>1. TypeOK'
  BY BoundsType DEF IInv, TypeOK, Cancel, Fault, flush
<1>2. LedgersOK' /\ ControlOK' /\ DueOK' /\ InFlightOK' /\ SendOK' /\ WriteAhead' /\ ChainOrder'
  BY DEF IInv, Cancel, flush, LedgersOK, ControlOK, DueOK, InFlightOK, SendOK, WriteAhead,
         ChainOrder
<1> QED BY <1>1, <1>2 DEF IInv

\* Crash keeps the invariant.
LEMMA CrashInv == IInv /\ Crash => IInv'
<1> SUFFICES ASSUME IInv, Crash PROVE IInv'
  OBVIOUS
<1>1. Good(disk', disk', got', now') /\ UNCHANGED <<now, got>>
  BY DEF Crash, IInv, LedgersOK
<1>2. faults' \in 0 .. MaxFaults
  BY BoundsType DEF Crash, Fault, IInv, TypeOK
<1> QED BY <1>1, <1>2, ReturnInv DEF Crash

\* RetryCommand keeps the invariant, and does to the file only what Moves allows.
LEMMA RetryCommandInv == ASSUME IInv, NEW S, RetryCommand(S) PROVE IInv' /\ Moves
<1> DEFINE n == Normalize(disk)
           l == Retry(n, S, now)
<1>0. pc = "down" /\ now \in Nat /\ Good(disk, disk, got, now)
  BY DEF RetryCommand, IInv, TypeOK, LedgersOK
<1>1. Good(disk, n, got, now)
  BY <1>0, NormalizeGood
<1>2. Good(disk, l, got, now)
  BY <1>0, <1>1, RetryGood
<1>3. disk' \in {disk, n, l} /\ faults' \in 0 .. MaxFaults
  BY BoundsType DEF RetryCommand, Written, Fault, IInv, TypeOK
<1>4. Good(disk', disk', got', now') /\ Follows(disk, disk', now)
  BY <1>0, <1>1, <1>2, <1>3, WriteGood DEF IInv, RetryCommand
<1>5. TypeOK'
  BY <1>3, <1>4 DEF IInv, TypeOK, RetryCommand, process, flush, Good
<1>6. LedgersOK' /\ ControlOK' /\ DueOK' /\ InFlightOK' /\ SendOK' /\ WriteAhead' /\ ChainOrder'
  BY <1>0, <1>4
  DEF IInv, RetryCommand, flush, LedgersOK, ControlOK, DueOK, InFlightOK, SendOK, WriteAhead,
      ChainOrder, Loaded, Sending
<1>7. Moves
  BY <1>0, <1>4 DEF Moves, RetryCommand
<1> QED BY <1>5, <1>6, <1>7 DEF IInv

\* Tick keeps the invariant.
LEMMA TickInv == IInv /\ Tick => IInv'
<1> SUFFICES ASSUME IInv, Tick PROVE IInv'
  OBVIOUS
<1>0. now \in Nat /\ now' = now + 1 /\ now' \in 0 .. MaxTime
  BY BoundsType DEF IInv, TypeOK, Tick
<1>1. ASSUME NEW d, NEW l, Good(d, l, got, now)
      PROVE  Good(d, l, got, now + 1)
  <2>1. \A s \in Slot : ExpiresAt[s[1]] <= now => ExpiresAt[s[1]] <= now + 1
    BY <1>0, SlotType
  <2>2. \A s \in Slot : ExpiresAt[s[1]] + Keep <= now => ExpiresAt[s[1]] + Keep <= now + 1
    BY <1>0, SlotType
  <2> QED BY <1>1, <2>1, <2>2 DEF Good, Sound, Follows
<1>2. LedgersOK'
  BY <1>0, <1>1 DEF IInv, LedgersOK, Tick
<1>3. TypeOK'
  BY <1>0 DEF IInv, TypeOK, Tick, process, flush
<1>4. ControlOK' /\ DueOK' /\ InFlightOK' /\ SendOK' /\ WriteAhead' /\ ChainOrder'
  BY DEF IInv, Tick, flush, ControlOK, DueOK, InFlightOK, SendOK, WriteAhead, ChainOrder
<1> QED BY <1>2, <1>3, <1>4 DEF IInv

\* Every step keeps the invariant, one lemma for each action.
LEMMA InvStep == IInv /\ [Next]_vars => IInv'
<1> SUFFICES ASSUME IInv, [Next]_vars PROVE IInv'
  OBVIOUS
<1>1. CASE StartSome
  BY <1>1, StartInv DEF StartSome
<1>2. CASE ReadState \/ ReadStateFails \/ Stop
  BY <1>2, ReadStateInv, ReadStateFailsInv, StopInv
<1>3. CASE Flush
  <2>1. CASE OpenFlush \/ LateExpire \/ Launch \/ EndFlush
    BY <2>1, OpenFlushInv, LateExpireInv, LaunchInv, EndFlushInv
  <2>2. CASE \E s \in due : Skip(s) \/ Claim(s)
    BY <2>2, SkipInv, ClaimInv
  <2>3. CASE ReplyOK \/ ReplyCut \/ ReplyPermanent \/ ReplyRetryable
    BY <2>3, ReplyOKInv, ReplyCutInv, ReplyPermanentInv, ReplyRetryableInv
  <2> QED BY <1>3, <2>1, <2>2, <2>3 DEF Flush
<1>4. CASE Publish
  BY <1>4, NoReportInv, EnqueueReportInv, EnqueueReviewInv, NoReviewInv DEF Publish
<1>5. CASE Accept
  BY <1>5, AcceptInv
<1>6. CASE Cancel \/ Crash \/ Tick
  BY <1>6, CancelInv, CrashInv, TickInv
<1>7. CASE RetrySome
  BY <1>7, RetryCommandInv DEF RetrySome
<1>8. CASE UNCHANGED vars
  <2>1. TypeOK' /\ LedgersOK' /\ ControlOK' /\ DueOK' /\ InFlightOK'
    BY <1>8 DEF vars, IInv, TypeOK, LedgersOK, ControlOK, DueOK, InFlightOK
  <2>2. SendOK' /\ WriteAhead' /\ ChainOrder'
    BY <1>8 DEF vars, IInv, SendOK, WriteAhead, ChainOrder
  <2> QED BY <2>1, <2>2 DEF IInv
<1> QED BY <1>1, <1>2, <1>3, <1>4, <1>5, <1>6, <1>7, <1>8 DEF Next, Work

\* Every step is one of three kinds.
LEMMA StepMoves == IInv /\ [Next]_vars => Moves \/ Accept \/ Tick
<1> SUFFICES ASSUME IInv, [Next]_vars, ~Accept, ~Tick PROVE Moves
  OBVIOUS
<1>1. CASE StartSome \/ Stop \/ NoReport \/ Crash
  BY <1>1, StillMoves DEF StartSome, Start, Stop, NoReport, Return, Crash
<1>2. CASE ReadState \/ ReadStateFails
  BY <1>2, ReadStateInv, ReadStateFailsInv
<1>3. CASE OpenFlush \/ LateExpire \/ EndFlush
  BY <1>3, OpenFlushInv, LateExpireInv, EndFlushInv
<1>4. CASE \E s \in due : Skip(s) \/ Claim(s)
  <2>1. ASSUME NEW s \in due, Skip(s) PROVE Moves
    BY <2>1, StillMoves DEF Skip, Turn
  <2> QED BY <1>4, <2>1, ClaimInv
<1>5. CASE Launch
  BY <1>5, StillMoves DEF Launch, flush
<1>6. CASE ReplyOK \/ ReplyCut \/ ReplyPermanent \/ ReplyRetryable
  BY <1>6, ReplyOKInv, ReplyCutInv, ReplyPermanentInv, ReplyRetryableInv
<1>7. CASE (\E r \in Report, deferred \in BOOLEAN : EnqueueReport(r, deferred))
           \/ (\E c \in Review : EnqueueReview(c)) \/ NoReview
  BY <1>7, EnqueueReportInv, EnqueueReviewInv, NoReviewInv
<1>8. CASE Cancel
  BY <1>8, StillMoves DEF Cancel, flush
<1>9. CASE RetrySome
  BY <1>9, RetryCommandInv DEF RetrySome
<1>10. CASE UNCHANGED vars
  BY <1>10, StillMoves DEF vars
<1> QED BY <1>1, <1>2, <1>3, <1>4, <1>5, <1>6, <1>7, <1>8, <1>9, <1>10 DEF Next, Work, Flush, Publish

\* The inductive invariant holds in every state.
LEMMA Invariance == Spec => []IInv
<1>1. Init => IInv
  BY InvInit
<1>2. IInv /\ [Next]_vars => IInv'
  BY InvStep
<1> QED BY <1>1, <1>2, PTL DEF Spec

-----------------------------------------------------------------------------
(* The theorems.                                                            *)

\* Every variable of the monitor's delivery keeps its type.
THEOREM TypeCorrect == Spec => []TypeOK
<1>1. IInv => TypeOK
  BY DEF IInv
<1> QED BY <1>1, Invariance, PTL

\* Nothing is sent that the file does not show as being sent (flushState).
THEOREM WriteAheadHolds == Spec => []WriteAhead
<1>1. IInv => WriteAhead
  BY DEF IInv
<1> QED BY <1>1, Invariance, PTL

\* No receiver sees a page before the card it belongs to (CanDeliver).
THEOREM ChainOrderHolds == Spec => []ChainOrder
<1>1. IInv => ChainOrder
  BY DEF IInv
<1> QED BY <1>1, Invariance, PTL

\* The file tells the truth about what was delivered, and remembers what the
\* receivers got for the whole retention.
THEOREM DeliveredIsTrueHolds == Spec => []DeliveredIsTrue
<1>1. IInv => DeliveredIsTrue
  BY DEF IInv, LedgersOK, Good, Sound, DeliveredIsTrue
<1> QED BY <1>1, Invariance, PTL

\* No receiver gets a second copy, or one the file does not confirm, without a
\* mark of it in the file.
THEOREM NoSilentCopyHolds == Spec => []NoSilentCopy
<1>1. IInv => NoSilentCopy
  BY DEF IInv, LedgersOK, Good, Sound, NoSilentCopy
<1> QED BY <1>1, Invariance, PTL

\* A confirmed delivery is neither reopened nor sent again.
THEOREM ConfirmedIsFinalHolds == Spec => ConfirmedIsFinal
<1> DEFINE Final == \A s \in Slot : disk[s].status = "delivered" =>
              /\ got'[s] = got[s]
              /\ \/ disk'[s].status = "delivered"
                 \/ disk'[s].status = "absent" /\ ExpiresAt[s[1]] + Keep <= now
<1>1. IInv /\ [Next]_vars => [Final]_vars
  <2> SUFFICES ASSUME IInv, [Next]_vars PROVE Final
    OBVIOUS
  <2>1. CASE Moves
    BY <2>1 DEF Moves, Follows
  <2>2. CASE Accept
    <3>1. pc = "wire" /\ pc \in Sending /\ disk' = disk
      BY <2>2 DEF Accept, Sending
    <3>2. \A s \in Slot : s # cur => got'[s] = got[s]
      BY <2>2, <3>1, SendingFacts DEF Accept
    <3> QED BY <3>1, <3>2, SendingFacts
  <2>3. CASE Tick
    BY <2>3 DEF Tick
  <2> QED BY <2>1, <2>2, <2>3, StepMoves
<1> QED BY <1>1, Invariance, PTL DEF Spec, ConfirmedIsFinal

\* Only a process that is ready flushes.
Gate == pc \in {"flush", "loop", "launch", "wire"} => ready

\* flushState runs only in a process that has synchronized.
LEMMA GateInv == Spec => []Gate
<1>1. Init => Gate
  BY DEF Init, Gate
<1>2. ASSUME Gate, [Next]_vars PROVE Gate'
  <2>1. CASE StartSome \/ ReadState \/ ReadStateFails \/ Stop
    BY <1>2, <2>1 DEF Gate, StartSome, Start, ReadState, ReadStateFails, Stop, Return, process
  <2>2. CASE OpenFlush \/ LateExpire \/ Launch \/ EndFlush
    BY <1>2, <2>2 DEF Gate, OpenFlush, LateExpire, Launch, EndFlush, Settle, FlushReturns, Return, process
  <2>3. CASE \E s \in due : Skip(s) \/ Claim(s)
    BY <1>2, <2>3 DEF Gate, Skip, Claim, Turn, FlushReturns, Return, process
  <2>4. CASE ReplyOK \/ ReplyCut \/ ReplyPermanent \/ ReplyRetryable
    BY <1>2, <2>4
    DEF Gate, ReplyOK, ReplyCut, ReplyPermanent, ReplyRetryable, Settle, FlushReturns, Return, process
  <2>5. CASE Publish
    BY <1>2, <2>5 DEF Gate, Publish, NoReport, EnqueueReport, EnqueueReview, NoReview, ReviewDone,
                      Return, process
  <2>6. CASE Accept \/ Cancel \/ Crash \/ RetrySome \/ Tick
    BY <1>2, <2>6 DEF Gate, Accept, Cancel, Crash, RetrySome, RetryCommand, Tick, process
  <2>7. CASE UNCHANGED vars
    BY <1>2, <2>7 DEF Gate, vars
  <2> QED BY <1>2, <2>1, <2>2, <2>3, <2>4, <2>5, <2>6, <2>7 DEF Next, Work, Flush
<1> QED BY <1>1, <1>2, PTL DEF Spec

\* Nothing is sent before the startup synchronization has succeeded, or after
\* the expiry of the card.
THEOREM StartupGateHolds == Spec => StartupGate
<1>1. ASSUME IInv, Gate, [Next]_vars, pc' = "wire", pc # "wire"
      PROVE  ready /\ now < ExpiresAt[cur[1]]
  <2>1. Moves
    BY <1>1, StepMoves DEF Accept, Tick
  <2>2. pc = "launch" \/ pc \in {"flush", "loop"}
    BY <1>1
    DEF Next, vars, StartSome, Start, Work, ReadState, ReadStateFails, Stop, Flush, OpenFlush,
        Skip, Turn, Claim, LateExpire, Launch, EndFlush, ReplyOK, ReplyCut, ReplyPermanent, ReplyRetryable,
        Settle, FlushReturns, Publish, NoReport, EnqueueReport, EnqueueReview, NoReview,
        ReviewDone, Return, Accept, Cancel, Crash, RetrySome, RetryCommand, Tick
  <2> QED BY <1>1, <2>1, <2>2 DEF Moves, Gate
<1>2. ASSUME [Next]_vars, ready', ~ready PROVE pc \in {"down", "review"}
  <2>1. CASE Flush
    BY <1>2, <2>1
    DEF Flush, OpenFlush, Skip, Turn, Claim, LateExpire, Launch, EndFlush, ReplyOK, ReplyCut,
        ReplyPermanent, ReplyRetryable, Settle, process
  <2>2. CASE Publish
    BY <1>2, <2>2 DEF Publish, NoReport, EnqueueReport, EnqueueReview, NoReview, process
  <2>3. CASE StartSome \/ ReadState \/ ReadStateFails \/ Stop
    BY <1>2, <2>3 DEF StartSome, Start, ReadState, ReadStateFails, Stop, process
  <2>4. CASE Accept \/ Cancel \/ Crash \/ RetrySome \/ Tick \/ UNCHANGED vars
    BY <1>2, <2>4 DEF Accept, Cancel, Crash, RetrySome, RetryCommand, Tick, process, vars
  <2> QED BY <1>2, <2>1, <2>2, <2>3, <2>4 DEF Next, Work
<1>3. IInv /\ Gate /\ [Next]_vars =>
         [/\ pc' = "wire" /\ pc # "wire" => ready /\ now < ExpiresAt[cur[1]]
          /\ ready' /\ ~ready => pc \in {"down", "review"}]_vars
  BY <1>1, <1>2
<1> QED BY <1>3, Invariance, GateInv, PTL DEF Spec, StartupGate

-----------------------------------------------------------------------------
(* A second layer: which messages stand in a ledger together.               *)

\* No channel has messages of two reports of one data date.
Single(l) ==
    \A c, d \in Card \ Review : \A ch \in Channel :
        /\ AsOf[c] = AsOf[d]
        /\ l[<<c, ch>>].status # "absent"
        /\ l[<<d, ch>>].status # "absent"
        => \E r \in Report : c \in r /\ d \in r

\* Before a message expires the one it waits for is there, finished or not: the
\* retry command may reopen the message.
Whole(l, t) ==
    \A s \in Slot : Dependent(s) /\ l[s].status # "absent" /\ t < ExpiresAt[s[1]] =>
                       l[Before(s)].status # "absent"

Orderly(l, t) == Chained(l) /\ Whole(l, t) /\ Single(l)

Order ==
    /\ Orderly(disk, now)
    /\ pc \in Loaded => Orderly(mem, now)

\* Ledger m has the entries of ledger l, and opens none that would wait for nothing.
LEMMA OrderlyStep ==
    ASSUME NEW l, NEW m, NEW t, Orderly(l, t),
           \A s \in Slot : m[s].status # "absent" <=> l[s].status # "absent",
           \A s \in Slot : Dependent(s) /\ m[s].status \in Open =>
                          l[s].status \in Open \/ l[Before(s)].status # "absent"
    PROVE  Orderly(m, t)
<1>1. Chained(m)
  BY ChainedStep DEF Orderly
<1>2. Whole(m, t)
  BY SlotType DEF Orderly, Whole
<1>3. Single(m)
  <2>1. \A c \in Card, ch \in Channel : <<c, ch>> \in Slot
    BY DEF Slot
  <2> QED BY <2>1 DEF Orderly, Single
<1> QED BY <1>1, <1>2, <1>3 DEF Orderly

\* Normalize, Expire and Retry leave the entries where they are.
LEMMA OrderlyMarks ==
    ASSUME NEW l \in Ledger, NEW t, Orderly(l, t)
    PROVE  /\ Orderly(Normalize(l), t)
           /\ \A u \in Nat : Orderly(Expire(l, u), t)
           /\ \A S : Orderly(Retry(l, S, t), t)
<1>1. Orderly(Normalize(l), t)
  <2> DEFINE m == Normalize(l)
  <2>1. /\ \A s \in Slot : m[s].status # "absent" <=> l[s].status # "absent"
        /\ \A s \in Slot : m[s].status \in Open => l[s].status \in Open
    BY DEF Normalize, Ledger, ChannelState, Open
  <2> HIDE DEF m
  <2> QED BY <2>1, OrderlyStep DEF m
<1>2. ASSUME NEW u \in Nat PROVE Orderly(Expire(l, u), t)
  <2> DEFINE m == Expire(l, u)
  <2>1. /\ \A s \in Slot : m[s].status # "absent" <=> l[s].status # "absent"
        /\ \A s \in Slot : m[s].status \in Open => l[s].status \in Open
    BY DEF Expire, Ledger, ChannelState, Open
  <2> HIDE DEF m
  <2> QED BY <2>1, OrderlyStep DEF m
<1>3. ASSUME NEW S PROVE Orderly(Retry(l, S, t), t)
  <2> DEFINE m == Retry(l, S, t)
  <2>1. /\ \A s \in Slot : m[s].status # "absent" <=> l[s].status # "absent"
        /\ \A s \in Slot : m[s].status \in Open =>
              l[s].status \in Open \/ (t < ExpiresAt[s[1]] /\ l[s].status # "absent")
    BY DEF Retry, Ledger, ChannelState, Open
  <2>2. \A s \in Slot : Dependent(s) /\ m[s].status \in Open =>
                       l[s].status \in Open \/ l[Before(s)].status # "absent"
    BY <2>1 DEF Orderly, Whole
  <2> HIDE DEF m
  <2> QED BY <2>1, <2>2, OrderlyStep DEF m
<1> QED BY <1>1, <1>2, <1>3

\* Replacing an entry that is there, by one that is unfinished only if it was
\* or if what it waits for is there.
LEMMA OrderlyEntry ==
    ASSUME NEW l \in Ledger, NEW t, Orderly(l, t), NEW r \in Slot, NEW e,
           l[r].status # "absent", e.status # "absent",
           l[r].status \in Open \/ (Dependent(r) => l[Before(r)].status # "absent")
    PROVE  Orderly([l EXCEPT ![r] = e], t)
<1> DEFINE m == [l EXCEPT ![r] = e]
<1>1. m[r] = e /\ \A s \in Slot : s # r => m[s] = l[s]
  BY DEF Ledger
<1> HIDE DEF m
<1>2. /\ \A s \in Slot : m[s].status # "absent" <=> l[s].status # "absent"
      /\ \A s \in Slot : Dependent(s) /\ m[s].status \in Open =>
                         l[s].status \in Open \/ l[Before(s)].status # "absent"
  BY <1>1
<1> QED BY <1>2, OrderlyStep DEF m

\* Prune removes a chain from its end, and not before it has expired.
LEMMA OrderlyPrune ==
    ASSUME NEW l, NEW t \in Nat, Orderly(l, t)
    PROVE  Orderly(Prune(l, t), t)
<1>1. \A s \in Slot : \/ Prune(l, t)[s] = l[s]
                      \/ Prune(l, t)[s] = Absent /\ ~(t < ExpiresAt[s[1]])
  <2>1. \A s \in Slot : ExpiresAt[s[1]] + Keep <= t => ~(t < ExpiresAt[s[1]])
    BY SlotType, BoundAssumption
  <2> QED BY <2>1 DEF Prune, Prunable
<1>2. Chained(Prune(l, t))
  BY ChainedPrune DEF Orderly
<1>3. Whole(Prune(l, t), t)
  <2> SUFFICES ASSUME NEW s \in Slot, Dependent(s), Prune(l, t)[s].status # "absent",
                      t < ExpiresAt[s[1]]
               PROVE  Prune(l, t)[Before(s)].status # "absent"
    BY DEF Whole
  <2>1. Before(s) \in Slot /\ l[Before(s)].status # "absent"
    BY <1>1, SlotType DEF Orderly, Whole
  <2>2. ExpiresAt[Before(s)[1]] = ExpiresAt[s[1]]
    BY SlotType, ChainAssumption DEF Before, Dependent
  <2> QED BY <1>1, <2>1, <2>2
<1>4. Single(Prune(l, t))
  <2>1. \A c \in Card, ch \in Channel :
           Prune(l, t)[<<c, ch>>].status # "absent" => l[<<c, ch>>].status # "absent"
    BY <1>1 DEF Slot, Absent
  <2> QED BY <2>1 DEF Orderly, Single
<1> QED BY <1>2, <1>3, <1>4 DEF Orderly

\* A report is queued with its chains, and only for channels that have no
\* message of its date (pendingChannelNames).
LEMMA OrderlyReport ==
    ASSUME NEW l, NEW t, Orderly(l, t), NEW r \in Report, NEW deferred
    PROVE  Orderly(Enqueue(l, Wanted(l, r, deferred)), t)
<1> DEFINE S == Wanted(l, r, deferred)
           m == Enqueue(l, S)
<1>1. ASSUME NEW s \in Slot, s \in S, Dependent(s) PROVE Before(s) \in S
  <2>1. s \in r \X live /\ s[2] \in Audience[s[1]] /\ ~Recorded(l, AsOf[s[1]], s[2])
        /\ ~(deferred /\ s[1] \in SecondStage)
    BY <1>1 DEF Wanted
  <2>2. /\ DependsOn[s[1]] \in r /\ Audience[s[1]] = Audience[DependsOn[s[1]]]
        /\ s[1] \in SecondStage <=> DependsOn[s[1]] \in SecondStage
    BY <1>1, <2>1, SessionAssumption DEF Dependent
  <2>3. AsOf[DependsOn[s[1]]] = AsOf[s[1]]
    BY <1>1, SlotType, ChainAssumption DEF Dependent
  <2>4. Before(s) \in r \X live /\ Before(s)[1] = DependsOn[s[1]] /\ Before(s)[2] = s[2]
    BY <2>1, <2>2 DEF Before
  <2> QED BY <2>1, <2>2, <2>3, <2>4 DEF Wanted
<1>2. \A s \in Slot : m[s] = l[s] \/ (s \in S /\ m[s].status # "absent")
  BY DEF Enqueue, Fresh
<1>3. \A s \in Slot : l[s].status # "absent" => m[s].status # "absent"
  BY <1>2
<1>4. \A s \in Slot : s \in S => m[s].status # "absent"
  BY DEF Enqueue, Fresh
<1>5. \A s \in S : s[1] \in r /\ ~Recorded(l, AsOf[s[1]], s[2])
  BY DEF Wanted
<1>6. Chained(m)
  BY <1>1, ChainedEnqueue DEF Orderly
<1> HIDE DEF S, m
<1>7. Whole(m, t)
  BY <1>1, <1>2, <1>3, <1>4, SlotType DEF Orderly, Whole
<1>8. Single(m)
  <2> SUFFICES ASSUME NEW c \in Card \ Review, NEW d \in Card \ Review, NEW ch \in Channel,
                      AsOf[c] = AsOf[d],
                      m[<<c, ch>>].status # "absent", m[<<d, ch>>].status # "absent"
               PROVE  \E q \in Report : c \in q /\ d \in q
    BY DEF Single
  <2>1. <<c, ch>> \in Slot /\ <<d, ch>> \in Slot
    BY DEF Slot
  <2>2. CASE <<c, ch>> \in S /\ <<d, ch>> \in S
    BY <1>5, <2>2
  <2>3. CASE <<c, ch>> \notin S /\ <<d, ch>> \notin S
    BY <1>2, <2>1, <2>3 DEF Orderly, Single
  <2>4. CASE <<c, ch>> \in S /\ <<d, ch>> \notin S
    BY <1>2, <1>5, <2>1, <2>4 DEF Recorded
  <2>5. CASE <<c, ch>> \notin S /\ <<d, ch>> \in S
    BY <1>2, <1>5, <2>1, <2>5 DEF Recorded
  <2> QED BY <2>2, <2>3, <2>4, <2>5
<1> QED BY <1>6, <1>7, <1>8 DEF Orderly, m, S

\* A review stands alone.
LEMMA OrderlyReview ==
    ASSUME NEW l, NEW t, Orderly(l, t), NEW c \in Review, NEW T
    PROVE  Orderly(Enqueue(l, {c} \X T), t)
<1> DEFINE S == {c} \X T
           m == Enqueue(l, S)
<1>1. \A s \in Slot : s \in S => ~Dependent(s) /\ s[1] \in Review
  BY SessionAssumption DEF Dependent
<1>2. \A s \in Slot : m[s] = l[s] \/ (s \in S /\ m[s].status # "absent")
  BY DEF Enqueue, Fresh
<1>3. Chained(m)
  BY <1>1, ChainedEnqueue DEF Orderly
<1> HIDE DEF S, m
<1>4. Whole(m, t)
  BY <1>1, <1>2, SlotType DEF Orderly, Whole
<1>5. Single(m)
  <2>1. \A d \in Card \ Review, ch \in Channel : m[<<d, ch>>] = l[<<d, ch>>]
    BY <1>1, <1>2 DEF Slot
  <2> QED BY <2>1 DEF Orderly, Single
<1> QED BY <1>3, <1>4, <1>5 DEF Orderly, m, S

\* A write that happens, or fails before or after its rename.
LEMMA OrderWritten ==
    ASSUME Order, NEW l, Orderly(l, now), disk' \in {disk, l}, now' = now,
           pc' \in Loaded => mem' = l
    PROVE  Order'
BY DEF Order

\* flushState may return with any such ledger.
LEMMA OrderReturns ==
    ASSUME Order, NEW l, Orderly(l, now), disk' \in {disk, l}, now' = now, FlushReturns(l)
    PROVE  Order'
BY OrderWritten DEF FlushReturns, Return, Loaded

\* The outcome of a send is marked and written (Settle).
LEMMA OrderSettles ==
    ASSUME Order, NEW l, Orderly(l, now), Settle(l)
    PROVE  Order'
BY OrderWritten, OrderReturns DEF Settle, Written, WriteFails

\* Every step keeps the order of the ledgers.
LEMMA OrderStep == IInv /\ Order /\ [Next]_vars => Order'
<1> SUFFICES ASSUME IInv, Order, [Next]_vars PROVE Order'
  OBVIOUS
<1>0. /\ now \in Nat /\ disk \in Ledger /\ mem \in Ledger
      /\ Orderly(disk, now) /\ (pc \in Loaded => Orderly(mem, now))
  BY DEF IInv, TypeOK, Order
<1>1. CASE StartSome \/ Stop \/ Crash \/ NoReport
  BY <1>0, <1>1, OrderWritten
  DEF StartSome, Start, Stop, Crash, NoReport, Return, Loaded
<1>2. CASE ReadState \/ ReadStateFails
  <2>1. Orderly(Normalize(disk), now)
    BY <1>0, OrderlyMarks
  <2>2. CASE ReadState
    BY <2>1, <2>2, OrderWritten DEF ReadState, WrittenIfChanged, Written
  <2>3. CASE ReadStateFails
    BY <2>1, <2>3, OrderWritten DEF ReadStateFails, WriteFails, Return, Loaded
  <2> QED BY <1>2, <2>2, <2>3
<1>3. CASE OpenFlush
  <2>1. pc \in Loaded
    BY <1>3 DEF OpenFlush, Loaded
  <2>2. Normalize(mem) \in Ledger /\ Orderly(Normalize(mem), now)
    BY <1>0, <2>1, OrderlyMarks DEF Normalize, Ledger, ChannelState, Status, Open, Terminal
  <2>3. Orderly(Expire(Normalize(mem), now), now)
    BY <1>0, <2>2, OrderlyMarks
  <2>4. Orderly(Prune(Expire(Normalize(mem), now), now), now)
    BY <1>0, <2>3, OrderlyPrune
  <2> QED BY <1>0, <1>3, <2>1, <2>4, OrderWritten, OrderReturns
          DEF OpenFlush, WrittenIfChanged, Written, WriteFails
<1>4. ASSUME NEW s \in due, Skip(s) \/ Claim(s) PROVE Order'
  <2>1. s \in Slot /\ mem[s].status # "absent" /\ pc = "loop" /\ pc \in Loaded
    BY <1>4 DEF IInv, TypeOK, DueOK, Skip, Claim, Turn, Loaded
  <2>2. CASE Skip(s)
    BY <1>0, <2>1, <2>2, OrderWritten DEF Skip
  <2>3. CASE Claim(s)
    <3>1. Dependent(s) => mem[Before(s)].status # "absent"
      BY <2>3 DEF Claim, CanDeliver
    <3>2. Orderly(MarkInFlight(mem, s), now)
      <4>1. mem[s] \in ChannelState
        BY <1>0, <2>1 DEF Ledger
      <4> QED BY <1>0, <2>1, <3>1, <4>1, OrderlyEntry DEF MarkInFlight, ChannelState
    <3> QED BY <1>0, <2>1, <2>3, <3>2, OrderWritten, OrderReturns
            DEF Claim, Written, WriteFails
  <2> QED BY <1>4, <2>2, <2>3
<1>5. CASE Launch \/ Cancel \/ Accept \/ UNCHANGED vars
  BY <1>0, <1>5 DEF Launch, Cancel, Accept, vars, Order, Loaded
<1>6. CASE LateExpire \/ ReplyOK \/ ReplyCut \/ ReplyPermanent \/ ReplyRetryable
  <2>1. /\ pc \in Loaded /\ Orderly(mem, now) /\ cur \in Slot /\ mem[cur] \in ChannelState
        /\ mem[cur].status = "in_flight" /\ ExpiresAt[cur[1]] \in Nat
    <3>1. pc \in Sending /\ pc \in Loaded
      BY <1>6 DEF LateExpire, ReplyOK, ReplyCut, ReplyPermanent, ReplyRetryable, Sending, Loaded
    <3>2. cur \in Slot /\ mem[cur].status = "in_flight"
      BY <3>1 DEF IInv, ControlOK, WriteAhead
    <3> QED BY <1>0, <3>1, <3>2, SlotType DEF Ledger
  <2>2. Orderly(Expire(mem, now), now)
    BY <1>0, <2>1, OrderlyMarks
  <2>3. ASSUME NEW e, e.status # "absent" PROVE Orderly([mem EXCEPT ![cur] = e], now)
    BY <1>0, <2>1, <2>3, OrderlyEntry DEF Open
  <2>4. CASE LateExpire
    BY <2>2, <2>4, OrderSettles DEF LateExpire
  <2>5. CASE ReplyOK
    BY <2>1, <2>3, <2>5, OrderSettles DEF ReplyOK, MarkDelivered, ChannelState
  <2>6. CASE ReplyCut
    <3>1. MarkUnknown(mem, cur) \in Ledger
      BY <1>0, <2>1 DEF MarkUnknown, Ledger, ChannelState, Status, Open
    <3>2. Orderly(MarkUnknown(mem, cur), now)
      BY <2>1, <2>3 DEF MarkUnknown, ChannelState
    <3>3. Orderly(Expire(MarkUnknown(mem, cur), ExpiresAt[cur[1]]), now)
      BY <2>1, <3>1, <3>2, OrderlyMarks
    <3> QED BY <2>6, <3>2, <3>3, OrderSettles DEF ReplyCut
  <2>7. CASE ReplyPermanent
    BY <2>1, <2>3, <2>7, OrderSettles DEF ReplyPermanent, MarkPermanent, ChannelState
  <2>8. CASE ReplyRetryable
    BY <2>1, <2>3, <2>8, OrderSettles DEF ReplyRetryable, MarkRetryable, ChannelState
  <2> QED BY <1>6, <2>4, <2>5, <2>6, <2>7, <2>8
<1>7. CASE EndFlush
  BY <1>0, <1>7, OrderReturns DEF EndFlush, Loaded
<1>8. ASSUME NEW r \in Report, NEW deferred \in BOOLEAN, EnqueueReport(r, deferred) PROVE Order'
  <2> DEFINE l == IF \A c \in r : now < ExpiresAt[c]
                  THEN Enqueue(mem, Wanted(mem, r, deferred)) ELSE mem
  <2>1. Orderly(mem, now)
    BY <1>0, <1>8 DEF EnqueueReport, Loaded
  <2>2. Orderly(l, now)
    BY <2>1, OrderlyReport
  <2>3. disk' \in {disk, l} /\ now' = now /\ (pc' \in Loaded => mem' = l)
    BY <1>8 DEF EnqueueReport, WrittenIfChanged, Written, WriteFails, Return, Loaded
  <2> QED BY <2>2, <2>3, OrderWritten
<1>9. ASSUME NEW c \in Review, EnqueueReview(c) PROVE Order'
  <2> DEFINE l == Enqueue(mem, {c} \X (Audience[c] \cap live))
  <2>1. Orderly(mem, now)
    BY <1>0, <1>9 DEF EnqueueReview, Loaded
  <2>2. Orderly(l, now)
    BY <2>1, OrderlyReview
  <2>3. disk' \in {disk, l} /\ now' = now /\ (pc' \in Loaded => mem' = l)
    BY <1>9 DEF EnqueueReview, Written, WriteFails, ReviewDone, Return, Loaded
  <2> QED BY <2>2, <2>3, OrderWritten
<1>10. CASE NoReview
  BY <1>0, <1>10, OrderWritten DEF NoReview, ReviewDone, Return, Loaded
<1>11. CASE RetrySome
  <2>1. PICK S : RetryCommand(S)
    BY <1>11 DEF RetrySome
  <2>2. Normalize(disk) \in Ledger /\ Orderly(Normalize(disk), now)
    BY <1>0, OrderlyMarks DEF Normalize, Ledger, ChannelState, Status, Open, Terminal
  <2>3. Orderly(Retry(Normalize(disk), S, now), now)
    BY <2>2, OrderlyMarks
  <2> QED BY <1>0, <2>1, <2>2, <2>3 DEF RetryCommand, Written, Order, Loaded
<1>12. CASE Tick
  <2>1. now' = now + 1 /\ UNCHANGED <<disk, mem, pc>>
    BY <1>12 DEF Tick
  <2>2. \A s \in Slot : now' < ExpiresAt[s[1]] => now < ExpiresAt[s[1]]
    BY <1>0, <2>1, SlotType
  <2> QED BY <1>0, <2>1, <2>2 DEF Order, Orderly, Whole
<1> QED BY <1>1, <1>2, <1>3, <1>4, <1>5, <1>6, <1>7, <1>8, <1>9, <1>10, <1>11, <1>12
        DEF Next, Work, Flush, Publish

\* The order of the ledgers holds in every state.
LEMMA OrderInv == Spec => []Order
<1>1. Init => Order
  BY DEF Init, NewLedger, Slot, Order, Orderly, Chained, Whole, Single, Open, Loaded, Absent
<1>2. IInv /\ Order /\ [Next]_vars => Order'
  BY OrderStep
<1> QED BY <1>1, <1>2, Invariance, PTL DEF Spec

\* The file never reaches a state that keeps the monitor from starting, for
\* chains of any length (dependencyPending).
THEOREM LedgerReadableHolds == Spec => []LedgerReadable
<1>1. Order => LedgerReadable
  BY ChainedValid DEF Order, Orderly, Chained, LedgerReadable
<1> QED BY <1>1, OrderInv, PTL

\* No channel gets messages of two reports of one data date (pendingChannelNames).
THEOREM OneReportPerDateHolds == Spec => []OneReportPerDate
<1>1. Order => OneReportPerDate
  BY DEF Order, Orderly, Single, OneReportPerDate
<1> QED BY <1>1, OrderInv, PTL

-----------------------------------------------------------------------------
(* The refinement.                                                          *)

\* The initial states are mapped to initial states of CardPromise.
LEMMA PhaseInit == Init => Promise!Init
<1> SUFFICES ASSUME Init PROVE Promise!Init
  OBVIOUS
<1>1. \A s \in Slot : disk[s].status = "absent"
  BY DEF Init, NewLedger, Absent
<1>2. phaseOf = [s \in Slot |-> "absent"]
  BY <1>1 DEF phaseOf
<1> QED BY <1>2 DEF Init, Promise!Init, Promise!Slot, Slot

\* The mapped record has the type CardPromise expects.
LEMMA PhaseType == TypeOK => phaseOf \in [Slot -> Promise!Phase]
BY DEF TypeOK, phaseOf, Promise!Phase

\* A step of the file is a step of the record of CardPromise.
LEMMA MovesRecord == ASSUME IInv, IInv', Moves PROVE Promise!Record
<1>1. phaseOf' \in [Slot -> Promise!Phase]
  BY PhaseType DEF IInv, phaseOf, TypeOK, Promise!Phase
<1>2. ASSUME NEW s \in Slot, phaseOf'[s] # phaseOf[s]
      PROVE  \/ phaseOf'[s] = "open" /\ Promise!Opens(s)
             \/ phaseOf'[s] = "stopped" /\ Promise!Stops(s)
             \/ phaseOf'[s] = "delivered" /\ Promise!Confirms(s)
             \/ phaseOf'[s] = "absent" /\ Promise!Forgotten(s)
  <2>1. /\ now' = now /\ got' = got /\ now \in Nat /\ got \in [Slot -> Nat]
        /\ disk \in Ledger /\ disk' \in Ledger
        /\ Sound(disk, got, now) /\ Sound(disk', got, now) /\ Follows(disk, disk', now)
    BY BoundsType DEF Moves, IInv, TypeOK, LedgersOK, Good
  <2> DEFINE O == {r \in Slot : Outstanding(r)}
             P == {r \in Slot : Outstanding(r)'}
             x == phaseOf[s]
             y == phaseOf'[s]
             e == disk'
  <2>2. PhaseIs(x, disk[s].status, s \in O) /\ PhaseIs(y, e[s].status, s \in P)
    BY DEF phaseOf, PhaseIs
  <2>3. /\ s \in O => disk[s].status \in Open
        /\ s \in P => e[s].status \in Open
        /\ s \in P => s \in O \/ now < ExpiresAt[s[1]]
    BY <2>1 DEF Outstanding, Moves
  <2>4. x # y /\ e \in Ledger /\ Sound(e, got, now) /\ Follows(disk, e, now)
    BY <1>2, <2>1
  <2> HIDE DEF O, P, x, y, e
  <2>5. Replaces(disk, e, got, now, s, O, P, x, y)
    BY <2>1, <2>2, <2>3, <2>4 DEF Replaces
  <2>6. Advances(got, now, s, x, y)
    BY <2>5, PhaseStep
  <2> QED BY <2>1, <2>6
    DEF Advances, x, y, Promise!Opens, Promise!Expired, Promise!Stops, Promise!Confirms, Promise!Forgotten
<1> QED BY <1>1, <1>2 DEF Promise!Record, Promise!Slot, Slot, Moves

\* A receiver accepts only what the record shows as open and next in its chain.
LEMMA AcceptReceives == ASSUME IInv, Accept PROVE Promise!Receive(cur)
<1>1. /\ pc = "wire" /\ pc \in Sending /\ UNCHANGED <<now, disk, pc, cur>>
      /\ got' = [got EXCEPT ![cur] = IF @ < MaxCopies THEN @ + 1 ELSE @]
  BY DEF Accept, Sending
<1>2. cur \in Slot /\ disk[cur].status = "in_flight"
      /\ (Dependent(cur) => Before(cur) \in Slot /\ disk[Before(cur)].status = "delivered")
  BY <1>1, SendingFacts, SlotType DEF IInv, WriteAhead
<1>3. phaseOf[cur] = "open"
  BY <1>1, <1>2 DEF phaseOf, Outstanding, Open
<1>4. Dependent(cur) => phaseOf[Before(cur)] = "delivered"
  BY <1>2 DEF phaseOf
<1>5. phaseOf' = phaseOf
  BY <1>1 DEF phaseOf, Outstanding
<1> QED BY <1>1, <1>3, <1>4, <1>5 DEF Promise!Receive, Dependent, Before

\* The passing of time is mapped to the passing of time, which stops what expires.
LEMMA TickTicks == ASSUME IInv, Tick PROVE Promise!Tick
<1>1. now \in Nat /\ now' = now + 1 /\ UNCHANGED <<disk, pc, cur, got>>
  BY DEF IInv, TypeOK, Tick, flush
<1>2. phaseOf' \in [Slot -> Promise!Phase]
  BY <1>1, PhaseType DEF IInv, phaseOf, TypeOK, Promise!Phase
<1>3. ASSUME NEW s \in Slot, phaseOf'[s] # phaseOf[s]
      PROVE  phaseOf[s] = "open" /\ phaseOf'[s] = "stopped" /\ ExpiresAt[s[1]] <= now'
  BY <1>1, <1>3, SlotType DEF phaseOf, Outstanding
<1> QED BY <1>1, <1>2, <1>3 DEF Promise!Tick, Promise!Slot, Slot

\* The monitor implements CardPromise: a crash, a failed write or a lost answer
\* never shows through as more than a step or a stutter of the promise.
THEOREM PromiseKept == Spec => KeepsPromise
<1>1. Init => Promise!Init
  BY PhaseInit
<1>2. IInv /\ IInv' /\ [Next]_vars => [Promise!Next]_(Promise!vars)
  <2> SUFFICES ASSUME IInv, IInv', [Next]_vars PROVE Promise!Next
    OBVIOUS
  <2>1. CASE Moves
    BY <2>1, MovesRecord DEF Promise!Next
  <2>2. CASE Accept
    <3>1. cur \in Promise!Slot
      BY <2>2, SendingFacts DEF Accept, Sending, Promise!Slot, Slot
    <3> QED BY <2>2, <3>1, AcceptReceives DEF Promise!Next
  <2>3. CASE Tick
    BY <2>3, TickTicks DEF Promise!Next
  <2> QED BY <2>1, <2>2, <2>3, StepMoves
<1> QED BY <1>1, <1>2, Invariance, PTL DEF Spec, KeepsPromise, Promise!Spec
=============================================================================
