-------------------------- MODULE NotifyLedger_proof --------------------------
(***************************************************************************)
(* Lemmas about the operations of the ledger, for every set of cards and   *)
(* channels and every bound: what each of them preserves of the relations  *)
(* between a ledger in memory, the one in the file and what the receivers  *)
(* have got.                                                               *)
(***************************************************************************)
EXTENDS NotifyLedger, TLAPS

\* What ledger l says agrees with what the receivers have got by time t.
Sound(l, g, t) ==
    \A s \in Slot :
        /\ l[s].status = "delivered" => g[s] > 0
        /\ g[s] > 0 /\ l[s].status = "absent" => ExpiresAt[s[1]] + Keep <= t
        /\ g[s] > 0 /\ l[s].status \notin {"absent", "in_flight", "delivered"} => Traced(l[s])
        /\ g[s] > 1 /\ l[s].status # "absent" => Traced(l[s])

\* Ledger l may replace ledger d in the file: no confirmation is lost, nothing
\* disappears before its retention ends, and nothing is confirmed unseen.
Follows(d, l, t) ==
    \A s \in Slot :
        /\ d[s].status = "delivered" => l[s].status \in {"delivered", "absent"}
        /\ l[s].status = "absent" /\ d[s].status # "absent" => ExpiresAt[s[1]] + Keep <= t
        /\ d[s].status = "absent" => l[s].status # "delivered"

Good(d, l, g, t) ==
    /\ d \in Ledger /\ l \in Ledger
    /\ Sound(d, g, t) /\ Sound(l, g, t)
    /\ Follows(d, l, t)

-----------------------------------------------------------------------------
(* The operations of the ledger.                                            *)

\* The parts of a slot, and that its instants are numbers.
LEMMA SlotType ==
    \A s \in Slot : /\ s[1] \in Card
                    /\ s[2] \in Channel
                    /\ ExpiresAt[s[1]] \in Nat
                    /\ ExpiresAt[s[1]] + Keep \in Nat
                    /\ Dependent(s) => Before(s) \in Slot
BY CardAssumption, BoundAssumption DEF Slot, Dependent, Before

\* Counting an attempt stays below the cap.
LEMMA AttemptedType ==
    \A n \in 0 .. MaxAttempts : Attempted(n) \in 1 .. MaxAttempts
BY BoundAssumption DEF Attempted

\* A write of what is in memory loses nothing.
LEMMA WrittenGood ==
    ASSUME NEW d, NEW l, NEW g, NEW t \in Nat, Good(d, l, g, t)
    PROVE  Good(l, l, g, t)
BY DEF Good, Follows, Ledger, ChannelState, Status, Open, Terminal

\* Normalize keeps a ledger consistent with the file and the receivers.
LEMMA NormalizeGood ==
    ASSUME NEW d, NEW l, NEW g, NEW t \in Nat, Good(d, l, g, t)
    PROVE  Good(d, Normalize(l), g, t)
<1>1. Normalize(l) \in Ledger
  BY DEF Good, Normalize, Ledger, ChannelState, Status, Open, Terminal
<1>2. Sound(Normalize(l), g, t)
  BY DEF Good, Sound, Normalize, Traced, Ledger, ChannelState
<1>3. Follows(d, Normalize(l), t)
  BY DEF Good, Follows, Normalize, Ledger, ChannelState, Open
<1> QED BY <1>1, <1>2, <1>3 DEF Good

\* Expire hides what was in_flight, so that has to be traced already.
LEMMA ExpireGood ==
    ASSUME NEW d, NEW l, NEW g, NEW t \in Nat, NEW u \in Nat, u <= t, Good(d, l, g, t),
           \A s \in Slot : l[s].status = "in_flight" /\ g[s] > 0 => Traced(l[s])
    PROVE  Good(d, Expire(l, u), g, t)
<1>1. Expire(l, u) \in Ledger
  BY DEF Good, Expire, Ledger, ChannelState, Status, Open, Terminal
<1>2. Sound(Expire(l, u), g, t)
  BY DEF Good, Sound, Expire, Traced, Ledger, ChannelState
<1>3. Follows(d, Expire(l, u), t)
  BY SlotType DEF Good, Follows, Expire, Ledger, ChannelState, Open
<1> QED BY <1>1, <1>2, <1>3 DEF Good

\* Prune keeps a ledger consistent: what it removes is past its retention.
LEMMA PruneGood ==
    ASSUME NEW d, NEW l, NEW g, NEW t \in Nat, NEW u \in Nat, u <= t, Good(d, l, g, t)
    PROVE  Good(d, Prune(l, u), g, t)
<1>1. Prune(l, u) \in Ledger
  BY BoundAssumption DEF Good, Prune, Absent, Ledger, ChannelState, Status
<1>2. \A s \in Slot : \/ Prune(l, u)[s] = l[s]
                      \/ Prune(l, u)[s] = Absent /\ ExpiresAt[s[1]] + Keep <= t
  BY SlotType DEF Prune, Prunable
<1>3. Sound(Prune(l, u), g, t)
  BY <1>2 DEF Good, Sound, Absent
<1>4. Follows(d, Prune(l, u), t)
  BY <1>2 DEF Good, Follows, Absent
<1> QED BY <1>1, <1>3, <1>4 DEF Good

\* A slot may be enqueued as long as its retention has not ended.
LEMMA EnqueueGood ==
    ASSUME NEW d, NEW l, NEW g \in [Slot -> Nat], NEW t \in Nat, NEW S,
           Good(d, l, g, t),
           \A s \in S : s \in Slot => t < ExpiresAt[s[1]] + Keep
    PROVE  Good(d, Enqueue(l, S), g, t)
<1>1. Enqueue(l, S) \in Ledger
  BY BoundAssumption DEF Good, Enqueue, Fresh, Ledger, ChannelState, Status, Open
<1>2. \A s \in Slot : \/ Enqueue(l, S)[s] = l[s]
                      \/ /\ Enqueue(l, S)[s] = Fresh
                         /\ l[s].status = "absent"
                         /\ ~(ExpiresAt[s[1]] + Keep <= t)
  BY SlotType DEF Enqueue
<1>3. Sound(Enqueue(l, S), g, t)
  <2> SUFFICES ASSUME NEW s \in Slot, Enqueue(l, S)[s] # l[s]
               PROVE  Enqueue(l, S)[s].status = "pending" /\ ~(g[s] > 0) /\ ~(g[s] > 1)
    BY DEF Good, Sound, Traced
  <2>1. Enqueue(l, S)[s].status = "pending" /\ ~(g[s] > 0)
    BY <1>2 DEF Good, Sound, Fresh
  <2> QED BY <2>1
<1>4. Follows(d, Enqueue(l, S), t)
  BY <1>2 DEF Good, Follows, Fresh, Open
<1> QED BY <1>1, <1>3, <1>4 DEF Good

\* The operator's retry changes blocked entries only.
LEMMA RetryGood ==
    ASSUME NEW d, NEW l, NEW g, NEW t \in Nat, NEW S, Good(d, l, g, t)
    PROVE  Good(d, Retry(l, S, t), g, t)
<1>1. Retry(l, S, t) \in Ledger
  BY DEF Good, Retry, Ledger, ChannelState, Status, Open, Terminal
<1>2. Sound(Retry(l, S, t), g, t)
  BY DEF Good, Sound, Retry, Traced, Ledger, ChannelState
<1>3. Follows(d, Retry(l, S, t), t)
  BY DEF Good, Follows, Retry, Ledger, ChannelState, Open
<1> QED BY <1>1, <1>2, <1>3 DEF Good

\* Replacing one entry of the ledger.
LEMMA EntryGood ==
    ASSUME NEW d, NEW l, NEW g \in [Slot -> Nat], NEW t \in Nat, Good(d, l, g, t),
           NEW r \in Slot, NEW e \in ChannelState,
           l[r].status # "absent",
           d[r].status # "delivered",
           d[r].status = "absent" => e.status # "delivered",
           e.status # "absent",
           e.status = "delivered" => g[r] > 0,
           g[r] > 0 /\ e.status \notin {"in_flight", "delivered"} => Traced(e),
           g[r] > 1 => Traced(e)
    PROVE  Good(d, [l EXCEPT ![r] = e], g, t)
<1> DEFINE m == [l EXCEPT ![r] = e]
<1>0. m \in Ledger /\ m[r] = e /\ \A s \in Slot : s # r => m[s] = l[s]
  BY DEF Good, Ledger
<1>1. Sound(m, g, t)
  BY <1>0 DEF Good, Sound
<1>2. Follows(d, m, t)
  BY <1>0 DEF Good, Follows, Open
<1> QED BY <1>0, <1>1, <1>2 DEF Good

-----------------------------------------------------------------------------
(* The order within a chain.                                                *)

\* A message that is not finished has the one it waits for beside it.
Chained(l) ==
    \A s \in Slot : Dependent(s) /\ l[s].status \in Open => l[Before(s)].status # "absent"

\* What neither removes an entry nor opens one keeps the chains.
LEMMA ChainedStep ==
    ASSUME NEW l, NEW m, Chained(l),
           \A s \in Slot : l[s].status # "absent" => m[s].status # "absent",
           \A s \in Slot : Dependent(s) /\ m[s].status \in Open =>
                          l[s].status \in Open \/ l[Before(s)].status # "absent"
    PROVE  Chained(m)
BY SlotType DEF Chained

\* Prune keeps what an unfinished message waits for (dependencyPending).
LEMMA ChainedPrune ==
    ASSUME NEW l, NEW t, Chained(l)
    PROVE  Chained(Prune(l, t))
<1> SUFFICES ASSUME NEW s \in Slot, Dependent(s), Prune(l, t)[s].status \in Open
             PROVE  Prune(l, t)[Before(s)].status # "absent"
  BY DEF Chained
<1>1. Before(s) \in Slot /\ s[1] \in Card /\ s[2] \in Channel
  BY SlotType
<1>2. Prune(l, t)[s] = l[s] /\ l[s].status \in Open
  BY DEF Prune, Absent, Open
<1>3. s = <<s[1], s[2]>>
  BY DEF Slot
<1>4. ~TerminalEvent(l, s[1])
  BY <1>1, <1>2, <1>3 DEF TerminalEvent
<1>5. Before(s)[1] = DependsOn[s[1]]
  BY DEF Before
<1>6. ~Prunable(l, Before(s)[1], t)
  BY <1>1, <1>4, <1>5 DEF Prunable, dependencyPending
<1>7. l[Before(s)].status # "absent"
  BY <1>2 DEF Chained
<1> QED BY <1>1, <1>6, <1>7 DEF Prune

\* A batch that has the whole chain of each of its messages may be added.
LEMMA ChainedEnqueue ==
    ASSUME NEW l, NEW S, Chained(l),
           \A s \in Slot : s \in S /\ Dependent(s) => Before(s) \in S
    PROVE  Chained(Enqueue(l, S))
<1> SUFFICES ASSUME NEW s \in Slot, Dependent(s), Enqueue(l, S)[s].status \in Open
             PROVE  Enqueue(l, S)[Before(s)].status # "absent"
  BY DEF Chained
<1>1. Before(s) \in Slot
  BY SlotType
<1>2. \/ s \in S
      \/ l[s].status \in Open
  BY DEF Enqueue
<1>3. CASE s \in S
  BY <1>1, <1>3 DEF Enqueue, Fresh
<1>4. CASE l[s].status \in Open
  BY <1>1, <1>4 DEF Enqueue, Fresh, Chained
<1> QED BY <1>2, <1>3, <1>4

\* The next start of the process accepts a ledger with its chains.
LEMMA ChainedValid ==
    ASSUME NEW l, Chained(l)
    PROVE  Validate(l)
<1> SUFFICES ASSUME NEW c \in Card, DependsOn[c] # NoCard, ~TerminalEvent(l, c)
             PROVE  Present(l, DependsOn[c])
  BY DEF Validate
<1>1. PICK ch \in Channel : l[<<c, ch>>].status \in Open
  BY DEF TerminalEvent
<1>2. <<c, ch>> \in Slot /\ Dependent(<<c, ch>>) /\ Before(<<c, ch>>) = <<DependsOn[c], ch>>
  BY DEF Slot, Dependent, Before
<1> QED BY <1>1, <1>2 DEF Chained, Present

-----------------------------------------------------------------------------
(* The file as the record of CardPromise.                                   *)

PhaseIs(x, status, outstanding) ==
    x = IF status \in {"absent", "delivered"} THEN status
        ELSE IF outstanding THEN "open" ELSE "stopped"

\* Ledger e replaces ledger d in the file at time t.  That moves message s from
\* phase x to phase y; O and P are the slots outstanding before and after.
Replaces(d, e, g, t, s, O, P, x, y) ==
    /\ d \in Ledger /\ e \in Ledger /\ g \in [Slot -> Nat] /\ t \in Nat /\ s \in Slot
    /\ Sound(d, g, t) /\ Sound(e, g, t) /\ Follows(d, e, t)
    /\ PhaseIs(x, d[s].status, s \in O) /\ PhaseIs(y, e[s].status, s \in P) /\ x # y
    /\ s \in O => d[s].status \in Open
    /\ s \in P => e[s].status \in Open
    /\ s \in P => s \in O \/ t < ExpiresAt[s[1]]

\* The message is opened, stopped, confirmed or forgotten.
Advances(g, t, s, x, y) ==
    \/ /\ y = "open" /\ ~(ExpiresAt[s[1]] <= t)
       /\ x = "stopped" \/ (x = "absent" /\ g[s] = 0)
    \/ y = "stopped" /\ x \in {"absent", "open"}
    \/ y = "delivered" /\ x \in {"open", "stopped"} /\ g[s] > 0
    \/ y = "absent" /\ ExpiresAt[s[1]] + Keep <= t

\* A consistent ledger changes the phase of a message as CardPromise allows.
LEMMA PhaseStep ==
    ASSUME NEW d, NEW e, NEW g, NEW t, NEW s, NEW O, NEW P, NEW x, NEW y,
           Replaces(d, e, g, t, s, O, P, x, y)
    PROVE  Advances(g, t, s, x, y)
<1> USE DEF Replaces, Advances
<1>1. /\ ExpiresAt[s[1]] \in Nat /\ ExpiresAt[s[1]] <= ExpiresAt[s[1]] + Keep
      /\ g[s] \in Nat /\ d[s].status \in Status /\ e[s].status \in Status
  <2>1. ExpiresAt[s[1]] \in Nat /\ Keep \in Nat
    BY SlotType, BoundAssumption
  <2>2. d[s] \in ChannelState /\ e[s] \in ChannelState /\ g[s] \in Nat
    BY DEF Ledger
  <2>3. d[s].status \in Status /\ e[s].status \in Status
    BY <2>2 DEF ChannelState
  <2> QED BY <2>1, <2>2, <2>3
<1>2. /\ d[s].status = "delivered" => e[s].status \in {"delivered", "absent"}
      /\ e[s].status = "absent" /\ d[s].status # "absent" => ExpiresAt[s[1]] + Keep <= t
      /\ d[s].status = "absent" => e[s].status # "delivered"
  BY DEF Follows
<1>3. /\ e[s].status = "delivered" => g[s] > 0
      /\ g[s] > 0 /\ d[s].status = "absent" => ExpiresAt[s[1]] + Keep <= t
  BY DEF Sound
<1>4. CASE y = "open"
  <2>1. s \in P /\ ~(s \in O) /\ d[s].status # "delivered"
    BY <1>2, <1>4 DEF PhaseIs, Open
  <2>2. t < ExpiresAt[s[1]]
    BY <2>1
  <2>3. CASE d[s].status = "absent"
    <3>1. ~(g[s] > 0)
      BY <1>1, <1>3, <2>2, <2>3, SlotType
    <3> QED BY <1>1, <1>4, <2>2, <2>3, <3>1 DEF PhaseIs
  <2>4. CASE d[s].status # "absent"
    BY <1>1, <1>4, <2>1, <2>2, <2>4 DEF PhaseIs
  <2> QED BY <2>3, <2>4
<1>5. CASE y = "stopped"
  BY <1>2, <1>5 DEF PhaseIs
<1>6. CASE y = "delivered"
  BY <1>2, <1>3, <1>6 DEF PhaseIs
<1>7. CASE y = "absent"
  BY <1>2, <1>7 DEF PhaseIs
<1> QED BY <1>4, <1>5, <1>6, <1>7 DEF PhaseIs
=============================================================================
