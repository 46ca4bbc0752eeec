---------------------------- MODULE NotifyLedger ----------------------------
(***************************************************************************)
(* The delivery ledger of internal/notify/notify.go, as operators on a     *)
(* ledger value.  The monitor, the day-range service, the execution card   *)
(* and the predictor each keep a ledger of this type in a file of its own. *)
(*                                                                         *)
(* An event of the code is a Card here.  Its as-of date, sequence number,  *)
(* dependency and expiry are written once, when the event is first         *)
(* enqueued, and the event id is derived from a digest of the report that  *)
(* determines them; they are therefore constants of the card.  A ledger    *)
(* maps each <<card, channel>> slot to its ChannelState; a slot that is    *)
(* "absent" has no entry in event.Channels, and a card all of whose slots  *)
(* are absent has no event.                                                *)
(*                                                                         *)
(* Abstracted: the message payload, Kind and InFlightAt, which no          *)
(* operation of the ledger reads.                                          *)
(***************************************************************************)
EXTENDS Naturals, FiniteSets

CONSTANTS
    Card,           \* event ids
    Channel,        \* channel names
    NoCard,         \* the empty DependsOn
    DependsOn,      \* [Card -> Card \cup {NoCard}]
    Sequence,       \* [Card -> Nat]
    AsOf,           \* [Card -> Nat], the data date of the event
    ExpiresAt,      \* [Card -> Nat], the opening of the T+1 session
    Keep,           \* how long a finished event is kept after it expired
    MaxAttempts,    \* Attempts saturates here (the code's min(Attempts, 8))
    Backoff         \* [0..MaxAttempts -> Nat], 1<<min(attempts, 8) minutes

ASSUME CardAssumption ==
    /\ NoCard \notin Card
    /\ DependsOn \in [Card -> Card \cup {NoCard}]
    /\ Sequence \in [Card -> Nat]
    /\ AsOf \in [Card -> Nat]
    /\ ExpiresAt \in [Card -> Nat]

ASSUME BoundAssumption ==
    /\ Keep \in Nat
    /\ MaxAttempts \in Nat \ {0}
    /\ Backoff \in [0 .. MaxAttempts -> Nat]

\* enqueueCards chains the cards of one report: they share date and expiry,
\* and a card follows the one it depends on.
ASSUME ChainAssumption ==
    \A c \in Card : DependsOn[c] # NoCard =>
        /\ Sequence[DependsOn[c]] < Sequence[c]
        /\ AsOf[DependsOn[c]] = AsOf[c]
        /\ ExpiresAt[DependsOn[c]] = ExpiresAt[c]

-----------------------------------------------------------------------------
Slot == Card \X Channel

Open == {"pending", "in_flight", "unknown"}
Terminal == {"delivered", "blocked", "expired"}
Status == {"absent"} \cup Open \cup Terminal

ChannelState == [status : Status, attempts : 0 .. MaxAttempts,
                 next : Nat, dup : BOOLEAN]

Absent == [status |-> "absent", attempts |-> 0, next |-> 0, dup |-> FALSE]
Fresh  == [status |-> "pending", attempts |-> 0, next |-> 0, dup |-> FALSE]

Ledger == [Slot -> ChannelState]
NewLedger == [s \in Slot |-> Absent]

Present(l, c) == \E ch \in Channel : l[<<c, ch>>].status # "absent"

\* The slot of the same channel that has to be delivered before s.
Before(s) == <<DependsOn[s[1]], s[2]>>
Dependent(s) == DependsOn[s[1]] # NoCard

-----------------------------------------------------------------------------
\* Mutant of Normalize: an interrupted send is not marked as a possible copy.
NormalizeUnmarked(l) ==
    [s \in Slot |-> IF l[s].status = "in_flight"
                    THEN [l[s] EXCEPT !.status = "unknown"]
                    ELSE l[s]]

\* An interrupted send may have reached its receiver.
Normalize(l) ==
    [s \in Slot |-> IF l[s].status = "in_flight"
                    THEN [l[s] EXCEPT !.status = "unknown", !.dup = TRUE]
                    ELSE l[s]]

\* EnqueuePart for a set of slots: an existing entry is never touched.
Enqueue(l, slots) ==
    [s \in Slot |-> IF s \in slots /\ l[s].status = "absent" THEN Fresh ELSE l[s]]

\* Mutant of Expire: only what waits for its first answer expires.
ExpirePending(l, t) ==
    [s \in Slot |->
        IF ExpiresAt[s[1]] <= t /\ l[s].status = "pending"
        THEN [l[s] EXCEPT !.status = "expired", !.next = 0]
        ELSE l[s]]

Expire(l, t) ==
    [s \in Slot |->
        IF ExpiresAt[s[1]] <= t /\ l[s].status \notin {"absent", "delivered", "expired"}
        THEN [l[s] EXCEPT !.status = "expired", !.next = 0]
        ELSE l[s]]

TerminalEvent(l, c) == \A ch \in Channel : l[<<c, ch>>].status \notin Open

dependencyPending(l, c) ==
    \E d \in Card : DependsOn[d] = c /\ ~TerminalEvent(l, d)

\* Mutant of Prunable: a finished event goes at once, whatever waits for it.
PrunableWhenDone(l, c, t) == TerminalEvent(l, c)

Prunable(l, c, t) ==
    /\ ExpiresAt[c] + Keep <= t
    /\ TerminalEvent(l, c)
    /\ ~dependencyPending(l, c)

Prune(l, t) ==
    [s \in Slot |-> IF Prunable(l, s[1], t) THEN Absent ELSE l[s]]

\* Mutant of Due: what was given up is due like the rest.
DueExpired(l, t) ==
    {s \in Slot : /\ t < ExpiresAt[s[1]]
                  /\ l[s].status \in {"pending", "unknown", "expired"}
                  /\ l[s].next <= t}

Due(l, t) ==
    {s \in Slot : /\ t < ExpiresAt[s[1]]
                  /\ l[s].status \in {"pending", "unknown"}
                  /\ l[s].next <= t}

\* The order in which Due returns two deliveries (ties are broken by name).
Precedes(r, s) ==
    \/ AsOf[r[1]] < AsOf[s[1]]
    \/ AsOf[r[1]] = AsOf[s[1]] /\ Sequence[r[1]] < Sequence[s[1]]

\* Mutant of CanDeliver: it is enough that the dependency was enqueued.
CanDeliverEarly(l, s) ==
    /\ Present(l, s[1])
    /\ Dependent(s) => l[Before(s)].status # "absent"

CanDeliver(l, s) ==
    /\ Present(l, s[1])
    /\ Dependent(s) => l[Before(s)].status = "delivered"

MarkInFlight(l, s) == [l EXCEPT ![s] = [@ EXCEPT !.status = "in_flight"]]

MarkDelivered(l, s) ==
    [l EXCEPT ![s] = [@ EXCEPT !.status = "delivered", !.next = 0]]

MarkUnknown(l, s) ==
    [l EXCEPT ![s] = [@ EXCEPT !.status = "unknown", !.dup = TRUE]]

Attempted(n) == IF n < MaxAttempts THEN n + 1 ELSE MaxAttempts

MarkPermanent(l, s) ==
    [l EXCEPT ![s] = [@ EXCEPT !.status = "blocked",
                               !.attempts = Attempted(l[s].attempts), !.next = 0]]

\* Every other failure is tried again, after the backoff or after what the
\* receiver asked for, whichever is later.
MarkRetryable(l, s, retryAfter, t) ==
    LET n == Attempted(l[s].attempts)
        delay == IF retryAfter > Backoff[n] THEN retryAfter ELSE Backoff[n]
    IN  [l EXCEPT ![s] = [@ EXCEPT !.status = "pending", !.attempts = n,
                                   !.next = t + delay]]

\* Mutant of Retry: confirmed deliveries are reopened too.
RetryDelivered(l, channels, t) ==
    [s \in Slot |->
        IF s[2] \in channels /\ l[s].status \in {"blocked", "delivered"} /\ t < ExpiresAt[s[1]]
        THEN [l[s] EXCEPT !.status = "pending", !.next = 0]
        ELSE l[s]]

\* The operator's retry of blocked deliveries: of one channel or of all.
Retry(l, channels, t) ==
    [s \in Slot |->
        IF s[2] \in channels /\ l[s].status = "blocked" /\ t < ExpiresAt[s[1]]
        THEN [l[s] EXCEPT !.status = "pending", !.next = 0]
        ELSE l[s]]

\* A ledger whose unfinished event lost its dependency is refused.
Validate(l) ==
    \A c \in Card : (DependsOn[c] # NoCard /\ Present(l, c)) =>
        Present(l, DependsOn[c]) \/ TerminalEvent(l, c)

-----------------------------------------------------------------------------
\* An entry that tells its reader that the receiver may have a copy, by its
\* possibly_duplicate mark or its failed attempts.
Traced(e) == e.dup \/ e.attempts > 0
=============================================================================
