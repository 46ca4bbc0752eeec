--------------------------- MODULE SourceFallback ---------------------------
(***************************************************************************)
(* The market sources (market/sources.go) and the breaker that all stocks  *)
(* share (market/resilience.go).  A call asks the providers of its route   *)
(* in their order; a provider that failed Threshold times in a row cools   *)
(* down, and one probe is let through when the cooldown is over.           *)
(*                                                                         *)
(* Time is relative: a cooldown counts down to 0, an attempt ages up to    *)
(* its budget.  `failures` stays at Threshold, which is all that is read.  *)
(***************************************************************************)
EXTENDS Integers, Sequences, FiniteSets

CONSTANTS
    Caller,     \* the stocks and services that ask at one time
    ProviderRoute,      \* kind of call -> the sequence of its providers
    Threshold,  \* failure_threshold
    Cooldown,   \* failure_cooldown
    Budget,     \* attempt_timeout
    MaxSick     \* bound of the exploration: providers with failures at one time

Kind == {"daily", "status", "calendar", "listing"}
Provider == UNION {{ProviderRoute[k][i] : i \in DOMAIN ProviderRoute[k]} : k \in Kind}

ASSUME SourceAssumption ==
    /\ DOMAIN ProviderRoute = Kind
    /\ \A k \in Kind : ProviderRoute[k] \in Seq(Provider)
    /\ Threshold \in Nat \ {0}
    /\ Cooldown \in Nat \ {0}
    /\ Budget \in Nat \ {0}
    /\ MaxSick \in Nat

VARIABLES
    health,     \* provider -> [failures, cooling, probing]
    call        \* caller -> the call it has under way

sourceVars == <<health, call>>

NotCooling == -1
Sound == [failures |-> 0, cooling |-> NotCooling, probing |-> FALSE]
IdleCall == [pc |-> "idle", kind |-> "daily", at |-> 1, age |-> 0, probe |-> FALSE,
         heard |-> "nothing", cancelled |-> FALSE]

\* What a provider answers: a window, an unusable one (or a refusal that is
\* not worth a retry), a failure of the network, an error of the caller's own.
Heard == {"window", "invalid", "network", "local", "cancelled"}

SourceTypeOK ==
    /\ health \in [Provider -> [failures : 0 .. Threshold,
                                cooling : NotCooling .. Cooldown, probing : BOOLEAN]]
    /\ call \in [Caller -> [pc : {"idle", "next", "flight", "decide"}, kind : Kind, at : Nat,
                            age : 0 .. Budget, probe : BOOLEAN,
                            heard : Heard \cup {"nothing"}, cancelled : BOOLEAN]]
    /\ \A c \in Caller :
         /\ call[c].at \in 1 .. Len(ProviderRoute[call[c].kind]) + 1
         /\ call[c].pc \in {"flight", "decide"} => call[c].at <= Len(ProviderRoute[call[c].kind])

Sick == {p \in Provider : health[p] # Sound}
Here(c) == ProviderRoute[call[c].kind][call[c].at]
AsksAt(c, p) == call[c].pc = "flight" /\ Here(c) = p

SourceInit ==
    /\ health = [p \in Provider |-> Sound]
    /\ call = [c \in Caller |-> IdleCall]

-----------------------------------------------------------------------------
\* Mutant of Available: the probe that is under way is not looked at.
AvailableAgain(p) == health[p].cooling \in {NotCooling, 0}

\* available: a closed breaker lets everybody through, an open one nobody
\* before the cooldown is over and then one probe.
Available(p) == LET h == health[p] IN
    h.cooling = NotCooling \/ (~ h.probing /\ h.cooling = 0)
Admitted(p) == [health[p] EXCEPT !.probing = @ \/ health[p].cooling # NotCooling]

\* record: a failure of the network counts, and renews the cooldown once there
\* are enough; an answer of the provider clears everything; a cancellation or
\* an error of the caller's own does neither, and ends the probe.
AfterAnswer(p, heard) == LET h == health[p]
                          n == IF h.failures < Threshold THEN h.failures + 1 ELSE Threshold
                      IN  CASE heard = "network" ->
                                 [failures |-> n, probing |-> FALSE,
                                  cooling |-> IF n >= Threshold THEN Cooldown ELSE h.cooling]
                            [] heard \in {"window", "invalid"} -> Sound
                            [] OTHER -> [h EXCEPT !.probing = FALSE]

ReturnCall(c) == call' = [call EXCEPT ![c] = IdleCall]

\* Attempt, FetchStatus, FetchTradingDays or Listing is called.
BeginCall(c, k) ==
    /\ call[c].pc = "idle"
    /\ call' = [call EXCEPT ![c] = [IdleCall EXCEPT !.pc = "next", !.kind = k]]
    /\ UNCHANGED health

\* The context of a call is cancelled.
CancelCall(c) ==
    /\ call[c].pc # "idle"
    /\ ~ call[c].cancelled
    /\ call' = [call EXCEPT ![c].cancelled = TRUE]
    /\ UNCHANGED health

\* The next provider of the route is asked, or skipped while it cools down.
AskProvider(c) ==
    /\ call[c].pc = "next"
    /\ call[c].at <= Len(ProviderRoute[call[c].kind])
    /\ ~ call[c].cancelled
    /\ IF Available(Here(c))
       THEN /\ health' = [health EXCEPT ![Here(c)] = Admitted(Here(c))]
            /\ call' = [call EXCEPT ![c].pc = "flight", ![c].age = 0,
                                    ![c].probe = health[Here(c)].cooling # NotCooling]
       ELSE /\ call' = [call EXCEPT ![c].at = @ + 1]
            /\ UNCHANGED health

\* The provider answered, or its budget is over, and the result is recorded.
\* A window whose name or dates are wrong is refused after it was recorded.
ProviderAnswers(c, heard) ==
    /\ call[c].pc = "flight"
    /\ heard = "cancelled" <=> call[c].cancelled
    /\ heard = "network" => Cardinality(Sick \cup {Here(c)}) <= MaxSick
    /\ health' = [health EXCEPT ![Here(c)] = AfterAnswer(Here(c), heard)]
    /\ \E kept \in IF heard = "window" /\ call[c].kind # "listing"
                   THEN {"window", "invalid"} ELSE {heard} :
         call' = [call EXCEPT ![c].pc = "decide", ![c].heard = kept,
                              ![c].probe = FALSE, ![c].age = 0]

\* What the caller does with it.  Only FetchStatus goes on after a window; an
\* error that is not the provider's own never starts another provider.
DecideNext(c) ==
    /\ call[c].pc = "decide"
    /\ UNCHANGED health
    /\ LET heard == call[c].heard
           more == [call[c] EXCEPT !.pc = "next", !.at = @ + 1, !.heard = "nothing"]
           goesOn == \/ heard = "window" /\ call[c].kind = "status"
                     \/ heard \in {"invalid", "network"} /\ call[c].kind # "listing"
       IN  IF goesOn /\ ~ call[c].cancelled
           THEN call' = [call EXCEPT ![c] = more]
           ELSE ReturnCall(c)

\* The route is exhausted, or the call was cancelled before the next provider.
EndOfRoute(c) ==
    /\ call[c].pc = "next"
    /\ UNCHANGED health
    /\ call[c].at > Len(ProviderRoute[call[c].kind]) \/ call[c].cancelled
    /\ ReturnCall(c)

\* Time passes; an attempt does not outlive its budget.
TimePasses ==
    /\ \A c \in Caller : call[c].pc = "flight" => call[c].age < Budget
    /\ health' = [p \in Provider |->
                    [health[p] EXCEPT !.cooling = IF @ > 0 THEN @ - 1 ELSE @]]
    /\ call' = [c \in Caller |->
                  [call[c] EXCEPT !.age = IF call[c].pc = "flight" THEN @ + 1 ELSE @]]

SourceNext ==
    \/ \E c \in Caller, k \in Kind : BeginCall(c, k)
    \/ \E c \in Caller : CancelCall(c)
    \/ \E c \in Caller : AskProvider(c)
    \/ \E c \in Caller, h \in Heard : ProviderAnswers(c, h)
    \/ \E c \in Caller : DecideNext(c)
    \/ \E c \in Caller : EndOfRoute(c)
    \/ TimePasses

SourceSpec == SourceInit /\ [][SourceNext]_sourceVars

-----------------------------------------------------------------------------
(***************************************************************************)
(* Properties.                                                             *)
(***************************************************************************)

\* "One recovery probe after the cooldown, across all stocks": two callers never
\* probe one provider together, whatever else ends meanwhile.  It needs a
\* cooldown that is longer than an attempt: the attempts begun before the
\* breaker opened are then over.  (resilience.go available)
OneProbe ==
    \A p \in Provider, c, d \in Caller :
        AsksAt(c, p) /\ call[c].probe /\ AsksAt(d, p) /\ call[d].probe => c = d
=============================================================================
