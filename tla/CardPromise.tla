----------------------------- MODULE CardPromise -----------------------------
(***************************************************************************)
(* What a sender of cards promises about its messages, whatever the order  *)
(* of crashes, failed writes, lost answers and operator commands: the      *)
(* specification that MonitorDelivery and ServiceLedger implement.         *)
(*                                                                         *)
(* A message to one channel is recorded once.  While it is open its        *)
(* receiver may get copies of it, but not before the message it depends on *)
(* is confirmed.  A confirmation is true and final.  A message stops when  *)
(* it is refused, withdrawn or expired, which may be before it was ever    *)
(* recorded as open; it can be reopened until it expires.  It is forgotten *)
(* at the end of its retention, not earlier.                               *)
(***************************************************************************)
EXTENDS Naturals

CONSTANTS Card, Channel, NoCard, DependsOn, ExpiresAt, Keep, MaxCopies

VARIABLES
    now,        \* the wall clock
    phase,      \* what the record says of each slot
    got         \* how many copies each receiver has

vars == <<now, phase, got>>

Slot == Card \X Channel
Phase == {"absent", "open", "delivered", "stopped"}

Init ==
    /\ now = 0
    /\ phase = [s \in Slot |-> "absent"]
    /\ got = [s \in Slot |-> 0]

Expired(s) == ExpiresAt[s[1]] <= now
Forgotten(s) == ExpiresAt[s[1]] + Keep <= now

Opens(s) == ~Expired(s) /\ (phase[s] = "stopped" \/ (phase[s] = "absent" /\ got[s] = 0))
Stops(s) == phase[s] \in {"absent", "open"}
Confirms(s) == phase[s] \in {"open", "stopped"} /\ got[s] > 0

\* One write of the record may move several messages; so may the end of a send.
Record ==
    /\ phase' \in [Slot -> Phase]
    /\ \A s \in Slot : phase'[s] # phase[s] =>
          \/ phase'[s] = "open" /\ Opens(s)
          \/ phase'[s] = "stopped" /\ Stops(s)
          \/ phase'[s] = "delivered" /\ Confirms(s)
          \/ phase'[s] = "absent" /\ Forgotten(s)
    /\ UNCHANGED <<now, got>>

Receive(s) ==
    /\ phase[s] = "open"
    /\ DependsOn[s[1]] # NoCard => phase[<<DependsOn[s[1]], s[2]>>] = "delivered"
    /\ got' = [got EXCEPT ![s] = IF @ < MaxCopies THEN @ + 1 ELSE @]
    /\ UNCHANGED <<now, phase>>

\* Messages expire as time passes.
Tick ==
    /\ now' = now + 1
    /\ phase' \in [Slot -> Phase]
    /\ \A s \in Slot : phase'[s] # phase[s] =>
          phase[s] = "open" /\ phase'[s] = "stopped" /\ ExpiresAt[s[1]] <= now'
    /\ UNCHANGED got

Next == Record \/ (\E s \in Slot : Receive(s)) \/ Tick

Spec == Init /\ [][Next]_vars
=============================================================================
