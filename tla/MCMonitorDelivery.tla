-------------------------- MODULE MCMonitorDelivery --------------------------
(***************************************************************************)
(* Instances of MonitorDelivery for TLC.                                   *)
(***************************************************************************)
EXTENDS MonitorDelivery, TLC

CONSTANTS main, detail, other, article, review, next

\* main -> detail, and the second-stage article, are one report of session 0;
\* other is the report of the same session after a refresh; review is the
\* first-stage review of that session, which expires later; next is the report
\* of the session after it.
MCReport == {{main, detail, article} \cap Card, {other} \cap Card, {next} \cap Card} \ {{}}
MCReview == {review} \cap Card
MCSecondStage == {article} \cap Card

MCDependsOn == [c \in Card |-> IF c = detail THEN main ELSE NoCard]
MCSequence ==
    [c \in Card |-> CASE c = detail -> 1 [] c = article -> 2 [] c = review -> 1000
                    [] OTHER -> 0]

\* A session closes at 0, its successor opens at 2 and closes at 3.
MCAsOf == [c \in Card |-> 0]
MCExpiresAt == [c \in Card |-> IF c = review THEN 3 ELSE 2]
MCNextClose == [c \in Card |-> 3]

\* The code doubles a minute per attempt; here an attempt delays by a step.
MCBackoff == [n \in 0 .. MaxAttempts |-> n]

\* A coarser clock, for two sessions: they close at 0 and 2, and their successors
\* open at 1 and 3 and close at 2 and 4.  A backoff is far less than a step.
CoarseAsOf == [c \in Card |-> IF c = next THEN 2 ELSE 0]
CoarseExpiresAt == [c \in Card |-> CASE c = next -> 3 [] c = review -> 3 [] OTHER -> 1]
CoarseNextClose == [c \in Card |-> IF c = next THEN 4 ELSE 2]
CoarseBackoff == [n \in 0 .. MaxAttempts |-> 0]

MCAudience == [c \in Card |-> Channel]
MCConfiguration == SUBSET Channel

Symmetry == Permutations(Channel)
=============================================================================
