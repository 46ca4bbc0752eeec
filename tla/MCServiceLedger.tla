--------------------------- MODULE MCServiceLedger ---------------------------
(***************************************************************************)
(* Instances of ServiceLedger for TLC.                                     *)
(***************************************************************************)
EXTENDS ServiceLedger

CONSTANTS page1, page2, article, later, bot, draft

\* page1 -> page2 and the article are of one target day.  The second page comes
\* when more forecasts were saved; later is of the target day after it.  The
\* predictor has article and later: cards of two bars, which stand alone.
MCBatch ==
    {{page1} \cap Card, {page1, page2} \cap Card, {article} \cap Card, {later} \cap Card} \ {{}}
MCDependsOn == [c \in Card |-> IF c = page2 THEN page1 ELSE NoCard]
MCSequence == [c \in Card |-> IF c = page2 THEN 1 ELSE 0]
MCAsOf == [c \in Card |-> IF c = later THEN 1 ELSE 0]
MCExpiresAt == [c \in Card |-> IF c = later THEN 3 ELSE 2]
MCBackoff == [n \in 0 .. MaxAttempts |-> n]
MCAudience == [c \in Card |-> {IF c = article /\ Owner = "dayrange" THEN draft ELSE bot}]
MCConfiguration == SUBSET Channel
=============================================================================
