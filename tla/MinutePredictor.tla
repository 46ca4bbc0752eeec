--------------------------- MODULE MinutePredictor ---------------------------
(***************************************************************************)
(* The five-minute predictor over one trading day (internal/predictor/      *)
(* monitor.go: Run, PredictOnce, reconcile, Train and the two cards;        *)
(* internal/predictor/db.go).  One loop turns every few seconds; the        *)
(* intraday monitor makes bars final, late perhaps and each stock at its    *)
(* own time.  What becomes of a queued card is the matter of ServiceLedger. *)
(*                                                                          *)
(* Time is counted in bars: at time t the bar that ends at t is over.       *)
(* Prices, features, trees and the Kalman state are left out; a row of      *)
(* predictions is known by its stock, target and model.                     *)
(***************************************************************************)
EXTENDS Naturals, FiniteSets

CONSTANTS
    Pick,           \* the stocks of the pool
    InputBar,       \* the bars a next one is predicted from: not the last before
                    \* lunch, not the last of the day
    DayEnd,         \* the bar that ends at 15:00
    Grace,          \* actualGrace
    MaxUnreadable,  \* bound: starts at which the model cannot be read
    MaxPickFaults   \* bound: failed writes and restarts

ASSUME PredictorAssumption ==
    /\ DayEnd \in Nat \ {0} /\ Grace \in Nat
    /\ InputBar \subseteq 1 .. DayEnd - 1

NoModel == 0
Models == 1 .. MaxUnreadable + 1

VARIABLES
    bell,       \* the time, in bars
    finals,     \* intraday_bar: <<stock, bar>> that are final
    selected,   \* the selection of today's report, as it is stored
    universe,   \* reportCache: the selection the process goes by, or {}
    pointer,    \* models/intraday/current.json: the model, or NoModel
    loaded,     \* m.model
    attempt,    \* lastAttemptEnd
    rows,       \* prediction: [code, target, model]
    outcome,    \* prediction_actual: row -> "resolved" or "unresolved"
    cards,      \* the ledger: target -> the model of its prediction card, or NoModel
    deviations, \* the ledger: target -> the model of its deviation card, or NoModel
    turn,       \* where the turn is: [pc, at, plan, todo]
    unreadable, pfaults

store == <<finals, selected, pointer, rows, outcome, cards, deviations>>
memory == <<universe, loaded, attempt>>
pickVars == <<bell, store, memory, turn, unreadable, pfaults>>

Bars == 1 .. DayEnd
Waiting == [pc |-> "wait", at |-> 0, plan |-> {}, todo |-> {}]
Of(target, model) == {r \in rows : r.target = target /\ r.model = model}

PickInit ==
    /\ bell = 0
    /\ finals = {} /\ rows = {} /\ outcome = <<>>
    /\ selected \in (SUBSET Pick) \ {{}} /\ universe = {}
    /\ pointer \in {NoModel, 1} /\ loaded = pointer     \* trained yesterday, or not
    /\ attempt = 0
    /\ cards = [b \in Bars |-> NoModel] /\ deviations = [b \in Bars |-> NoModel]
    /\ turn = Waiting
    /\ unreadable = 0 /\ pfaults = 0

\* A write that fails, or the process that dies.
Trouble == pfaults < MaxPickFaults /\ pfaults' = pfaults + 1

\* reconcile reads the statuses by stock and bar: of two models' rows one wins.
KnownStatuses ==
    {k \in [{<<r.code, r.target>> : r \in DOMAIN outcome} -> {"resolved", "unresolved"}] :
        \A key \in DOMAIN k : \E r \in DOMAIN outcome :
            <<r.code, r.target>> = key /\ outcome[r] = k[key]}

\* Mutant of PlanOf: a bar that never became final leaves no actual.
PlanOfFinals(k, when) ==
    {<<r, "resolved">> : r \in {x \in rows :
        /\ x.target <= when
        /\ ~(<<x.code, x.target>> \in DOMAIN k /\ k[<<x.code, x.target>>] = "resolved")
        /\ <<x.code, x.target>> \in finals}}

\* What it will write of a row: resolved when the bar is final, unresolved when
\* it is not by the end of the day.
PlanOf(k, when) ==
    LET known(r) == LET key == <<r.code, r.target>> IN
                     IF key \in DOMAIN k THEN k[key] ELSE "none"
        due == {r \in rows : r.target <= when /\ known(r) # "resolved"}
    IN  {<<r, "resolved">> : r \in {x \in due : <<x.code, x.target>> \in finals}}
        \cup {<<r, "unresolved">> : r \in {x \in due : /\ <<x.code, x.target>> \notin finals
                                                      /\ when >= DayEnd + Grace
                                                      /\ known(x) # "unresolved"}}

\* The turn begins: the clock is read, a missing model is trained for today
\* before the close (trainingDue, Train), or the training fails.
StartTurn ==
    /\ turn.pc = "wait"
    /\ \/ /\ loaded = NoModel /\ bell < DayEnd
          /\ loaded' = unreadable + 1 /\ pointer' = unreadable + 1
          /\ attempt' = 0
       \/ UNCHANGED <<loaded, pointer, attempt>>
    /\ \E k \in KnownStatuses :
          turn' = [pc |-> "reconcile", at |-> bell, plan |-> PlanOf(k, bell), todo |-> {}]
    /\ UNCHANGED <<bell, finals, selected, universe, rows, outcome, cards, deviations,
                   unreadable, pfaults>>

\* InsertActual, one row after the other.
InsertActual ==
    /\ turn.pc = "reconcile" /\ turn.plan # {}
    /\ \E p \in turn.plan :
          /\ outcome' = [r \in DOMAIN outcome \cup {p[1]} |-> IF r = p[1] THEN p[2] ELSE outcome[r]]
          /\ turn' = [turn EXCEPT !.plan = @ \ {p}]
    /\ UNCHANGED <<bell, finals, selected, pointer, rows, cards, deviations, memory,
                   unreadable, pfaults>>

\* No slot, no model, or no report yet: the turn is over.
NothingToPredict ==
    /\ turn.pc = "reconcile" /\ turn.plan = {}
    /\ turn.at \notin InputBar \/ loaded = NoModel
    /\ turn' = Waiting
    /\ UNCHANGED <<bell, store, memory, unreadable, pfaults>>

\* Mutant of ActualsReady: a prediction is enough.
ActualsReadyPredicted(target) ==
    \A c \in universe' : [code |-> c, target |-> target, model |-> loaded] \in rows

\* actualsReady: every selected stock was predicted by this model for this bar,
\* and the actual is resolved.
ActualsReady(target) ==
    \A c \in universe' : LET r == [code |-> c, target |-> target, model |-> loaded] IN
        r \in rows /\ r \in DOMAIN outcome /\ outcome[r] = "resolved"

\* enqueueDeviationCard for the bar that is over, then reportForToday and
\* loadData; the rows still to predict are those whose input bar is final.
BeginPrediction ==
    LET target == turn.at + 1
        fresh == IF attempt = target THEN {}
                 ELSE {c \in universe' : <<c, turn.at>> \in finals}
    IN  /\ turn.pc = "reconcile" /\ turn.plan = {}
        /\ turn.at \in InputBar /\ loaded # NoModel
        /\ universe' = IF universe = {} THEN selected ELSE universe
        /\ deviations' = IF /\ Of(turn.at, loaded) # {}
                            /\ cards[turn.at] # NoModel
                            /\ deviations[turn.at] = NoModel
                            /\ ActualsReady(turn.at)
                         THEN [deviations EXCEPT ![turn.at] = loaded] ELSE deviations
        /\ turn' = [turn EXCEPT !.pc = "predict", !.todo = fresh]
        /\ UNCHANGED <<bell, finals, selected, pointer, rows, outcome, cards, loaded, attempt,
                       unreadable, pfaults>>

\* InsertPrediction: a row that is there stays.
InsertPrediction ==
    /\ turn.pc = "predict" /\ turn.todo # {}
    /\ \E c \in turn.todo :
          /\ rows' = rows \cup {[code |-> c, target |-> turn.at + 1, model |-> loaded]}
          /\ turn' = [turn EXCEPT !.todo = @ \ {c}]
    /\ UNCHANGED <<bell, finals, selected, pointer, outcome, cards, deviations, memory,
                   unreadable, pfaults>>

\* predictionsReady and enqueuePredictionCard, of what this model has for the
\* target; a card that is queued stays as it is.
EndPrediction ==
    LET target == turn.at + 1
        current == Of(target, loaded)
    IN  /\ turn.pc = "predict" /\ turn.todo = {}
        /\ attempt' = IF universe \subseteq {r.code : r \in current} THEN target ELSE attempt
        /\ cards' = IF current # {} /\ cards[target] = NoModel
                    THEN [cards EXCEPT ![target] = loaded] ELSE cards
        /\ turn' = Waiting
        /\ UNCHANGED <<bell, finals, selected, pointer, rows, outcome, deviations, universe,
                       loaded, unreadable, pfaults>>

\* A write or a read fails: PredictOnce returns the error.
TurnFails ==
    /\ turn.pc # "wait"
    /\ Trouble
    /\ turn' = Waiting
    /\ UNCHANGED <<bell, store, memory, unreadable>>

\* The process is started again; at times the model cannot be read (loadModel,
\* whose error is only logged).
PredictorRestarts ==
    /\ Trouble
    /\ universe' = {} /\ attempt' = 0
    /\ \/ loaded' = pointer /\ UNCHANGED unreadable
       \/ unreadable < MaxUnreadable /\ unreadable' = unreadable + 1 /\ loaded' = NoModel
    /\ turn' = Waiting
    /\ UNCHANGED <<bell, store>>

\* SaveMinutes of the intraday monitor.
BarIsFinal ==
    /\ \E c \in Pick, b \in Bars :
          b <= bell /\ <<c, b>> \notin finals /\ finals' = finals \cup {<<c, b>>}
    /\ UNCHANGED <<bell, selected, pointer, rows, outcome, cards, deviations, memory, turn,
                   unreadable, pfaults>>

\* The report of today is made again, with another selection.
ReportIsRefreshed ==
    /\ Trouble
    /\ selected' \in (SUBSET Pick) \ {{}, selected}
    /\ UNCHANGED <<bell, finals, pointer, rows, outcome, cards, deviations, memory, turn, unreadable>>

\* A turn may last longer than its bar.
BellRings ==
    /\ bell < DayEnd + Grace
    /\ bell' = bell + 1
    /\ UNCHANGED <<store, memory, turn, unreadable, pfaults>>

TurnGoesOn ==
    \/ StartTurn \/ InsertActual \/ NothingToPredict
    \/ BeginPrediction \/ InsertPrediction \/ EndPrediction

PickNext ==
    \/ TurnGoesOn
    \/ TurnFails \/ PredictorRestarts \/ BarIsFinal \/ ReportIsRefreshed \/ BellRings

PickSpec == PickInit /\ [][PickNext]_pickVars

\* The loop keeps turning and time goes on; faults end.  A bar may stay open.
FairPickSpec ==
    /\ PickSpec
    /\ WF_pickVars(TurnGoesOn)
    /\ WF_pickVars(BellRings)

-----------------------------------------------------------------------------
PickTypeOK ==
    /\ bell \in 0 .. DayEnd + Grace
    /\ finals \subseteq Pick \X Bars
    /\ selected \in (SUBSET Pick) \ {{}} /\ universe \subseteq Pick
    /\ pointer \in Models \cup {NoModel} /\ loaded \in Models \cup {NoModel}
    /\ attempt \in 0 .. DayEnd
    /\ rows \subseteq [code : Pick, target : Bars, model : Models]
    /\ DOMAIN outcome \subseteq rows
    /\ \A r \in DOMAIN outcome : outcome[r] \in {"resolved", "unresolved"}
    /\ cards \in [Bars -> Models \cup {NoModel}]
    /\ deviations \in [Bars -> Models \cup {NoModel}]
    /\ turn.pc \in {"wait", "reconcile", "predict"} /\ turn.todo \subseteq Pick

(***************************************************************************)
(* A deviation card follows the prediction card of its bar, and what it     *)
(* compares is there: of its model a prediction for the bar, and an actual  *)
(* that is resolved by a final bar (docs/minute-predictor.md, section 6),   *)
(* whatever happened to the report, the process or the bars in between.     *)
(***************************************************************************)
DeviationIsGrounded ==
    \A b \in Bars : deviations[b] # NoModel =>
        /\ cards[b] # NoModel
        /\ \E r \in Of(b, deviations[b]) :
              /\ r \in DOMAIN outcome /\ outcome[r] = "resolved"
              /\ <<r.code, b>> \in finals

(***************************************************************************)
(* Every prediction gets its actual, resolved or not (docs/minute-          *)
(* predictor.md:83: prediction_actual holds "the actual value and the       *)
(* state of the error after the target bar").                               *)
(***************************************************************************)
EveryPredictionIsAnswered == []<>(rows \subseteq DOMAIN outcome)
=============================================================================
