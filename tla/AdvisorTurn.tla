---------------------------- MODULE AdvisorTurn ----------------------------
(***************************************************************************)
(* One turn of the dashboard's advisor (internal/advisor, internal/llm,     *)
(* internal/dashboard/advisor.go): a question becomes at most MaxSubIntents *)
(* queries, the queries a bounded bundle of evidence, the bundle an answer  *)
(* that a language model streams.  All of it is told to the browser as it   *)
(* happens, over a connection that may break; the turn's context may end at *)
(* any moment, by the reader's leaving or by the deadline, which is also    *)
(* the connection's.                                                       *)
(*                                                                         *)
(* Abstracted: texts.  A question is the codes and dates it names and what  *)
(* each clause of it is about; an answer is the references it makes.        *)
(***************************************************************************)
EXTENDS Naturals, FiniteSets, SequencesExt

CONSTANTS
    Code, Date,         \* valid stock codes and dates
    NoValue,            \* an empty slot
    Invalid,            \* a slot that does not parse
    MaxSubIntents, MaxEvidencePerIntent, MaxEvidence, MaxEvidenceBytes,
    MaxTurns, MaxRunes, \* sanitizeHistory: turns kept, and runes of them
    MaxHistory,         \* advisorMaxHistory, turns that a request may carry
    MaxDeltas           \* bound: fragments of an answer

VARIABLES
    stage,      \* where run is
    llm,        \* the model is configured and enabled (newAdvisor's snapshot)
    context,    \* "live", "cancelled" or "expired"
    writer,     \* "open" or "broken"
    told,       \* events written to the stream
    understood,      \* resolution.Intents
    left,       \* intents that were not queried yet
    failed,     \* intents whose query failed
    whole,      \* the model's stream ended with [DONE]
    reason      \* the error that run returns, or "none"

turnVars == <<stage, llm, context, writer, told, understood, left, failed, whole, reason>>

Fixed == {"clarify", "unsupported"}
Queried == {"review_explain", "report_query", "stock_evidence", "experiment_query", "methodology"}
Intent == [name : Fixed \cup Queried, code : Code \cup {NoValue, Invalid},
           asof : Date \cup {NoValue, Invalid}]
Bare(name) == [name |-> name, code |-> NoValue, asof |-> NoValue]
Clarify == {Bare("clarify")}

-----------------------------------------------------------------------------
(* Pure parts. *)

\* sanitizeHistory: the last turns that fit, oldest first; the one that no longer
\* fits is cut.  A turn is its number of runes, 0 when it is nobody's or blank.
sanitizeHistory(history) ==
    LET Recall(turn, kept) ==
            LET used == FoldSeq(LAMBDA n, m : n + m, 0, kept)
                room == MaxRunes - used
            IN IF turn = 0 \/ Len(kept) = MaxTurns \/ room = 0 THEN kept
               ELSE <<IF turn > room THEN room ELSE turn>> \o kept
    IN FoldRight(Recall, history, <<>>)

\* decodeAdvisorRequest: a request carries a history and a question, or messages of
\* which the last one of the user is the question.  A turn is [role, content]; blank
\* contents are NoValue.
decodeAdvisorRequest(wire) ==
    LET spoken == {i \in 1 .. Len(wire.messages) :
                       wire.messages[i].role = "user" /\ wire.messages[i].content # NoValue}
        inMessages == wire.question = NoValue /\ wire.messages # <<>>
        lastUserMessage == Max({0} \cup spoken)
        turns == wire.history \o IF inMessages THEN SubSeq(wire.messages, 1, lastUserMessage - 1)
                                 ELSE wire.messages
        repeated == /\ ~inMessages /\ wire.messages # <<>>
                    /\ Last(turns) = [role |-> "user", content |-> wire.question]
        history == IF repeated THEN Front(turns) ELSE turns
    IN [accepted |-> /\ wire.history = <<>> \/ wire.messages = <<>>
                     /\ inMessages => spoken # {}
                     /\ Len(history) <= MaxHistory
                     /\ wire.code # Invalid /\ wire.asof # Invalid,
        question |-> IF inMessages /\ spoken # {} THEN wire.messages[lastUserMessage].content
                     ELSE wire.question,
        history |-> history]

\* ruleClassification: a question q of several clauses, each with the intent that
\* scored best and whether it scored enough.  {} leaves the decision to the model.
ruleClassification(q) ==
    LET sure == {i \in 1 .. Len(q.clauses) : q.clauses[i].high}
    IN CASE q.unsupported -> {Bare("unsupported")}
         [] ~q.unsupported /\ Cardinality(sure) >= 2 ->
                IF q.dependent THEN Clarify ELSE {q.clauses[i].intent : i \in sure}
         [] ~q.unsupported /\ Cardinality(sure) = 1 /\ Len(q.clauses) = 1 ->
                {q.clauses[1].intent}
         [] ~q.unsupported /\ Cardinality(sure) < 2 /\ ~(sure # {} /\ Len(q.clauses) = 1) ->
                IF q.whole.high THEN {q.whole.intent} ELSE {}

\* classifyLLM: what is made of the model's decision, {} when it cannot be read.
\* A model that fails, or says what it may not, leaves a question back.
classifyLLM(reply) ==
    IF /\ ~reply.needsClarification /\ reply.intents # {}
       /\ Cardinality(reply.intents) <= MaxSubIntents
       /\ \A i \in reply.intents : i.code # Invalid /\ i.asof # Invalid
    THEN reply.intents ELSE Clarify

\* An empty slot of an intent is filled from the question or from the request.
fill(intent, req) ==
    LET Take(own, named, given) ==
            IF own # NoValue THEN own
            ELSE IF Cardinality(named) = 1 THEN CHOOSE v \in named : TRUE ELSE given
        filled == [intent EXCEPT
            !.code = Take(@, IF intent.name = "stock_evidence" THEN req.codes ELSE {}, req.code),
            !.asof = Take(@, req.dates, req.asof)]
    IN IF intent.name = "methodology" THEN Bare("methodology") ELSE filled

\* What each kind of query cannot do without.
Answerable(intent) ==
    CASE intent.name \in {"review_explain", "report_query"} -> intent.asof \in Date
      [] intent.name = "stock_evidence" -> intent.code \in Code /\ intent.asof \in Date
      [] intent.name \in {"experiment_query", "methodology", "unsupported"} -> TRUE
      [] intent.name = "clarify" -> FALSE

\* The request and the question name one stock and one date, and the same.
Consistent(req) ==
    /\ req.code # Invalid /\ req.asof # Invalid
    /\ Cardinality(req.codes) <= 1 /\ Cardinality(req.dates) <= 1
    /\ req.code # NoValue => req.codes \subseteq {req.code}
    /\ req.asof # NoValue => req.dates \subseteq {req.asof}

\* resolveIntents: whatever is not answerable, or contradicts itself, becomes a
\* question back.
resolveIntents(req, decision, hasExperiments) ==
    LET named == {i.name : i \in decision}
        Known(i) == IF i.name = "experiment_query" /\ ~hasExperiments
                    THEN [i EXCEPT !.name = "unsupported"] ELSE i
        resolved == {Known(fill(i, req)) : i \in decision}
    IN IF "clarify" \in named THEN Clarify
       ELSE IF "unsupported" \in named THEN {Bare("unsupported")}
       ELSE IF /\ decision # {} /\ Consistent(req)
               /\ \A i \in resolved : Answerable(i)
               /\ \A i, j \in resolved : i.name = j.name => i = j
               /\ Cardinality(resolved) <= MaxSubIntents
            THEN resolved ELSE Clarify

deterministicOnly(intents) == \A i \in intents : i.name \in Fixed

\* evidenceCollector.bundle.  An item is [intent, priority, sequence, bytes].
Outranks(a, b) == a.priority > b.priority \/ (a.priority = b.priority /\ a.sequence < b.sequence)
First(items, n) == {a \in items : Cardinality({b \in items : Outranks(b, a)}) < n}
serializedEvidenceSize(items) == FoldSet(LAMBDA a, n : n + a.bytes, 0, items)
lowestPriority(items) == CHOOSE a \in items : \A b \in items \ {a} : Outranks(b, a)

fitBudget(items) ==
    LET fit[kept \in SUBSET items] ==
            IF serializedEvidenceSize(kept) <= MaxEvidenceBytes \/ kept = {} THEN kept
            ELSE fit[kept \ {lowestPriority(kept)}]
    IN fit[items]

bundle(items) ==
    fitBudget(First(UNION {First({a \in items : a.intent = t}, MaxEvidencePerIntent) :
                           t \in {a.intent : a \in items}}, MaxEvidence))

\* checkCitations: references to ids of the bundle, and others.
checkCitations(answer, ids) ==
    [valid |-> answer \cap ids, invalid |-> answer \ ids, zero |-> answer = {}]

-----------------------------------------------------------------------------
(* The turn. *)

TurnInit ==
    /\ stage = "idle" /\ llm \in BOOLEAN /\ context = "live" /\ writer = "open"
    /\ told = <<>> /\ understood = {} /\ left = {} /\ failed = {}
    /\ whole = FALSE /\ reason = "none"

\* emitEvent: an event that cannot be written ends the turn.
Tell(event, next) ==
    \/ /\ writer = "open" /\ told' = Append(told, event) /\ stage' = next
       /\ UNCHANGED <<writer, reason>>
    \/ /\ writer' = "broken" /\ stage' = "returned" /\ reason' = "emit"
       /\ UNCHANGED told

Fail(why) == stage' = "failing" /\ reason' = why /\ UNCHANGED <<writer, told>>

\* serveAdvisorStream and the checks of run; an invalid body never gets a stream.
AcceptTurn ==
    /\ stage = "idle"
    /\ \/ stage' = "classify" /\ reason' = "none"
       \/ stage' = "failing" /\ reason' \in {"invalid_request", "unknown_role"}
       \/ stage' = "failing" /\ context # "live" /\ reason' = context
    /\ UNCHANGED <<llm, context, writer, told, understood, left, failed, whole>>

\* classify and resolveIntents: the rules decide, or the model is asked.  A model
\* that fails gets the reader a question back, unless the turn itself has ended.
Classified ==
    /\ stage = "classify"
    /\ \/ /\ \E intents \in {{Bare(n) : n \in names} : names \in
                    {{"clarify"}, {"unsupported"}} \cup
                    {s \in SUBSET {"review_explain", "stock_evidence", "methodology", "unsupported"} :
                        s # {} /\ Cardinality(s) <= MaxSubIntents}} :
              understood' = intents /\ left' = intents
          /\ stage' = "intent" /\ UNCHANGED <<reason, writer, told>>
       \/ /\ llm /\ context # "live" /\ Fail(context) /\ UNCHANGED <<understood, left>>
    /\ UNCHANGED <<llm, context, failed, whole>>

\* The events that say what was understood.
TellIntent == stage = "intent" /\ Tell("intent", "plan")
              /\ UNCHANGED <<llm, context, understood, left, failed, whole>>
TellPlan == stage = "plan"
            /\ Tell("plan", IF deterministicOnly(understood) THEN "fixed_evidence" ELSE "query")
            /\ UNCHANGED <<llm, context, understood, left, failed, whole>>

\* queryIntent: a failed query is told and the others go on.  Methodology has none,
\* nor has an experiment query where there are no experiments.
QueryOne(intent) ==
    /\ stage = "query" /\ intent \in left
    /\ \/ /\ context = "live"
          /\ left' = left \ {intent} /\ UNCHANGED <<failed, stage, reason, writer, told>>
       \/ /\ context = "live" /\ intent.name \notin {"methodology", "unsupported"}
          /\ left' = left \ {intent} /\ failed' = failed \cup {intent}
          /\ UNCHANGED <<stage, reason, writer, told>>
       \/ /\ context # "live" /\ Fail(context) /\ UNCHANGED <<left, failed>>
    /\ UNCHANGED <<llm, context, understood, whole>>

AllFailed == failed = understood

\* The evidence event, and what is wrong with it.
TellEvidence ==
    /\ stage = "query" /\ left = {}
    /\ Tell("evidence", IF AllFailed \/ ~llm THEN "no_answer" ELSE "prompt")
    /\ UNCHANGED <<llm, context, understood, left, failed, whole>>

NoAnswer ==
    /\ stage = "no_answer"
    /\ Fail(IF AllFailed THEN "all_intents_failed" ELSE "llm_not_configured")
    /\ UNCHANGED <<llm, context, understood, left, failed, whole>>

TellPrompt == stage = "prompt" /\ Tell("prompt", "generate")
              /\ UNCHANGED <<llm, context, understood, left, failed, whole>>

\* readStream: a fragment is passed on as it comes.
StreamDelta ==
    /\ stage = "generate"
    /\ Cardinality({i \in 1 .. Len(told) : told[i] = "delta"}) < MaxDeltas
    /\ Tell("delta", "generate")
    /\ UNCHANGED <<llm, context, understood, left, failed, whole>>

\* Mutant of Completes: the end of the connection is the end of the answer.
CompletesAtEOF(ending) == ending \in {"DONE", "EOF"}

\* readStream: what ends the stream.  Only [DONE] makes an answer of it.
Completes(ending) == ending = "DONE"

\* classifyRequestError, and run's view of it.
EndReason(ending) ==
    IF context # "live" THEN context
    ELSE IF ending = "timeout" THEN "expired" ELSE "llm_request_failed"

StreamEnds(ending) ==
    /\ stage = "generate"
    /\ whole' = (ending = "DONE")
    /\ IF Completes(ending) THEN stage' = "citation" /\ UNCHANGED <<reason, writer, told>>
       ELSE Fail(EndReason(ending))
    /\ UNCHANGED <<llm, context, understood, left, failed>>

TellCitation == stage = "citation" /\ Tell("citation", "done")
                /\ UNCHANGED <<llm, context, understood, left, failed, whole>>
TellDone == stage = "done" /\ Tell("done", "returned")
            /\ UNCHANGED <<llm, context, understood, left, failed, whole>>

\* finishDeterministic: the same events, without a query or a model.
TellFixed ==
    /\ \/ stage = "fixed_evidence" /\ Tell("evidence", "fixed_prompt")
       \/ stage = "fixed_prompt" /\ Tell("prompt", "fixed_delta")
       \/ stage = "fixed_delta" /\ Tell("delta", "citation")
    /\ UNCHANGED <<llm, context, understood, left, failed, whole>>

\* emitFailure.
TellFailure == stage = "failing" /\ Tell("error", "returned")
               /\ UNCHANGED <<llm, context, understood, left, failed, whole>>

\* The reader leaves, or advisorStreamTimeout passes.
ContextEnds ==
    /\ context = "live" /\ stage # "returned"
    /\ context' \in {"cancelled", "expired"}
    /\ UNCHANGED <<stage, llm, writer, told, understood, left, failed, whole, reason>>

TurnNext ==
    \/ AcceptTurn \/ Classified \/ TellIntent \/ TellPlan \/ TellEvidence \/ NoAnswer
    \/ TellPrompt \/ StreamDelta \/ TellCitation \/ TellDone \/ TellFixed \/ TellFailure
    \/ ContextEnds
    \/ \E intent \in left : QueryOne(intent)
    \/ \E ending \in {"DONE", "EOF", "timeout", "broken"} : StreamEnds(ending)

TurnSpec == TurnInit /\ [][TurnNext]_turnVars

-----------------------------------------------------------------------------
(* Properties. *)

Ending == {"done", "error"}

\* A reader whose connection holds is told exactly once how the turn ended, and
\* nothing after it; "done" is said of a whole answer of which some part did not
\* fail (or of a fixed one), whichever step fails or is cut (run,
\* finishDeterministic, emitFailure, readStream).
OneEnding ==
    /\ \A i \in 1 .. Len(told) : told[i] \in Ending => i = Len(told) /\ stage = "returned"
    /\ stage = "returned" /\ writer = "open" => told # <<>> /\ Last(told) \in Ending
    /\ told # <<>> /\ Last(told) = "done" =>
        deterministicOnly(understood) \/ (whole /\ failed # understood)
    /\ stage = "returned" => (reason = "none" <=> told # <<>> /\ Last(told) = "done")
=============================================================================
