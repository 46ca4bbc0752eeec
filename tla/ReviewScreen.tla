---------------------------- MODULE ReviewScreen ----------------------------
(***************************************************************************)
(* The review page (internal/dashboard/static/review.js): a date, one of    *)
(* its revisions, a stock, the stock's detail, a conversation with a role   *)
(* and an analysis, all about the same thing.  Loads overlap: a load that   *)
(* is begun aborts the one before it, an event may be loaded inside the     *)
(* load of its day, the reader clicks while answers are on their way, and   *)
(* an answer is streamed for minutes.                                      *)
(*                                                                         *)
(* A handler runs until it awaits; the part after is an action of its own.  *)
(* What it returns to is kept in a record of calls.                        *)
(***************************************************************************)
EXTENDS Integers, FiniteSets, SequencesExt

CONSTANTS
    Day,            \* dates of reports, small numbers: the latest is the largest
    Stock,          \* codes
    Role,           \* roles of the conversation
    Nothing,        \* no date, code, role, day or stream
    MaxRevisions,   \* bound: revisions of one date
    MaxInputs,      \* bound: what the reader and the publisher do
    MaxTalk         \* bound: messages of a thread

ASSUME ScreenAssumption ==
    /\ Day \subseteq Nat \ {0} /\ IsFiniteSet(Day)
    /\ MaxRevisions \in Nat \ {0} /\ MaxInputs \in Nat /\ MaxTalk \in Nat

VARIABLES
    published,      \* server: [Day -> revisions of the date; 0: no report]
    requested,      \* what the address asked for: date, revision (0: none) and code
    asOf, revision, \* state.asOf, state.revision; 0 stands for the current one
    selectedCode,
    day,            \* state.day: its date, revision, events and known revisions
    currentEvent,   \* the event whose detail is shown
    dayRequest, eventRequest,
    calls,          \* handlers that await an answer
    selects,        \* the date and revision selects are enabled
    refreshing, initialized,
    ai,             \* state.llm: mode, and whether it is loading or being saved
    roleId,
    thread,         \* state.master.threads of the role
    streams,        \* ["master", "analysis" -> the stream that runs]
    analysis,       \* what is shown of the analysis: whom it is about, and its end
    inputs

screenVars == <<published, requested, asOf, revision, selectedCode, day, currentEvent,
                dayRequest, eventRequest, calls, selects, refreshing, initialized, ai,
                roleId, thread, streams, analysis, inputs>>
contextVars == <<asOf, revision, selectedCode>>
loadVars == <<day, currentEvent, dayRequest, eventRequest, calls, selects, refreshing, initialized>>
talkVars == <<ai, roleId, thread, streams, analysis>>

-----------------------------------------------------------------------------
(* Calls. *)

\* by: what began it; at: the answer it waits for; old: the date shown when a refresh
\* began to load its day.
Call(beginner, stage) == [by |-> beginner, at |-> stage, asOf |-> Nothing, revision |-> 0, focus |-> Nothing,
                 old |-> Nothing, request |-> 0, event |-> 0, aborted |-> FALSE]

\* buildMasterPayload, analysisPayload: what a question is about.  "early": it was
\* asked before the first load ended.
About == [asOf |-> asOf, revision |-> revision, code |-> selectedCode, role |-> roleId,
          early |-> ~initialized]

NoStreams == [s \in {"master", "analysis"} |-> Nothing]
aiReady == ai.mode = "configured"

\* createStreamView.
View == [about |-> About, aborted |-> FALSE, text |-> FALSE, had |-> FALSE, done |-> FALSE, failed |-> FALSE]

\* Mutant of ForgetAnswers: the analysis is left alone.
ForgetThreads ==
    /\ streams' = [streams EXCEPT !["master"] = Nothing]
    /\ thread' = <<>>
    /\ UNCHANGED <<ai, roleId, analysis>>

\* resetAnalysis and clearMasterThreads: the streams are silenced and aborted, and
\* what they still say is written nowhere.
ForgetAnswers ==
    /\ streams' = NoStreams
    /\ analysis' = Nothing
    /\ thread' = <<>>
    /\ UNCHANGED <<ai, roleId>>

-----------------------------------------------------------------------------
(* Loading a day and an event. *)

\* loadDay, to its request: the load before is aborted, and a day that is not known
\* to be the one asked for is no longer shown.
LoadDay(handler, date, rev, focus, others) ==
    LET kept == day # Nothing /\ day.asOf = date /\ day.revision = rev
        aborted == {IF c.at = "day" THEN [c EXCEPT !.aborted = TRUE] ELSE c : c \in others}
    IN /\ dayRequest' = dayRequest + 1
       /\ asOf' = date /\ revision' = rev
       /\ day' = IF kept THEN day ELSE Nothing
       /\ calls' = aborted \cup {[handler EXCEPT !.at = "day", !.asOf = date, !.revision = rev,
                                              !.focus = focus, !.request = dayRequest + 1]}
       /\ selects' = FALSE
       /\ UNCHANGED eventRequest

\* selectEvent, to its request, from the handler that is recorded as handler.
SelectEvent(handler, code, others) ==
    /\ selectedCode' = code
    /\ currentEvent' = Nothing
    /\ IF selectedCode # code /\ initialized THEN ForgetAnswers ELSE UNCHANGED talkVars
    /\ eventRequest' = eventRequest + 1
    /\ calls' = {IF c.at = "event" THEN [c EXCEPT !.aborted = TRUE] ELSE c : c \in others}
                \cup {[handler EXCEPT !.at = "event", !.event = eventRequest + 1, !.focus = code,
                                   !.asOf = asOf, !.revision = revision]}

\* The finally of loadDay: only the last load gives the selects back.
GiveBack(handler, shown) ==
    selects' = IF handler.request = dayRequest /\ shown # Nothing THEN TRUE ELSE selects

\* What comes after the await of a load: initialize, refreshReview, or a handler that
\* has nothing left to do.
Ends(handler) ==
    /\ initialized' = (initialized \/ handler.by = "initial")
    /\ refreshing' = (refreshing /\ handler.by # "refresh")

\* refreshReview begins anew when the date was changed under it.
StartsAnew(handler) == handler.by = "refresh" /\ handler.old # Nothing /\ handler.old # asOf

-----------------------------------------------------------------------------
(* The handlers. *)

\* initialize, to its first answer.
ScreenInit ==
    /\ published \in [Day -> 0 .. 1]
    /\ requested \in [asOf : Day \cup {Nothing}, revision : 0 .. 1, code : Stock \cup {Nothing}]
    /\ asOf = requested.asOf /\ revision = requested.revision
    /\ selectedCode = Nothing /\ day = Nothing /\ currentEvent = Nothing
    /\ dayRequest = 0 /\ eventRequest = 0
    /\ calls = {Call("initial", "dashboard")}
    /\ selects = FALSE /\ refreshing = FALSE /\ initialized = FALSE
    /\ ai = [mode |-> "loading", loading |-> TRUE, saving |-> FALSE]
    /\ roleId = Nothing /\ thread = <<>> /\ streams = NoStreams /\ analysis = Nothing
    /\ inputs = 0

\* extractDashboardDates: the address's date is offered whether or not it has a report.
Dates == {d \in Day : published[d] > 0 \/ d = requested.asOf}
LatestDate ==
    LET known == {d \in Day : published[d] > 0}
        of == IF known # {} THEN known ELSE Dates
    IN CHOOSE d \in of : \A e \in of : e <= d

\* The answer of /api/dashboard, prepareDashboard, and the start of loadDay.
DashboardAnswers(c) ==
    /\ c \in calls /\ c.at = "dashboard"
    /\ IF Dates = {}
       THEN /\ calls' = calls \ {c}
            /\ day' = IF c.by = "refresh" THEN Nothing ELSE day
            /\ selects' = FALSE
            /\ Ends(c)
            /\ UNCHANGED <<currentEvent, dayRequest, eventRequest, contextVars>>
       ELSE LET date == IF asOf \in Dates THEN asOf ELSE LatestDate
                old == IF c.by = "refresh" /\ day # Nothing THEN day.asOf ELSE Nothing
                focus == IF c.by = "initial" THEN requested.code ELSE selectedCode
            IN /\ LoadDay([c EXCEPT !.old = old], date, revision, focus, calls \ {c})
               /\ currentEvent' = IF c.by = "refresh" \/ day' = Nothing THEN Nothing ELSE currentEvent
               /\ UNCHANGED <<selectedCode, refreshing, initialized>>
    /\ UNCHANGED <<published, requested, talkVars, inputs>>

\* The revision the server answers with; 0: there is none.
Serves(date, rev) == IF rev = 0 THEN published[date] ELSE IF rev <= published[date] THEN rev ELSE 0

\* The answer of /api/review for the last load, and what loadDay does with it.
DayAnswers(c, events) ==
    /\ c \in calls /\ c.at = "day" /\ ~c.aborted
    /\ Serves(c.asOf, c.revision) > 0
    /\ day' = [asOf |-> c.asOf, revision |-> Serves(c.asOf, c.revision), events |-> events,
               last |-> published[c.asOf]]
    /\ IF c.focus \in events
       THEN /\ SelectEvent(c, c.focus, calls \ {c})
            /\ UNCHANGED <<selects, initialized, refreshing>>
       ELSE /\ currentEvent' = Nothing
            /\ calls' = calls \ {c}
            /\ GiveBack(c, day')
            /\ Ends(c)
            /\ IF StartsAnew(c) THEN selectedCode' = Nothing /\ ForgetAnswers
                                ELSE UNCHANGED <<selectedCode, talkVars>>
            /\ UNCHANGED eventRequest
    /\ UNCHANGED <<published, requested, asOf, revision, dayRequest, inputs>>

\* The answer of /api/review/event for the last selection, renderEventDetail, and the
\* rest of the load it may be part of.
AfterEvent(c, shown, asIs) ==
    /\ calls' = calls \ {c}
    /\ IF c.by = "click" THEN UNCHANGED <<selects, initialized, refreshing>>
                         ELSE GiveBack(c, day) /\ Ends(c)
    /\ IF StartsAnew(c)
       THEN currentEvent' = Nothing /\ selectedCode' = Nothing /\ ForgetAnswers
       ELSE currentEvent' = (IF asIs THEN currentEvent ELSE shown) /\ UNCHANGED <<selectedCode, talkVars>>
    /\ UNCHANGED <<published, requested, asOf, revision, day, dayRequest, eventRequest, inputs>>

EventAnswers(c) ==
    /\ c \in calls /\ c.at = "event" /\ ~c.aborted
    /\ AfterEvent(c, [asOf |-> c.asOf, revision |-> c.revision, code |-> c.focus], FALSE)

\* fetchJSON fails or times out, or was aborted: the error of a selection ends there,
\* that of a load goes on to its handler, which keeps what is shown.
CallFails(c) ==
    /\ c \in calls
    /\ IF c.at = "event" THEN AfterEvent(c, Nothing, TRUE)
       ELSE /\ calls' = calls \ {c}
            /\ IF c.at = "day" THEN GiveBack(c, day) ELSE UNCHANGED selects
            /\ Ends(c)
            /\ UNCHANGED <<published, requested, contextVars, day, currentEvent, dayRequest,
                           eventRequest, talkVars, inputs>>

-----------------------------------------------------------------------------
(* The reader. *)

Acts == inputs < MaxInputs /\ inputs' = inputs + 1
UNCHANGEDServer == UNCHANGED <<published, requested>>

\* The change of the date select: resetContext, then loadDay.
ChangeDate(date) ==
    /\ Acts /\ selects /\ date \in Dates /\ date # asOf
    /\ ForgetAnswers
    /\ selectedCode' = Nothing
    /\ currentEvent' = Nothing
    /\ LoadDay(Call("date", "day"), date, 0, Nothing, calls)
    /\ UNCHANGED <<refreshing, initialized>> /\ UNCHANGEDServer

ChangeRevision(rev) ==
    /\ Acts /\ selects /\ day # Nothing
    /\ rev \in 1 .. day.last /\ rev # day.revision
    /\ ForgetAnswers
    /\ LoadDay(Call("revision", "day"), asOf, rev, selectedCode, calls)
    /\ currentEvent' = IF day' = Nothing THEN Nothing ELSE currentEvent
    /\ UNCHANGED <<selectedCode, refreshing, initialized>> /\ UNCHANGEDServer

\* A row, or "retry" below a detail that failed.
ClickRow(code) ==
    /\ Acts /\ day # Nothing /\ code \in day.events \cup ({selectedCode} \ {Nothing})
    /\ SelectEvent(Call("click", "event"), code, calls)
    /\ UNCHANGED <<asOf, revision, day, dayRequest, selects, refreshing, initialized>>
    /\ UNCHANGEDServer

\* refreshReview, of the button or of a window that is looked at again.
RefreshReview ==
    /\ Acts /\ ~refreshing
    /\ refreshing' = TRUE
    /\ calls' = calls \cup {Call("refresh", "dashboard")}
    /\ UNCHANGED <<contextVars, day, currentEvent, dayRequest, eventRequest, selects,
                   initialized, talkVars>> /\ UNCHANGEDServer

\* A report is published while the page is open (external).
Publishes(date) ==
    /\ Acts /\ published[date] < MaxRevisions
    /\ published' = [published EXCEPT ![date] = @ + 1]
    /\ UNCHANGED <<requested, contextVars, loadVars, talkVars>>

-----------------------------------------------------------------------------
(* Roles, settings and streams. *)

\* loadMasterRoles with renderRoleOptions, and the change of the role select.
RolesLoad(role) ==
    /\ roleId = Nothing /\ roleId' = role
    /\ UNCHANGED <<published, requested, contextVars, loadVars, ai, thread, streams, analysis, inputs>>

ChangeRole(role) ==
    /\ Acts /\ roleId # Nothing /\ role # roleId
    /\ roleId' = role
    /\ thread' = <<>>
    /\ streams' = [streams EXCEPT !["master"] = Nothing]
    /\ UNCHANGED <<contextVars, loadVars, ai, analysis>> /\ UNCHANGEDServer

\* loadLLMConfig: begun by openSettings, and quietly by saveLLMConfig, unless one runs.
OpenSettings ==
    /\ Acts /\ ~ai.loading
    /\ ai' = [ai EXCEPT !.mode = "loading", !.loading = TRUE]
    /\ UNCHANGED <<contextVars, loadVars, roleId, thread, streams, analysis>> /\ UNCHANGEDServer

ConfigAnswers(mode) ==
    /\ ai.loading
    /\ ai' = [ai EXCEPT !.mode = mode, !.loading = FALSE]
    /\ UNCHANGED <<published, requested, contextVars, loadVars, roleId, thread, streams, analysis, inputs>>

SaveSettings ==
    /\ Acts /\ ~ai.saving /\ ai.mode \in {"configured", "unconfigured"}
    /\ ai' = [ai EXCEPT !.saving = TRUE]
    /\ UNCHANGED <<contextVars, loadVars, roleId, thread, streams, analysis>> /\ UNCHANGEDServer

SaveAnswers(mode) ==
    /\ ai.saving
    /\ \/ ai' = [mode |-> mode, loading |-> TRUE, saving |-> FALSE]
       \/ ai' = [ai EXCEPT !.saving = FALSE]
    /\ UNCHANGED <<published, requested, contextVars, loadVars, roleId, thread, streams, analysis, inputs>>

\* sendMaster, to its request: the question and the place of its answer join the
\* thread.  Turns without text are no part of the history it sends.
SendMaster ==
    /\ Acts /\ roleId # Nothing /\ day # Nothing /\ aiReady /\ streams["master"] = Nothing
    /\ Len(thread) < MaxTalk
    /\ thread' = thread \o <<[by |-> "user", about |-> About, text |-> TRUE],
                             [by |-> "assistant", about |-> About, text |-> FALSE]>>
    /\ streams' = [streams EXCEPT !["master"] = View]
    /\ UNCHANGED <<contextVars, loadVars, ai, roleId, analysis>> /\ UNCHANGEDServer

StartAnalysis ==
    /\ Acts /\ day # Nothing /\ aiReady /\ streams["analysis"] = Nothing
    /\ streams' = [streams EXCEPT !["analysis"] = View]
    /\ analysis' = [about |-> About, end |-> "streaming"]
    /\ UNCHANGED <<contextVars, loadVars, ai, roleId, thread>> /\ UNCHANGEDServer

CancelStream(s) ==
    /\ Acts /\ streams[s] # Nothing /\ ~streams[s].aborted
    /\ streams' = [streams EXCEPT ![s].aborted = TRUE]
    /\ UNCHANGED <<contextVars, loadVars, ai, roleId, thread, analysis>> /\ UNCHANGEDServer

\* applyStreamEvent.
StreamSays(s, event) ==
    /\ streams[s] # Nothing /\ ~streams[s].aborted /\ ~streams[s].done /\ ~streams[s].failed
    /\ streams' = [streams EXCEPT ![s] =
            [@ EXCEPT !.had = TRUE,
                      !.text = streams[s].text \/ event = "delta",
                      !.done = event = "done",
                      !.failed = event = "error"]]
    /\ UNCHANGED <<published, requested, contextVars, loadVars, ai, roleId, thread, analysis, inputs>>

\* The end of runStream, and what sendMaster and startAnalysis do after it.  A stream
\* that ends well is taken as done when it said anything.
StreamStops(s, well) ==
    /\ streams[s] # Nothing
    /\ well => ~streams[s].aborted
    /\ LET view == streams[s]
           done == view.done \/ (well /\ ~view.failed /\ view.had)
           end == IF done THEN "done" ELSE IF view.aborted THEN "cancelled" ELSE "failed"
       IN IF s = "master"
          THEN /\ thread' = [thread EXCEPT ![Len(thread)].text = view.text]
               /\ UNCHANGED analysis
          ELSE /\ analysis' = [analysis EXCEPT !.end = end]
               /\ UNCHANGED thread
    /\ streams' = [streams EXCEPT ![s] = Nothing]
    /\ UNCHANGED <<published, requested, contextVars, loadVars, ai, roleId, inputs>>

-----------------------------------------------------------------------------

\* The conversation and the analysis, beside what is loaded.
Talk ==
    \/ OpenSettings \/ SaveSettings \/ SendMaster \/ StartAnalysis
    \/ \E role \in Role : RolesLoad(role) \/ ChangeRole(role)
    \/ \E mode \in {"configured", "unconfigured", "unavailable"} : ConfigAnswers(mode)
    \/ \E mode \in {"configured", "unconfigured"} : SaveAnswers(mode)
    \/ \E s \in {"master", "analysis"} :
        \/ CancelStream(s)
        \/ \E event \in {"evidence", "delta", "done", "error"} : StreamSays(s, event)
        \/ \E well \in BOOLEAN : StreamStops(s, well)

ScreenNext ==
    \/ \E c \in calls :
        \/ DashboardAnswers(c) \/ EventAnswers(c) \/ CallFails(c)
        \/ \E events \in SUBSET Stock : DayAnswers(c, events)
    \/ \E d \in Day : ChangeDate(d) \/ Publishes(d)
    \/ \E rev \in 1 .. MaxRevisions : ChangeRevision(rev)
    \/ \E code \in Stock : ClickRow(code)
    \/ RefreshReview \/ Talk

ScreenSpec == ScreenInit /\ [][ScreenNext]_screenVars

-----------------------------------------------------------------------------

\* What is asked, answered and remembered is about the date, the revision, the stock
\* and the role that are selected: no answer that was on its way when the reader
\* changed one of them is shown or told to a role as its own.  A question asked
\* before the first load ended may stay when a stock is selected then.
ScreenIsOne ==
    LET Fits(about) ==
            /\ about.asOf = asOf /\ about.revision = revision
            /\ about.early \/ about.code = selectedCode
    IN /\ day # Nothing => day.asOf = asOf /\ revision \in {0, day.revision}
       /\ \A s \in DOMAIN streams : streams[s] # Nothing => Fits(streams[s].about)
       /\ analysis # Nothing => Fits(analysis.about)
       /\ \A i \in 1 .. Len(thread) : Fits(thread[i].about) /\ thread[i].about.role = roleId

\* The detail that is shown is of the day and the stock that are shown: when the date
\* is switched the focus on the event is cleared with the conversation, as the page
\* says ("已清空事件焦点和对话").
FocusIsCleared ==
    day # Nothing /\ currentEvent # Nothing =>
        currentEvent.asOf = day.asOf /\ currentEvent.code = selectedCode
=============================================================================
