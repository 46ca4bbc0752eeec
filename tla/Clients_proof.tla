--------------------------- MODULE Clients_proof ----------------------------
(***************************************************************************)
(* Proofs about the parts that speak to a reader or to a service outside:  *)
(* ReviewScreen, ReviewProjection, ChannelClients, AdvisorTurn and the     *)
(* Settings. The components share nothing, and neither do their proofs.    *)
(***************************************************************************)
EXTENDS ReviewScreen, ReviewProjection, ChannelClients, AdvisorTurn, Settings,
        FiniteSetTheorems, SequenceTheorems, WellFoundedInduction, TLAPS

-----------------------------------------------------------------------------
(***************************************************************************)
(* ReviewScreen, for any dates, stocks and roles.                          *)
(*                                                                         *)
(* A load that was not aborted is of what is selected (LoadsAgree), so a   *)
(* day that arrives is the one shown. As long as no date with a report is  *)
(* selected there is no day and nothing is said (NothingBefore): that is   *)
(* why the first load may change the date without forgetting anything.     *)
(***************************************************************************)

\* What a question is about.
Context == [asOf : Day \cup {Nothing}, revision : Nat, code : Stock \cup {Nothing},
            role : Role \cup {Nothing}, early : BOOLEAN]
Answering == [about : Context, aborted : BOOLEAN, text : BOOLEAN, had : BOOLEAN, done : BOOLEAN,
              failed : BOOLEAN]
Turn == [by : {"user", "assistant"}, about : Context, text : BOOLEAN]
Shown == [about : Context, end : {"streaming", "done", "cancelled", "failed"}]
Handler == [by : {"initial", "refresh", "date", "revision", "click"},
            at : {"dashboard", "day", "event"}, asOf : Day \cup {Nothing}, revision : Nat,
            focus : Stock \cup {Nothing}, old : Day \cup {Nothing}, request : Nat, event : Nat,
            aborted : BOOLEAN]
Shows == [asOf : Day, revision : Nat, events : SUBSET Stock, last : Nat]
Speaks == {"master", "analysis"}

LoadTyped ==
    /\ published \in [Day -> Nat]
    /\ requested \in [asOf : Day \cup {Nothing}, revision : Nat, code : Stock \cup {Nothing}]
    /\ asOf \in Day \cup {Nothing} /\ revision \in Nat
    /\ selectedCode \in Stock \cup {Nothing}
    /\ day \in Shows \cup {Nothing}
    /\ dayRequest \in Nat /\ eventRequest \in Nat
    /\ calls \subseteq Handler
    /\ initialized \in BOOLEAN

TalkTyped ==
    /\ roleId \in Role \cup {Nothing}
    /\ thread \in Seq(Turn)
    /\ streams \in [Speaks -> Answering \cup {Nothing}]
    /\ analysis \in Shown \cup {Nothing}
    /\ streams["analysis"] # Nothing => analysis \in Shown

\* A load that was not aborted is of the date and the revision that are selected.
LoadsAgree ==
    \A c \in calls : c.at = "day" /\ ~c.aborted =>
        c.asOf = asOf /\ c.revision = revision /\ asOf \in Dates

DayAgrees == day # Nothing => day.asOf = asOf /\ revision \in {0, day.revision}

\* Before a date with a report is selected there is no day, and nothing to talk about.
NothingBefore ==
    asOf \notin Dates =>
        day = Nothing /\ thread = <<>> /\ streams = NoStreams /\ analysis = Nothing

\* A question is about what is selected; before the first load ended it is an early one.
Suits(about) ==
    /\ about.asOf = asOf /\ about.revision = revision
    /\ about.early \/ about.code = selectedCode
    /\ ~initialized => about.early
TalkSuits ==
    /\ \A s \in Speaks : streams[s] # Nothing => Suits(streams[s].about)
    /\ analysis # Nothing \/ streams["analysis"] # Nothing => Suits(analysis.about)
    /\ \A i \in 1 .. Len(thread) : Suits(thread[i].about) /\ thread[i].about.role = roleId
    /\ roleId = Nothing => thread = <<>>

ScreenInv == LoadTyped /\ TalkTyped /\ LoadsAgree /\ DayAgrees /\ NothingBefore /\ TalkSuits

\* A finite set of numbers that is not empty has a largest one.
LEMMA LargestExists ==
    ASSUME NEW S, IsFiniteSet(S), S \subseteq Nat, S # {}
    PROVE  \E x \in S : \A y \in S : y <= x
<1> DEFINE Above(x) == {y \in S : x < y}
           Sizes == {Cardinality(Above(x)) : x \in S}
<1>1. \A x \in S : IsFiniteSet(Above(x)) /\ Cardinality(Above(x)) \in Nat
  BY FS_Subset, FS_CardinalityType
<1>2. PICK n \in Sizes : \A m \in Sizes : n <= m
  <2>1. Sizes \subseteq Nat /\ Sizes # {}
    BY <1>1
  <2>2. PICK n \in Sizes : \A m \in Sizes : ~(<<m, n>> \in OpToRel(<, Nat))
    <3> HIDE DEF Sizes
    <3> QED BY <2>1, WFMin, NatLessThanWellFounded
  <2>3. \A m \in Sizes : n <= m
    <3>1. \A m \in Nat, k \in Nat : m < k => <<m, k>> \in OpToRel(<, Nat)
      BY Zenon DEF OpToRel
    <3> HIDE DEF Sizes
    <3>2. \A m \in Sizes : ~(m < n)
      BY <2>1, <2>2, <3>1
    <3> QED BY <2>1, <3>2
  <2> QED BY <2>3
<1>3. PICK x \in S : n = Cardinality(Above(x))
  OBVIOUS
<1>4. ASSUME NEW y \in S, ~(y <= x) PROVE FALSE
  <2>1. x < y /\ x \in Nat /\ y \in Nat
    BY <1>4
  <2>2. Above(y) \in SUBSET Above(x) /\ y \in Above(x) /\ y \notin Above(y)
    <3>1. \A z \in S : y < z => x < z
      BY <2>1
    <3>2. Above(y) \subseteq Above(x)
      BY <3>1
    <3> QED BY <2>1, <3>2
  <2>3. Cardinality(Above(y)) < Cardinality(Above(x))
    <3> HIDE DEF Above
    <3>1. /\ Cardinality(Above(y)) <= Cardinality(Above(x))
          /\ Cardinality(Above(x)) = Cardinality(Above(y)) => Above(x) = Above(y)
      BY <1>1, <2>2, FS_Subset
    <3>2. Cardinality(Above(x)) \in Nat /\ Cardinality(Above(y)) \in Nat
      BY <1>1
    <3> QED BY <2>2, <3>1, <3>2
  <2>4. n <= Cardinality(Above(y)) /\ n \in Nat /\ Cardinality(Above(y)) \in Nat
    BY <1>1, <1>2, <1>3
  <2> QED BY <1>3, <2>3, <2>4
<1> QED BY <1>4

\* The latest date is one of the dates that are offered.
LEMMA LatestIsOffered == Dates # {} => LatestDate \in Dates /\ LatestDate \in Day
<1> SUFFICES ASSUME Dates # {} PROVE LatestDate \in Dates /\ LatestDate \in Day
  OBVIOUS
<1> DEFINE known == {d \in Day : published[d] > 0}
           of == IF known # {} THEN known ELSE Dates
<1>1. of \subseteq Dates /\ of # {} /\ of \subseteq Day
  BY DEF Dates
<1>2. IsFiniteSet(of) /\ of \subseteq Nat
  BY <1>1, ScreenAssumption, FS_Subset
<1>3. LatestDate = CHOOSE d \in of : \A e \in of : e <= d
  BY DEF LatestDate
<1> HIDE DEF of
<1>4. \E d \in of : \A e \in of : e <= d
  BY <1>1, <1>2, LargestExists
<1>5. LatestDate \in of
  BY <1>3, <1>4
<1> QED BY <1>1, <1>5

\* The page opens with nothing but the address.
LEMMA ScreenInitInv == ScreenInit => ScreenInv
<1> SUFFICES ASSUME ScreenInit PROVE ScreenInv
  OBVIOUS
<1>1. LoadTyped /\ TalkTyped
  <2>1. /\ published \in [Day -> Nat] /\ asOf \in Day \cup {Nothing} /\ revision \in Nat
        /\ requested \in [asOf : Day \cup {Nothing}, revision : Nat, code : Stock \cup {Nothing}]
    BY DEF ScreenInit
  <2>2. calls \subseteq Handler
    BY DEF ScreenInit, Handler, Call
  <2>3. /\ streams \in [Speaks -> Answering \cup {Nothing}] /\ streams["analysis"] = Nothing
        /\ thread \in Seq(Turn)
    BY DEF ScreenInit, NoStreams, Speaks
  <2> QED BY <2>1, <2>2, <2>3 DEF ScreenInit, LoadTyped, TalkTyped
<1>2. LoadsAgree /\ DayAgrees
  BY DEF ScreenInit, LoadsAgree, DayAgrees, Call
<1>3. NothingBefore
  BY DEF ScreenInit, NothingBefore
<1>4. TalkSuits
  BY DEF ScreenInit, TalkSuits, NoStreams, Speaks
<1> QED BY <1>1, <1>2, <1>3, <1>4 DEF ScreenInv

\* Dates are only ever added.
LEMMA DatesGrow ==
    ASSUME LoadTyped, UNCHANGED requested, \A d \in Day : published[d] <= published'[d],
           published' \in [Day -> Nat]
    PROVE  Dates \subseteq Dates'
BY DEF LoadTyped, Dates

\* Nothing that was said is left.
LEMMA ForgetSuits ==
    ASSUME TalkTyped, ForgetAnswers
    PROVE  /\ TalkTyped' /\ TalkSuits'
           /\ streams' = NoStreams /\ analysis' = Nothing /\ thread' = <<>> /\ roleId' = roleId
<1>1. streams' = NoStreams /\ analysis' = Nothing /\ thread' = <<>> /\ roleId' = roleId
  BY DEF ForgetAnswers
<1>2. NoStreams \in [Speaks -> Answering \cup {Nothing}] /\ \A s \in Speaks : NoStreams[s] = Nothing
  BY DEF NoStreams, Speaks
<1>3. TalkSuits'
  BY <1>1, <1>2 DEF TalkSuits, Speaks
<1>4. TalkTyped'
  BY <1>1, <1>2 DEF TalkTyped, Speaks
<1> QED BY <1>1, <1>3, <1>4

\* What was said still suits while what is selected stays.
LEMMA TalkStays ==
    ASSUME TalkSuits, UNCHANGED <<asOf, revision, roleId, thread, streams, analysis>>,
           initialized => initialized', initialized \in BOOLEAN, initialized' \in BOOLEAN,
           selectedCode' = selectedCode \/ ~initialized
    PROVE  TalkSuits'
<1>1. ASSUME NEW about, Suits(about) PROVE Suits(about)'
  BY <1>1 DEF Suits
<1> QED BY <1>1 DEF TalkSuits

\* The record of a handler that waits for an event.
LEMMA EventHandler ==
    ASSUME NEW handler \in Handler, NEW date \in Day \cup {Nothing}, NEW rev \in Nat,
           NEW focus \in Stock \cup {Nothing}, NEW n \in Nat, NEW waiting,
           waiting = [handler EXCEPT !.at = "event", !.event = n, !.focus = focus,
                                   !.asOf = date, !.revision = rev]
    PROVE  waiting \in Handler /\ waiting.at = "event"
<1> DEFINE a == [handler EXCEPT !.at = "event"]
           b == [a EXCEPT !.event = n]
           d == [b EXCEPT !.focus = focus]
           e == [d EXCEPT !.asOf = date]
           f == [e EXCEPT !.revision = rev]
<1>1. a \in Handler /\ a.at = "event"
  BY DEF Handler
<1>2. b \in Handler /\ b.at = "event"
  <2> HIDE DEF a
  <2> QED BY <1>1 DEF Handler
<1>3. d \in Handler /\ d.at = "event"
  <2> HIDE DEF b
  <2> QED BY <1>2 DEF Handler
<1>4. e \in Handler /\ e.at = "event"
  <2> HIDE DEF d
  <2> QED BY <1>3 DEF Handler
<1>5. f \in Handler /\ f.at = "event"
  <2> HIDE DEF e
  <2> QED BY <1>4 DEF Handler
<1>6. waiting = f
  OBVIOUS
<1> QED BY <1>5, <1>6

\* A day is loaded: what is under way for another day is aborted, and another day is
\* no longer shown.
LEMMA LoadAgrees ==
    ASSUME ScreenInv, NEW handler \in Handler, NEW date \in Dates, NEW rev \in Nat,
           NEW focus \in Stock \cup {Nothing}, NEW others \in SUBSET calls,
           LoadDay(handler, date, rev, focus, others), UNCHANGED <<published, requested>>,
           selectedCode' \in Stock \cup {Nothing}, initialized' \in BOOLEAN
    PROVE  LoadTyped' /\ LoadsAgree' /\ DayAgrees' /\ NothingBefore' /\ asOf' = date
<1> DEFINE waiting == [handler EXCEPT !.at = "day", !.asOf = date, !.revision = rev,
                                    !.focus = focus, !.request = dayRequest + 1]
           quiet(c) == IF c.at = "day" THEN [c EXCEPT !.aborted = TRUE] ELSE c
<1>1. /\ asOf' = date /\ revision' = rev /\ dayRequest' = dayRequest + 1 /\ eventRequest' = eventRequest
      /\ calls' = {quiet(c) : c \in others} \cup {waiting}
      /\ day' \in {day, Nothing}
      /\ day' # Nothing => day' = day /\ day.asOf = date /\ day.revision = rev
  BY DEF LoadDay
<1>2. date \in Day /\ Dates' = Dates
  BY DEF Dates
<1>3. dayRequest \in Nat /\ calls \subseteq Handler
  BY DEF ScreenInv, LoadTyped
<1>4. waiting \in Handler /\ waiting.at = "day" /\ waiting.asOf = date /\ waiting.revision = rev
  <2> DEFINE a == [handler EXCEPT !.at = "day"]
             b == [a EXCEPT !.asOf = date]
             d == [b EXCEPT !.revision = rev]
             e == [d EXCEPT !.focus = focus]
             f == [e EXCEPT !.request = dayRequest + 1]
  <2>1. a \in Handler /\ a.at = "day"
    BY DEF Handler
  <2>2. b \in Handler /\ b.at = "day" /\ b.asOf = date
    <3> HIDE DEF a
    <3> QED BY <1>2, <2>1 DEF Handler
  <2>3. d \in Handler /\ d.at = "day" /\ d.asOf = date /\ d.revision = rev
    <3> HIDE DEF b
    <3> QED BY <2>2 DEF Handler
  <2>4. e \in Handler /\ e.at = "day" /\ e.asOf = date /\ e.revision = rev
    <3> HIDE DEF d
    <3> QED BY <2>3 DEF Handler
  <2>5. f \in Handler /\ f.at = "day" /\ f.asOf = date /\ f.revision = rev
    <3> HIDE DEF e
    <3> QED BY <1>3, <2>4 DEF Handler
  <2>6. waiting = f
    OBVIOUS
  <2> QED BY <2>5, <2>6
<1>5. \A c \in others : quiet(c) \in Handler /\ (quiet(c).at = "day" => quiet(c).aborted)
  BY <1>3 DEF Handler
<1> HIDE DEF waiting, quiet
<1>6. LoadTyped'
  BY <1>1, <1>2, <1>4, <1>5 DEF ScreenInv, LoadTyped
<1>7. LoadsAgree'
  BY <1>1, <1>2, <1>4, <1>5 DEF LoadsAgree
<1>8. DayAgrees'
  BY <1>1 DEF DayAgrees
<1>9. NothingBefore'
  BY <1>1, <1>2 DEF NothingBefore
<1> QED BY <1>1, <1>6, <1>7, <1>8, <1>9

\* A stock is selected: what was said of another one is forgotten, once the page was
\* loaded; the loads of days go on.
LEMMA SelectSuits ==
    ASSUME ScreenInv, NEW handler \in Handler, NEW code \in Stock \cup {Nothing},
           NEW others \in SUBSET calls, SelectEvent(handler, code, others),
           UNCHANGED <<asOf, revision, initialized>>
    PROVE  /\ TalkTyped' /\ TalkSuits'
           /\ eventRequest' \in Nat /\ selectedCode' = code
           /\ calls' \subseteq Handler
           /\ \A c \in calls' : c.at = "day" => c \in calls
           /\ \/ UNCHANGED <<thread, streams, analysis>>
              \/ thread' = <<>> /\ streams' = NoStreams /\ analysis' = Nothing
<1> DEFINE waiting == [handler EXCEPT !.at = "event", !.event = eventRequest + 1, !.focus = code,
                                    !.asOf = asOf, !.revision = revision]
           quiet(c) == IF c.at = "event" THEN [c EXCEPT !.aborted = TRUE] ELSE c
<1>1. /\ selectedCode' = code /\ eventRequest' = eventRequest + 1
      /\ calls' = {quiet(c) : c \in others} \cup {waiting}
      /\ \/ ForgetAnswers
         \/ UNCHANGED talkVars /\ (selectedCode' = selectedCode \/ ~initialized)
  BY DEF SelectEvent
<1>2. /\ calls \subseteq Handler /\ eventRequest \in Nat /\ revision \in Nat
      /\ asOf \in Day \cup {Nothing} /\ initialized \in BOOLEAN
  BY DEF ScreenInv, LoadTyped
<1>3. waiting \in Handler /\ waiting.at = "event"
  <2>1. waiting = [handler EXCEPT !.at = "event", !.event = eventRequest + 1, !.focus = code,
                                !.asOf = asOf, !.revision = revision]
    OBVIOUS
  <2>2. eventRequest + 1 \in Nat
    BY <1>2
  <2> HIDE DEF waiting
  <2> QED BY <1>2, <2>1, <2>2, EventHandler
<1>4. \A c \in others : quiet(c) \in Handler /\ (quiet(c).at = "day" => quiet(c) = c)
  BY <1>2 DEF Handler
<1> HIDE DEF waiting, quiet
<1>5. /\ calls' \subseteq Handler /\ eventRequest' \in Nat
      /\ \A c \in calls' : c.at = "day" => c \in calls
  BY <1>1, <1>2, <1>3, <1>4
<1>6. CASE ForgetAnswers
  BY <1>1, <1>5, <1>6, ForgetSuits DEF ScreenInv
<1>7. CASE UNCHANGED talkVars /\ (selectedCode' = selectedCode \/ ~initialized)
  <2>1. TalkSuits' /\ TalkTyped'
    BY <1>2, <1>7, TalkStays DEF ScreenInv, TalkTyped, talkVars
  <2> QED BY <1>1, <1>5, <1>7, <2>1 DEF talkVars
<1> QED BY <1>1, <1>6, <1>7

\* The rest of the invariant when no load is begun and no day arrives.
LEMMA LoadsStay ==
    ASSUME ScreenInv, UNCHANGED <<requested, asOf, revision>>, day' \in {day, Nothing},
           \A d \in Day : published[d] <= published'[d], published' \in [Day -> Nat],
           calls' \subseteq Handler, \A c \in calls' : c.at = "day" => c \in calls,
           selectedCode' \in Stock \cup {Nothing}, initialized' \in BOOLEAN,
           dayRequest' \in Nat, eventRequest' \in Nat,
           \/ UNCHANGED <<thread, streams, analysis>>
           \/ thread' = <<>> /\ streams' = NoStreams /\ analysis' = Nothing
           \/ day # Nothing
    PROVE  LoadTyped' /\ LoadsAgree' /\ DayAgrees' /\ NothingBefore'
<1>1. Dates \subseteq Dates'
  BY DatesGrow DEF ScreenInv
<1>2. LoadTyped'
  BY DEF ScreenInv, LoadTyped
<1>3. LoadsAgree' /\ DayAgrees'
  BY <1>1 DEF ScreenInv, LoadsAgree, DayAgrees
<1>4. NothingBefore'
  BY <1>1 DEF ScreenInv, NothingBefore
<1> QED BY <1>2, <1>3, <1>4

\* The dashboard says which dates there are; the one selected stays if it is among them.
LEMMA DashboardInv ==
    ASSUME ScreenInv, NEW c \in calls, DashboardAnswers(c)
    PROVE  ScreenInv'
<1>1. c \in Handler /\ initialized \in BOOLEAN
  BY DEF ScreenInv, LoadTyped
<1>2. CASE Dates = {}
  <2>1. /\ UNCHANGED <<published, requested, asOf, revision, selectedCode, dayRequest, eventRequest>>
        /\ UNCHANGED talkVars /\ calls' = calls \ {c} /\ day' \in {day, Nothing}
        /\ initialized' = (initialized \/ c.by = "initial")
    BY <1>2 DEF DashboardAnswers, Ends, contextVars
  <2>2. LoadTyped' /\ LoadsAgree' /\ DayAgrees' /\ NothingBefore'
    BY <1>1, <2>1, LoadsStay DEF ScreenInv, LoadTyped, talkVars
  <2>3. TalkTyped' /\ TalkSuits'
    BY <1>1, <2>1, TalkStays DEF ScreenInv, TalkTyped, talkVars
  <2> QED BY <2>2, <2>3 DEF ScreenInv
<1>3. CASE Dates # {}
  <2> DEFINE date == IF asOf \in Dates THEN asOf ELSE LatestDate
             old == IF c.by = "refresh" /\ day # Nothing THEN day.asOf ELSE Nothing
             focus == IF c.by = "initial" THEN requested.code ELSE selectedCode
             handler == [c EXCEPT !.old = old]
  <2>1. /\ LoadDay(handler, date, revision, focus, calls \ {c})
        /\ UNCHANGED <<published, requested, selectedCode, initialized, talkVars>>
    BY <1>3 DEF DashboardAnswers
  <2>2. date \in Dates
    BY <1>3, LatestIsOffered
  <2>3. old \in Day \cup {Nothing} /\ focus \in Stock \cup {Nothing} /\ revision \in Nat
    BY DEF ScreenInv, LoadTyped, Shows
  <2>4. handler \in Handler
    <3> HIDE DEF old
    <3> QED BY <1>1, <2>3 DEF Handler
  <2> HIDE DEF handler, old, focus
  <2>5. LoadTyped' /\ LoadsAgree' /\ DayAgrees' /\ NothingBefore' /\ asOf' = date /\ revision' = revision
    <3>1. selectedCode' \in Stock \cup {Nothing} /\ initialized' \in BOOLEAN
      BY <2>1 DEF ScreenInv, LoadTyped
    <3>2. calls \ {c} \in SUBSET calls
      OBVIOUS
    <3> HIDE DEF date
    <3>3. LoadTyped' /\ LoadsAgree' /\ DayAgrees' /\ NothingBefore' /\ asOf' = date
      BY <2>1, <2>2, <2>3, <2>4, <3>1, <3>2, LoadAgrees
    <3>4. revision' = revision
      BY <2>1 DEF LoadDay
    <3> QED BY <3>3, <3>4
  <2>6. TalkTyped'
    BY <2>1 DEF ScreenInv, TalkTyped, talkVars
  <2>7. TalkSuits'
    <3>1. CASE asOf \in Dates
      BY <1>1, <2>1, <2>5, <3>1, TalkStays DEF ScreenInv, talkVars
    <3>2. CASE asOf \notin Dates
      <4>1. thread' = <<>> /\ streams' = NoStreams /\ analysis' = Nothing
        BY <2>1, <3>2 DEF ScreenInv, NothingBefore, talkVars
      <4> QED BY <4>1 DEF TalkSuits, NoStreams, Speaks
    <3> QED BY <3>1, <3>2
  <2> QED BY <2>5, <2>6, <2>7 DEF ScreenInv
<1> QED BY <1>2, <1>3

\* What comes after a load or a selection, where the answers are forgotten or stay.
LEMMA EndInv ==
    ASSUME ScreenInv, UNCHANGED <<published, requested, asOf, revision, day, dayRequest, eventRequest>>,
           NEW c, calls' = calls \ {c}, initialized' \in BOOLEAN, initialized => initialized',
           \/ ForgetAnswers /\ selectedCode' \in {Nothing, selectedCode}
           \/ UNCHANGED <<selectedCode, talkVars>>
    PROVE  ScreenInv'
<1>1. CASE ForgetAnswers /\ selectedCode' \in {Nothing, selectedCode}
  <2>1. /\ TalkTyped' /\ TalkSuits'
        /\ streams' = NoStreams /\ analysis' = Nothing /\ thread' = <<>>
    BY <1>1, ForgetSuits DEF ScreenInv
  <2>2. LoadTyped' /\ LoadsAgree' /\ DayAgrees' /\ NothingBefore'
    BY <1>1, <2>1, LoadsStay DEF ScreenInv, LoadTyped
  <2> QED BY <2>1, <2>2 DEF ScreenInv
<1>2. CASE UNCHANGED <<selectedCode, talkVars>>
  <2>1. LoadTyped' /\ LoadsAgree' /\ DayAgrees' /\ NothingBefore'
    BY <1>2, LoadsStay DEF ScreenInv, LoadTyped, talkVars
  <2>2. TalkTyped' /\ TalkSuits'
    BY <1>2, TalkStays DEF ScreenInv, LoadTyped, TalkTyped, talkVars
  <2> QED BY <2>1, <2>2 DEF ScreenInv
<1> QED BY <1>1, <1>2

\* The event of the last selection is shown, or it fails.
LEMMA EventInv ==
    ASSUME ScreenInv, NEW c \in calls, NEW shown, NEW asIs, AfterEvent(c, shown, asIs)
    PROVE  ScreenInv'
<1>1. /\ UNCHANGED <<published, requested, asOf, revision, day, dayRequest, eventRequest>>
      /\ calls' = calls \ {c}
      /\ initialized' \in {initialized, initialized \/ c.by = "initial"}
      /\ \/ ForgetAnswers /\ selectedCode' = Nothing
         \/ UNCHANGED <<selectedCode, talkVars>>
  BY DEF AfterEvent, Ends
<1>2. initialized' \in BOOLEAN /\ (initialized => initialized')
  BY <1>1 DEF ScreenInv, LoadTyped
<1> QED BY <1>1, <1>2, EndInv

\* A load, a selection or the dashboard fails: the day that is shown stays.
LEMMA CallFailsInv ==
    ASSUME ScreenInv, NEW c \in calls, CallFails(c)
    PROVE  ScreenInv'
<1>1. CASE c.at = "event"
  BY <1>1, EventInv DEF CallFails
<1>2. CASE c.at # "event"
  <2>1. /\ UNCHANGED <<published, requested, asOf, revision, day, dayRequest, eventRequest>>
        /\ UNCHANGED <<selectedCode, talkVars>>
        /\ calls' = calls \ {c} /\ initialized' = (initialized \/ c.by = "initial")
    BY <1>2 DEF CallFails, Ends, contextVars
  <2>2. initialized' \in BOOLEAN /\ (initialized => initialized')
    BY <2>1 DEF ScreenInv, LoadTyped
  <2> QED BY <2>1, <2>2, EndInv
<1> QED BY <1>1, <1>2

\* A day is shown when it is the one that is selected: the load was not aborted.
LEMMA DayInv ==
    ASSUME ScreenInv, NEW c \in calls, NEW events \in SUBSET Stock, DayAnswers(c, events)
    PROVE  ScreenInv'
<1>1. /\ c \in Handler /\ c.asOf = asOf /\ c.revision = revision /\ asOf \in Dates
      /\ revision \in Nat /\ published \in [Day -> Nat] /\ initialized \in BOOLEAN
  BY DEF ScreenInv, LoadTyped, LoadsAgree, DayAnswers
<1>2. asOf \in Day /\ published[asOf] \in Nat
  BY <1>1 DEF Dates
<1>3. /\ Serves(c.asOf, c.revision) \in Nat
      /\ revision \in {0, Serves(c.asOf, c.revision)}
  BY <1>1, <1>2 DEF Serves, DayAnswers
<1>4. /\ day' = [asOf |-> c.asOf, revision |-> Serves(c.asOf, c.revision), events |-> events,
                 last |-> published[c.asOf]]
      /\ UNCHANGED <<published, requested, asOf, revision, dayRequest>>
  BY DEF DayAnswers
<1>5. day' \in Shows /\ DayAgrees'
  BY <1>1, <1>2, <1>3, <1>4 DEF Shows, DayAgrees
<1>6. Dates' = Dates
  BY <1>4 DEF Dates
<1>7. NothingBefore'
  BY <1>1, <1>4, <1>6 DEF NothingBefore
<1>8. CASE c.focus \in events
  <2>1. SelectEvent(c, c.focus, calls \ {c}) /\ UNCHANGED initialized
    BY <1>8 DEF DayAnswers
  <2>2. c.focus \in Stock \cup {Nothing} /\ calls \ {c} \in SUBSET calls
    BY <1>1 DEF Handler
  <2>3. /\ TalkTyped' /\ TalkSuits' /\ eventRequest' \in Nat /\ selectedCode' = c.focus
        /\ calls' \subseteq Handler /\ \A d \in calls' : d.at = "day" => d \in calls
    BY <1>1, <1>4, <2>1, <2>2, SelectSuits
  <2>4. LoadTyped'
    BY <1>4, <1>5, <2>1, <2>2, <2>3 DEF ScreenInv, LoadTyped
  <2>5. LoadsAgree'
    BY <1>4, <1>6, <2>3 DEF ScreenInv, LoadsAgree
  <2> QED BY <1>5, <1>7, <2>3, <2>4, <2>5 DEF ScreenInv
<1>9. CASE c.focus \notin events
  <2>1. /\ calls' = calls \ {c} /\ eventRequest' = eventRequest
        /\ initialized' = (initialized \/ c.by = "initial")
        /\ \/ ForgetAnswers /\ selectedCode' = Nothing
           \/ UNCHANGED <<selectedCode, talkVars>>
    BY <1>9 DEF DayAnswers, Ends
  <2>2. LoadTyped'
    BY <1>1, <1>4, <1>5, <2>1 DEF ScreenInv, LoadTyped
  <2>3. LoadsAgree'
    BY <1>4, <1>6, <2>1 DEF ScreenInv, LoadsAgree
  <2>4. TalkTyped' /\ TalkSuits'
    <3>1. CASE ForgetAnswers
      BY <3>1, ForgetSuits DEF ScreenInv
    <3>2. CASE UNCHANGED <<selectedCode, talkVars>>
      BY <1>1, <1>4, <2>1, <3>2, TalkStays DEF ScreenInv, TalkTyped, talkVars
    <3> QED BY <2>1, <3>1, <3>2
  <2> QED BY <1>5, <1>7, <2>2, <2>3, <2>4 DEF ScreenInv
<1> QED BY <1>8, <1>9

\* The reader turns to another date: nothing of the one before is left.
LEMMA ChangeDateInv ==
    ASSUME ScreenInv, NEW date \in Day, ChangeDate(date)
    PROVE  ScreenInv'
<1> DEFINE handler == Call("date", "day")
<1>1. /\ LoadDay(handler, date, 0, Nothing, calls) /\ ForgetAnswers /\ date \in Dates
      /\ UNCHANGED <<published, requested, initialized>> /\ selectedCode' = Nothing
  BY DEF ChangeDate, UNCHANGEDServer
<1>2. handler \in Handler
  BY DEF Call, Handler
<1>3. initialized' \in BOOLEAN /\ 0 \in Nat /\ Nothing \in Stock \cup {Nothing} /\ calls \in SUBSET calls
  BY <1>1 DEF ScreenInv, LoadTyped
<1> HIDE DEF handler
<1>4. LoadTyped' /\ LoadsAgree' /\ DayAgrees' /\ NothingBefore'
  BY <1>1, <1>2, <1>3, LoadAgrees
<1>5. TalkTyped' /\ TalkSuits'
  BY <1>1, ForgetSuits DEF ScreenInv
<1> QED BY <1>4, <1>5 DEF ScreenInv

\* The reader turns to another revision of the date that is shown.
LEMMA ChangeRevisionInv ==
    ASSUME ScreenInv, NEW rev \in 1 .. MaxRevisions, ChangeRevision(rev)
    PROVE  ScreenInv'
<1> DEFINE handler == Call("revision", "day")
<1>1. /\ LoadDay(handler, asOf, rev, selectedCode, calls) /\ ForgetAnswers /\ day # Nothing
      /\ UNCHANGED <<published, requested, initialized, selectedCode>>
  BY DEF ChangeRevision, UNCHANGEDServer
<1>2. handler \in Handler
  BY DEF Call, Handler
<1>3. /\ initialized' \in BOOLEAN /\ rev \in Nat /\ selectedCode \in Stock \cup {Nothing}
      /\ asOf \in Dates /\ calls \in SUBSET calls
  BY <1>1, ScreenAssumption DEF ScreenInv, LoadTyped, NothingBefore
<1> HIDE DEF handler
<1>4. LoadTyped' /\ LoadsAgree' /\ DayAgrees' /\ NothingBefore'
  BY <1>1, <1>2, <1>3, LoadAgrees
<1>5. TalkTyped' /\ TalkSuits'
  BY <1>1, ForgetSuits DEF ScreenInv
<1> QED BY <1>4, <1>5 DEF ScreenInv

\* The reader selects a stock of the day.
LEMMA ClickInv ==
    ASSUME ScreenInv, NEW code \in Stock, ClickRow(code)
    PROVE  ScreenInv'
<1> DEFINE handler == Call("click", "event")
<1>1. /\ SelectEvent(handler, code, calls)
      /\ UNCHANGED <<published, requested, asOf, revision, day, dayRequest, initialized>>
  BY DEF ClickRow, UNCHANGEDServer
<1>2. handler \in Handler /\ calls \in SUBSET calls /\ code \in Stock \cup {Nothing}
  BY DEF Call, Handler
<1> HIDE DEF handler
<1>3. /\ TalkTyped' /\ TalkSuits' /\ eventRequest' \in Nat /\ selectedCode' = code
      /\ calls' \subseteq Handler
      /\ \A c \in calls' : c.at = "day" => c \in calls
      /\ \/ UNCHANGED <<thread, streams, analysis>>
         \/ thread' = <<>> /\ streams' = NoStreams /\ analysis' = Nothing
  BY <1>1, <1>2, SelectSuits
<1>4. LoadTyped' /\ LoadsAgree' /\ DayAgrees' /\ NothingBefore'
  BY <1>1, <1>2, <1>3, LoadsStay DEF ScreenInv, LoadTyped
<1> QED BY <1>3, <1>4 DEF ScreenInv

\* The day is to be loaded again, or has got another revision meanwhile.
LEMMA RefreshInv ==
    ASSUME ScreenInv, RefreshReview \/ \E date \in Day : Publishes(date)
    PROVE  ScreenInv'
<1>1. /\ UNCHANGED <<requested, asOf, revision, selectedCode, day, dayRequest, eventRequest, initialized>>
      /\ UNCHANGED talkVars
  BY DEF RefreshReview, Publishes, UNCHANGEDServer, contextVars, loadVars
<1>2. /\ \A d \in Day : published[d] <= published'[d]
      /\ published' \in [Day -> Nat]
  <2>1. CASE RefreshReview
    BY <2>1 DEF RefreshReview, UNCHANGEDServer, ScreenInv, LoadTyped
  <2>2. ASSUME NEW date \in Day, Publishes(date)
        PROVE  /\ \A d \in Day : published[d] <= published'[d]
               /\ published' \in [Day -> Nat]
    BY <2>2 DEF Publishes, ScreenInv, LoadTyped
  <2> QED BY <2>1, <2>2
<1>3. calls' \subseteq Handler /\ \A c \in calls' : c.at = "day" => c \in calls
  <2>1. calls' = calls \/ calls' = calls \cup {Call("refresh", "dashboard")}
    BY DEF RefreshReview, Publishes, loadVars
  <2>2. Call("refresh", "dashboard") \in Handler /\ Call("refresh", "dashboard").at = "dashboard"
    BY DEF Call, Handler
  <2> QED BY <2>1, <2>2 DEF ScreenInv, LoadTyped
<1>4. LoadTyped' /\ LoadsAgree' /\ DayAgrees' /\ NothingBefore'
  BY <1>1, <1>2, <1>3, LoadsStay DEF ScreenInv, LoadTyped, talkVars
<1>5. TalkTyped' /\ TalkSuits'
  BY <1>1, TalkStays DEF ScreenInv, LoadTyped, TalkTyped, talkVars
<1> QED BY <1>4, <1>5 DEF ScreenInv

\* What is selected and loaded stays, and there is a day as soon as anything is said.
LEMMA TalkInv ==
    ASSUME ScreenInv, UNCHANGED <<published, requested, contextVars, loadVars>>,
           TalkTyped', TalkSuits',
           \/ UNCHANGED <<thread, streams, analysis>>
           \/ day # Nothing
           \/ asOf \in Dates
    PROVE  ScreenInv'
<1>1. /\ LoadTyped' /\ LoadsAgree' /\ DayAgrees'
  BY DEF ScreenInv, LoadTyped, LoadsAgree, DayAgrees, Dates, contextVars, loadVars
<1>2. NothingBefore'
  BY DEF ScreenInv, NothingBefore, Dates, contextVars, loadVars
<1> QED BY <1>1, <1>2 DEF ScreenInv

\* Where a stream runs a date with a report is selected.
LEMMA StreamsAfter ==
    ASSUME ScreenInv, NEW s \in Speaks, streams[s] # Nothing
    PROVE  asOf \in Dates
BY DEF ScreenInv, NothingBefore, NoStreams, Speaks

\* What is asked now is about what is selected now.
LEMMA AboutSuits ==
    ASSUME LoadTyped, TalkTyped
    PROVE  About \in Context /\ Suits(About) /\ About.role = roleId
BY DEF LoadTyped, TalkTyped, About, Context, Suits

\* Settings change nothing of what is said.
LEMMA SettingsInv ==
    ASSUME ScreenInv, UNCHANGED <<published, requested, contextVars, loadVars>>,
           UNCHANGED <<roleId, thread, streams, analysis>>
    PROVE  ScreenInv'
<1>1. TalkTyped' /\ TalkSuits'
  BY TalkStays DEF ScreenInv, LoadTyped, TalkTyped, contextVars, loadVars
<1> QED BY <1>1, TalkInv

\* With another role the conversation begins anew.
LEMMA RoleInv ==
    ASSUME ScreenInv, NEW role \in Role, RolesLoad(role) \/ ChangeRole(role)
    PROVE  ScreenInv'
<1>1. UNCHANGED <<published, requested, contextVars, loadVars, analysis>> /\ roleId' = role
  BY DEF RolesLoad, ChangeRole, UNCHANGEDServer
<1>2. /\ thread' = <<>>
      /\ streams' = streams \/ streams' = [streams EXCEPT !["master"] = Nothing]
  BY DEF RolesLoad, ChangeRole, ScreenInv, TalkSuits
<1>3. /\ streams' \in [Speaks -> Answering \cup {Nothing}]
      /\ \A s \in Speaks : streams'[s] \in {streams[s], Nothing}
  BY <1>2 DEF ScreenInv, TalkTyped, Speaks
<1>4. TalkTyped'
  BY <1>1, <1>2, <1>3 DEF ScreenInv, TalkTyped, Speaks
<1>5. UNCHANGED <<asOf, revision, selectedCode, initialized>>
  BY <1>1 DEF contextVars, loadVars
<1>6. TalkSuits'
  <2>1. (\A s \in Speaks : streams[s] # Nothing => Suits(streams[s].about))'
    BY <1>3, <1>5 DEF ScreenInv, TalkSuits, Suits
  <2>2. (analysis # Nothing \/ streams["analysis"] # Nothing => Suits(analysis.about))'
    BY <1>1, <1>3, <1>5 DEF ScreenInv, TalkSuits, Suits, Speaks
  <2> QED BY <1>2, <2>1, <2>2 DEF TalkSuits
<1>7. LoadTyped' /\ LoadsAgree' /\ DayAgrees'
  BY <1>1 DEF ScreenInv, LoadTyped, LoadsAgree, DayAgrees, Dates, contextVars, loadVars
<1>8. NothingBefore'
  <2> SUFFICES ASSUME (asOf \notin Dates)'
               PROVE  (day = Nothing /\ thread = <<>> /\ streams = NoStreams /\ analysis = Nothing)'
    BY DEF NothingBefore
  <2>1. day = Nothing /\ streams = NoStreams /\ analysis = Nothing
    BY <1>1 DEF ScreenInv, NothingBefore, Dates, contextVars, loadVars
  <2>2. streams' = NoStreams
    BY <1>2, <2>1 DEF NoStreams
  <2> QED BY <1>1, <1>2, <2>1, <2>2 DEF loadVars
<1> QED BY <1>4, <1>6, <1>7, <1>8 DEF ScreenInv

\* Two more turns at the end of a conversation.
LEMMA TwoMore ==
  ASSUME NEW S, NEW s \in Seq(S), NEW x \in S, NEW y \in S
  PROVE  LET t == s \o <<x, y>>
         IN  /\ t \in Seq(S) /\ Len(t) = Len(s) + 2
             /\ \A i \in 1 .. Len(t) : t[i] = IF i <= Len(s) THEN s[i]
                                           ELSE IF i = Len(s) + 1 THEN x ELSE y
<1> SUFFICES ASSUME NEW said \in Seq(S), Len(said) = 2, said[1] = x, said[2] = y,
                    said = <<x, y>>
             PROVE  /\ s \o said \in Seq(S) /\ Len(s \o said) = Len(s) + 2
                    /\ \A i \in 1 .. Len(s) + 2 :
                          (s \o said)[i] = IF i <= Len(s) THEN s[i]
                                          ELSE IF i = Len(s) + 1 THEN x ELSE y
  OBVIOUS
<1>1. s \o said \in Seq(S) /\ Len(s \o said) = Len(s) + 2
  BY ConcatProperties
<1>2. \A i \in 1 .. Len(s) + 2 :
        (s \o said)[i] = IF i <= Len(s) THEN s[i] ELSE said[i - Len(s)]
  BY ConcatProperties
<1>3. \A i \in 1 .. Len(s) + 2 :
        ~(i <= Len(s)) => i - Len(s) = 1 \/ i - Len(s) = 2
  OBVIOUS
<1>4. \A i \in 1 .. Len(s) + 2 : i - Len(s) = 1 <=> i = Len(s) + 1
  OBVIOUS
<1> QED BY <1>1, <1>2, <1>3, <1>4

\* A question and the place of its answer join the conversation.
LEMMA SendInv == ScreenInv /\ SendMaster => ScreenInv'
<1> SUFFICES ASSUME ScreenInv, SendMaster PROVE ScreenInv'
  OBVIOUS
<1> DEFINE q == [by |-> "user", about |-> About, text |-> TRUE]
           a == [by |-> "assistant", about |-> About, text |-> FALSE]
<1>1. /\ UNCHANGED <<published, requested, contextVars, loadVars, roleId, analysis>>
      /\ roleId # Nothing /\ day # Nothing
      /\ thread' = thread \o <<q, a>> /\ streams' = [streams EXCEPT !["master"] = View]
  BY DEF SendMaster, UNCHANGEDServer
<1>2. About \in Context /\ Suits(About) /\ About.role = roleId
  BY AboutSuits DEF ScreenInv
<1>3. View \in Answering /\ View.about = About
  BY <1>2 DEF View, Answering
<1>4. q \in Turn /\ a \in Turn /\ q.about = About /\ a.about = About
  BY <1>2 DEF Turn
<1> HIDE DEF q, a
<1>5. thread \in Seq(Turn) /\ streams \in [Speaks -> Answering \cup {Nothing}]
  BY DEF ScreenInv, TalkTyped
<1>6. /\ thread' \in Seq(Turn) /\ Len(thread') = Len(thread) + 2
      /\ \A i \in 1 .. Len(thread') : thread'[i] = IF i <= Len(thread) THEN thread[i]
                                                 ELSE IF i = Len(thread) + 1 THEN q ELSE a
  BY <1>1, <1>4, <1>5, TwoMore
<1>7. /\ streams' \in [Speaks -> Answering \cup {Nothing}]
      /\ streams'["master"] = View /\ streams'["analysis"] = streams["analysis"]
  BY <1>1, <1>3, <1>5 DEF Speaks
<1>8. TalkTyped'
  BY <1>1, <1>6, <1>7 DEF ScreenInv, TalkTyped
<1>9. UNCHANGED <<asOf, revision, selectedCode, initialized>>
  BY <1>1 DEF contextVars, loadVars
<1>10. TalkSuits'
  <2>1. (\A s \in Speaks : streams[s] # Nothing => Suits(streams[s].about))'
    BY <1>2, <1>3, <1>7, <1>9 DEF ScreenInv, TalkSuits, Suits, Speaks
  <2>2. (analysis # Nothing \/ streams["analysis"] # Nothing => Suits(analysis.about))'
    BY <1>1, <1>7, <1>9 DEF ScreenInv, TalkSuits, Suits
  <2>3. ASSUME NEW i \in 1 .. Len(thread')
        PROVE  (Suits(thread[i].about) /\ thread[i].about.role = roleId)'
    <3>1. CASE i <= Len(thread)
      <4>1. i \in 1 .. Len(thread) /\ thread'[i] = thread[i]
        BY <1>5, <1>6, <3>1
      <4> QED BY <1>1, <1>9, <4>1 DEF ScreenInv, TalkSuits, Suits
    <3>2. CASE ~(i <= Len(thread))
      BY <1>1, <1>2, <1>4, <1>6, <1>9, <3>2 DEF Suits
    <3> QED BY <3>1, <3>2
  <2> QED BY <1>1, <2>1, <2>2, <2>3 DEF TalkSuits
<1> QED BY <1>1, <1>8, <1>10, TalkInv

\* An analysis is begun.
LEMMA AnalysisInv == ScreenInv /\ StartAnalysis => ScreenInv'
<1> SUFFICES ASSUME ScreenInv, StartAnalysis PROVE ScreenInv'
  OBVIOUS
<1> DEFINE shown == [about |-> About, end |-> "streaming"]
<1>1. /\ UNCHANGED <<published, requested, contextVars, loadVars, roleId, thread>>
      /\ day # Nothing
      /\ analysis' = shown /\ streams' = [streams EXCEPT !["analysis"] = View]
  BY DEF StartAnalysis, UNCHANGEDServer
<1>2. About \in Context /\ Suits(About)
  BY AboutSuits DEF ScreenInv
<1>3. View \in Answering /\ View.about = About
  BY <1>2 DEF View, Answering
<1>4. shown \in Shown /\ shown.about = About
  BY <1>2 DEF Shown
<1> HIDE DEF shown
<1>5. /\ streams' \in [Speaks -> Answering \cup {Nothing}]
      /\ streams'["analysis"] = View /\ streams'["master"] = streams["master"]
  BY <1>1, <1>3 DEF ScreenInv, TalkTyped, Speaks
<1>6. TalkTyped'
  BY <1>1, <1>4, <1>5 DEF ScreenInv, TalkTyped
<1>7. UNCHANGED <<asOf, revision, selectedCode, initialized>>
  BY <1>1 DEF contextVars, loadVars
<1>8. TalkSuits'
  <2>1. (\A s \in Speaks : streams[s] # Nothing => Suits(streams[s].about))'
    BY <1>2, <1>3, <1>5, <1>7 DEF ScreenInv, TalkSuits, Suits, Speaks
  <2>2. Suits(analysis.about)'
    BY <1>1, <1>2, <1>4, <1>7 DEF Suits
  <2> QED BY <1>1, <1>7, <2>1, <2>2 DEF ScreenInv, TalkSuits, Suits
<1> QED BY <1>1, <1>6, <1>8, TalkInv

\* A stream says something more, or is cancelled: it is still about the same.
LEMMA StreamInv ==
    ASSUME ScreenInv, NEW s \in Speaks,
           CancelStream(s) \/ \E event \in {"evidence", "delta", "done", "error"} : StreamSays(s, event)
    PROVE  ScreenInv'
<1>1. /\ UNCHANGED <<published, requested, contextVars, loadVars, roleId, thread, analysis>>
      /\ streams[s] # Nothing
  BY DEF CancelStream, StreamSays, UNCHANGEDServer
<1>2. streams \in [Speaks -> Answering \cup {Nothing}] /\ streams[s] \in Answering
  BY <1>1 DEF ScreenInv, TalkTyped
<1>3. PICK view \in Answering : /\ view.about = streams[s].about
                                /\ streams' = [streams EXCEPT ![s] = view]
  <2>1. CASE CancelStream(s)
    <3> DEFINE v == [streams[s] EXCEPT !.aborted = TRUE]
    <3>1. v \in Answering /\ v.about = streams[s].about /\ streams' = [streams EXCEPT ![s] = v]
      BY <1>2, <2>1 DEF CancelStream, Answering
    <3> HIDE DEF v
    <3> QED BY <3>1
  <2>2. ASSUME NEW event \in {"evidence", "delta", "done", "error"}, StreamSays(s, event)
        PROVE  \E view \in Answering : /\ view.about = streams[s].about
                                      /\ streams' = [streams EXCEPT ![s] = view]
    <3> DEFINE a == [streams[s] EXCEPT !.had = TRUE]
               b == [a EXCEPT !.text = streams[s].text \/ event = "delta"]
               d == [b EXCEPT !.done = event = "done"]
               e == [d EXCEPT !.failed = event = "error"]
    <3>1. a \in Answering /\ a.about = streams[s].about
      BY <1>2 DEF Answering
    <3>2. b \in Answering /\ b.about = streams[s].about
      <4>1. streams[s].text \in BOOLEAN
        BY <1>2 DEF Answering
      <4> HIDE DEF a
      <4> QED BY <3>1, <4>1 DEF Answering
    <3>3. d \in Answering /\ d.about = streams[s].about
      <4> HIDE DEF b
      <4> QED BY <3>2 DEF Answering
    <3>4. e \in Answering /\ e.about = streams[s].about
      <4> HIDE DEF d
      <4> QED BY <3>3 DEF Answering
    <3>5. streams' = [streams EXCEPT ![s] = e]
      <4>1. streams' = [streams EXCEPT ![s] = [streams[s] EXCEPT !.had = TRUE,
                            !.text = streams[s].text \/ event = "delta",
                            !.done = event = "done", !.failed = event = "error"]]
        BY <2>2 DEF StreamSays
      <4> QED BY <4>1
    <3> HIDE DEF e
    <3> QED BY <3>4, <3>5
  <2> QED BY <2>1, <2>2
<1>4. /\ streams' \in [Speaks -> Answering \cup {Nothing}]
      /\ \A t \in Speaks : streams'[t] # Nothing =>
             streams[t] # Nothing /\ streams'[t].about = streams[t].about
  BY <1>1, <1>2, <1>3
<1>5. TalkTyped'
  BY <1>1, <1>4 DEF ScreenInv, TalkTyped, Speaks
<1>6. UNCHANGED <<asOf, revision, selectedCode, initialized>>
  BY <1>1 DEF contextVars, loadVars
<1>7. TalkSuits'
  BY <1>1, <1>4, <1>6 DEF ScreenInv, TalkSuits, Suits, Speaks
<1>8. asOf \in Dates
  BY <1>1, StreamsAfter
<1> QED BY <1>1, <1>5, <1>7, <1>8, TalkInv

\* A stream ends: what it said is kept where it was asked.
LEMMA StopInv ==
    ASSUME ScreenInv, NEW s \in Speaks, NEW well \in BOOLEAN, StreamStops(s, well)
    PROVE  ScreenInv'
<1>1. /\ UNCHANGED <<published, requested, contextVars, loadVars, roleId>>
      /\ streams[s] # Nothing /\ streams' = [streams EXCEPT ![s] = Nothing]
  BY DEF StreamStops
<1>2. /\ streams \in [Speaks -> Answering \cup {Nothing}] /\ streams[s] \in Answering
      /\ thread \in Seq(Turn)
  BY <1>1 DEF ScreenInv, TalkTyped
<1>3. /\ streams' \in [Speaks -> Answering \cup {Nothing}]
      /\ \A t \in Speaks : streams'[t] # Nothing => streams[t] # Nothing /\ streams'[t] = streams[t]
  BY <1>1, <1>2
<1>4. UNCHANGED <<asOf, revision, selectedCode, initialized>>
  BY <1>1 DEF contextVars, loadVars
<1>5. asOf \in Dates
  BY <1>1, StreamsAfter
<1>6. CASE s = "master"
  <2>1. analysis' = analysis /\ thread' = [thread EXCEPT ![Len(thread)].text = streams[s].text]
    BY <1>6 DEF StreamStops
  <2>2. streams[s].text \in BOOLEAN
    BY <1>2 DEF Answering
  <2>3. /\ thread' \in Seq(Turn) /\ Len(thread') = Len(thread)
        /\ \A i \in 1 .. Len(thread) : thread'[i].about = thread[i].about
    <3>1. CASE thread = <<>>
      <4>1. Len(thread) = 0 /\ thread \in [1 .. 0 -> Turn] /\ Len(thread) \notin 1 .. 0
        BY <1>2, <3>1
      <4>2. thread' \in [1 .. 0 -> Turn]
        BY <2>1, <4>1
      <4>3. thread' = <<>>
        BY <4>2
      <4> QED BY <1>2, <3>1, <4>3
    <3>2. CASE thread # <<>>
      <4> DEFINE n == Len(thread)
                 last == [thread[n] EXCEPT !.text = streams[s].text]
      <4>1. n \in 1 .. Len(thread) /\ thread[n] \in Turn
        BY <1>2, <3>2
      <4>2. last \in Turn /\ last.about = thread[n].about
        BY <2>2, <4>1 DEF Turn
      <4>3. thread' = [thread EXCEPT ![n] = last]
        BY <2>1
      <4> HIDE DEF last, n
      <4> QED BY <1>2, <4>1, <4>2, <4>3
    <3> QED BY <3>1, <3>2
  <2>4. TalkTyped'
    BY <1>1, <1>3, <2>1, <2>3 DEF ScreenInv, TalkTyped, Speaks
  <2>5. thread = <<>> => thread' = <<>>
    BY <1>2, <2>3
  <2>6. TalkSuits'
    BY <1>1, <1>3, <1>4, <2>1, <2>3, <2>5 DEF ScreenInv, TalkSuits, Suits, Speaks
  <2> QED BY <1>1, <1>5, <2>4, <2>6, TalkInv
<1>7. CASE s = "analysis"
  <2>1. thread' = thread /\ \E end \in {"done", "cancelled", "failed"} : analysis' = [analysis EXCEPT !.end = end]
    BY <1>7 DEF StreamStops
  <2>2. analysis \in Shown
    BY <1>1, <1>7 DEF ScreenInv, TalkTyped
  <2>3. analysis' \in Shown /\ analysis'.about = analysis.about
    BY <2>1, <2>2 DEF Shown
  <2>4. TalkTyped'
    BY <1>1, <1>3, <2>1, <2>3 DEF ScreenInv, TalkTyped
  <2>5. Suits(analysis.about)
    BY <1>1, <1>7 DEF ScreenInv, TalkSuits
  <2>6. TalkSuits'
    BY <1>1, <1>3, <1>4, <2>1, <2>3, <2>5 DEF ScreenInv, TalkSuits, Suits
  <2> QED BY <1>1, <1>5, <2>4, <2>6, TalkInv
<1> QED BY <1>6, <1>7 DEF Speaks

\* Every step keeps the invariant.
LEMMA ScreenStepInv == ScreenInv /\ [ScreenNext]_screenVars => ScreenInv'
<1> SUFFICES ASSUME ScreenInv, [ScreenNext]_screenVars PROVE ScreenInv'
  OBVIOUS
<1>1. ASSUME NEW c \in calls, DashboardAnswers(c) PROVE ScreenInv'
  BY <1>1, DashboardInv
<1>2. ASSUME NEW c \in calls, EventAnswers(c) PROVE ScreenInv'
  BY <1>2, EventInv DEF EventAnswers
<1>3. ASSUME NEW c \in calls, CallFails(c) PROVE ScreenInv'
  BY <1>3, CallFailsInv
<1>4. ASSUME NEW c \in calls, NEW events \in SUBSET Stock, DayAnswers(c, events) PROVE ScreenInv'
  BY <1>4, DayInv
<1>5. ASSUME NEW d \in Day, ChangeDate(d) PROVE ScreenInv'
  BY <1>5, ChangeDateInv
<1>6. ASSUME NEW rev \in 1 .. MaxRevisions, ChangeRevision(rev) PROVE ScreenInv'
  BY <1>6, ChangeRevisionInv
<1>7. ASSUME NEW code \in Stock, ClickRow(code) PROVE ScreenInv'
  BY <1>7, ClickInv
<1>8. CASE RefreshReview \/ \E d \in Day : Publishes(d)
  BY <1>8, RefreshInv
<1>9. CASE Talk
  <2>1. CASE \/ OpenSettings \/ SaveSettings
             \/ \E mode \in {"configured", "unconfigured", "unavailable"} : ConfigAnswers(mode)
             \/ \E mode \in {"configured", "unconfigured"} : SaveAnswers(mode)
    <3>1. /\ UNCHANGED <<published, requested, contextVars, loadVars>>
          /\ UNCHANGED <<roleId, thread, streams, analysis>>
      BY <2>1 DEF OpenSettings, SaveSettings, ConfigAnswers, SaveAnswers, UNCHANGEDServer
    <3> QED BY <3>1, SettingsInv
  <2>2. ASSUME NEW role \in Role, RolesLoad(role) \/ ChangeRole(role) PROVE ScreenInv'
    BY <2>2, RoleInv
  <2>3. CASE SendMaster
    BY <2>3, SendInv
  <2>4. CASE StartAnalysis
    BY <2>4, AnalysisInv
  <2>5. ASSUME NEW s \in Speaks,
               CancelStream(s) \/ \E event \in {"evidence", "delta", "done", "error"} : StreamSays(s, event)
        PROVE  ScreenInv'
    BY <2>5, StreamInv
  <2>6. ASSUME NEW s \in Speaks, NEW well \in BOOLEAN, StreamStops(s, well) PROVE ScreenInv'
    BY <2>6, StopInv
  <2> QED BY <1>9, <2>1, <2>2, <2>3, <2>4, <2>5, <2>6 DEF Talk, Speaks
<1>10. CASE UNCHANGED screenVars
  <2>1. /\ UNCHANGED <<published, requested, contextVars, loadVars>>
        /\ UNCHANGED <<roleId, thread, streams, analysis>>
    BY <1>10 DEF screenVars, contextVars, loadVars
  <2> QED BY <2>1, SettingsInv
<1> QED BY <1>1, <1>2, <1>3, <1>4, <1>5, <1>6, <1>7, <1>8, <1>9, <1>10 DEF ScreenNext

\* Whatever answers are on their way when the reader moves on, what is shown, asked and
\* told to a role is about the date, the revision, the stock and the role that are
\* selected, for any dates, stocks and roles. (review.js loadDay, selectEvent)
THEOREM ScreenIsOneHolds == ScreenSpec => []ScreenIsOne
<1>1. ScreenInv => ScreenIsOne
  BY DEF ScreenInv, ScreenIsOne, DayAgrees, TalkSuits, Suits, TalkTyped, Speaks
<1>2. ScreenSpec => []ScreenInv
  BY ScreenInitInv, ScreenStepInv, PTL DEF ScreenSpec
<1> QED BY <1>1, <1>2, PTL

-----------------------------------------------------------------------------
(***************************************************************************)
(* ChannelClients, for any goroutines that share the client.               *)
(*                                                                         *)
(* A Send that is under way has left no draft: whatever it posts again was *)
(* refused, and any other answer to a draft ends it.                       *)
(***************************************************************************)

DraftTyped ==
    /\ drafts \in [Sender -> Nat]
    /\ doing = [s \in Sender |-> doing[s]]
    /\ result = [s \in Sender |-> result[s]]
    /\ purpose \in [Sender -> {"cover", "draft"}]

\* A Send that is under way has left no draft and returned nothing.
NoneYet == \A s \in Sender : doing[s] # "idle" => drafts[s] = 0 /\ result[s] = "none"

DraftInv == DraftTyped /\ NoneYet /\ DraftIsKnown

\* A step that leaves drafts and results alone, and starts no Send.
LEMMA DraftsStay ==
    ASSUME DraftInv, UNCHANGED <<drafts, result>>, purpose' \in [Sender -> {"cover", "draft"}],
           doing' = [s \in Sender |-> doing'[s]],
           \A s \in Sender : doing'[s] # "idle" => doing[s] # "idle"
    PROVE  DraftInv'
<1>1. DraftTyped'
  BY DEF DraftInv, DraftTyped
<1>2. NoneYet'
  BY DEF DraftInv, DraftTyped, NoneYet
<1>3. DraftIsKnown'
  BY DEF DraftInv, DraftIsKnown
<1> QED BY <1>1, <1>2, <1>3 DEF DraftInv

\* A Send begins, or is refused before it asks anything.
LEMMA BeginSendInv ==
    ASSUME DraftInv, NEW s \in Sender, BeginSend(s)
    PROVE  DraftInv'
<1>1. DraftTyped'
  BY DEF BeginSend, MoveTo, DraftInv, DraftTyped
<1>2. NoneYet' /\ DraftIsKnown'
  BY DEF BeginSend, MoveTo, DraftInv, DraftTyped, NoneYet, DraftIsKnown
<1> QED BY <1>1, <1>2 DEF DraftInv

\* A Send returns with what one answer said.
LEMMA ReturnInv ==
    ASSUME DraftInv, NEW s \in Sender, NEW reply \in Reply, doing[s] # "idle",
           Return(s, KindOf(reply)), drafts' \in {drafts, [drafts EXCEPT ![s] = @ + 1]},
           UNCHANGED purpose,
           reply = "ok" => drafts' # drafts,
           reply \in {"token_error", "api_busy", "api_refused", "http_refused"} => drafts' = drafts
    PROVE  DraftInv'
<1>1. /\ doing' = [doing EXCEPT ![s] = "idle"]
      /\ result' = [result EXCEPT ![s] = KindOf(reply)]
  BY DEF Return
<1>2. DraftTyped'
  <2>1. drafts' \in [Sender -> Nat] /\ purpose' \in [Sender -> {"cover", "draft"}]
    BY DEF DraftInv, DraftTyped
  <2>2. /\ doing' = [t \in Sender |-> doing'[t]]
        /\ result' = [t \in Sender |-> result'[t]]
    BY <1>1 DEF DraftInv, DraftTyped
  <2> QED BY <2>1, <2>2 DEF DraftTyped
<1>3. /\ drafts[s] = 0 /\ drafts'[s] \in {0, 1} /\ result'[s] = KindOf(reply)
      /\ \A t \in Sender : t # s => drafts'[t] = drafts[t] /\ result'[t] = result[t] /\ doing'[t] = doing[t]
      /\ doing'[s] = "idle"
      /\ drafts' # drafts => drafts'[s] = 1
  BY <1>1 DEF DraftInv, DraftTyped, NoneYet
<1>4. NoneYet'
  BY <1>3 DEF DraftInv, NoneYet
<1>5. /\ KindOf(reply) = "delivered" => reply = "ok"
      /\ KindOf(reply) = "permanent" => reply \in {"http_refused", "api_refused"}
  BY DEF KindOf, Reply
<1>6. DraftIsKnown'
  BY <1>3, <1>5 DEF DraftInv, DraftIsKnown
<1> QED BY <1>2, <1>4, <1>6 DEF DraftInv

\* The account answers for a token.
LEMMA TokenAnswersInv ==
    ASSUME DraftInv, NEW s \in Sender, NEW reply \in Reply, TokenAnswers(s, reply)
    PROVE  DraftInv'
<1>1. CASE reply = "ok"
  <2>1. UNCHANGED <<drafts, result, purpose>> /\ doing' = [doing EXCEPT ![s] = "post"] /\ doing[s] = "fetch"
    BY <1>1 DEF TokenAnswers, MoveTo
  <2> QED BY <2>1, DraftsStay DEF DraftInv, DraftTyped
<1>2. CASE reply # "ok"
  BY <1>2, ReturnInv DEF TokenAnswers
<1> QED BY <1>1, <1>2

\* The account answers for a cover or a draft.
LEMMA PostAnswersInv ==
    ASSUME DraftInv, NEW s \in Sender, NEW reply \in Reply, PostAnswers(s, reply)
    PROVE  DraftInv'
<1>1. /\ doing[s] = "post" /\ drafts' \in {drafts, [drafts EXCEPT ![s] = @ + 1]}
      /\ drafts' # drafts => purpose[s] = "draft" /\ reply \in Taking
  BY DEF PostAnswers
<1>2. purpose \in [Sender -> {"cover", "draft"}]
  BY DEF DraftInv, DraftTyped
<1>3. CASE isTokenError(reply) /\ attempt[s] = 0
  <2>1. UNCHANGED <<drafts, result, purpose>> /\ doing' = [doing EXCEPT ![s] = "invalidate"]
    BY <1>1, <1>3 DEF PostAnswers, isTokenError, Taking, MoveTo
  <2> QED BY <1>1, <1>2, <2>1, DraftsStay DEF DraftInv, DraftTyped
<1>4. CASE reply = "ok" /\ purpose[s] = "cover"
  <2>1. /\ UNCHANGED <<drafts, result>> /\ doing' = [doing EXCEPT ![s] = "token"]
        /\ purpose' = [purpose EXCEPT ![s] = "draft"]
    BY <1>1, <1>4 DEF PostAnswers, isTokenError, MoveTo
  <2>2. purpose' \in [Sender -> {"cover", "draft"}]
    BY <1>2, <2>1
  <2> QED BY <1>1, <2>1, <2>2, DraftsStay DEF DraftInv, DraftTyped
<1>5. CASE ~(isTokenError(reply) /\ attempt[s] = 0) /\ ~(reply = "ok" /\ purpose[s] = "cover")
  <2>1. Return(s, KindOf(reply)) /\ UNCHANGED purpose
    BY <1>5 DEF PostAnswers
  <2>2. reply = "ok" => drafts' # drafts
    BY <1>2, <1>5 DEF PostAnswers
  <2>3. reply \in {"token_error", "api_busy", "api_refused", "http_refused"} => drafts' = drafts
    BY <1>1 DEF Taking
  <2> QED BY <1>1, <2>1, <2>2, <2>3, ReturnInv
<1> QED BY <1>3, <1>4, <1>5

\* Every step keeps the invariant.
LEMMA DraftStepInv == DraftInv /\ [ClientNext]_clientVars => DraftInv'
<1> SUFFICES ASSUME DraftInv, [ClientNext]_clientVars PROVE DraftInv'
  OBVIOUS
<1>1. CASE Rotate \/ TokenAges \/ UNCHANGED clientVars
  <2>1. UNCHANGED <<drafts, result, purpose, doing>>
    BY <1>1 DEF Rotate, TokenAges, clientVars
  <2> QED BY <2>1 DEF DraftInv, DraftTyped, NoneYet, DraftIsKnown
<1>2. ASSUME NEW s \in Sender, BeginSend(s) PROVE DraftInv'
  BY <1>2, BeginSendInv
<1>3. ASSUME NEW s \in Sender, EnterCover(s) \/ TakeToken(s) \/ Invalidate(s) PROVE DraftInv'
  <2>1. /\ UNCHANGED <<drafts, result>> /\ doing[s] # "idle"
        /\ purpose' \in {purpose, [purpose EXCEPT ![s] = "draft"]}
        /\ \E there \in {"token", "post", "fetch"} : doing' = [doing EXCEPT ![s] = there]
    BY <1>3 DEF EnterCover, TakeToken, Invalidate, MoveTo
  <2>2. purpose' \in [Sender -> {"cover", "draft"}]
    BY <2>1 DEF DraftInv, DraftTyped
  <2> QED BY <2>1, <2>2, DraftsStay DEF DraftInv, DraftTyped
<1>4. ASSUME NEW s \in Sender, NEW reply \in Reply, TokenAnswers(s, reply) PROVE DraftInv'
  BY <1>4, TokenAnswersInv
<1>5. ASSUME NEW s \in Sender, NEW reply \in Reply, PostAnswers(s, reply) PROVE DraftInv'
  BY <1>5, PostAnswersInv
<1> QED BY <1>1, <1>2, <1>3, <1>4, <1>5 DEF ClientNext

\* A Send leaves one draft at most; what it reports as delivered is in the account and
\* what it reports as refused for good is not, for any number of goroutines that share
\* the client, its token and its cover. (wechat.go addDraft)
THEOREM DraftIsKnownHolds == ClientSpec => []DraftIsKnown
<1>1. ClientInit => DraftInv
  BY DEF ClientInit, DraftInv, DraftTyped, NoneYet, DraftIsKnown
<1>2. ClientSpec => []DraftInv
  BY <1>1, DraftStepInv, PTL DEF ClientSpec
<1>3. DraftInv => DraftIsKnown
  BY DEF DraftInv
<1> QED BY <1>2, <1>3, PTL

-----------------------------------------------------------------------------
(***************************************************************************)
(* AdvisorTurn, for any questions, evidence and models.                    *)
(*                                                                         *)
(* Until the turn returns nothing was told that ends it, and the reason is *)
(* set before it is told (Telling); what the last event will be said of is *)
(* decided before (OnItsWay).                                              *)
(***************************************************************************)

\* Before the turn returns nothing that ends it was told, and nothing is wrong.
Working == {"idle", "classify", "intent", "plan", "query", "prompt", "generate", "citation", "done",
            "no_answer", "fixed_evidence", "fixed_prompt", "fixed_delta"}
Told == {"intent", "plan", "evidence", "prompt", "delta", "citation", "done", "error"}
Telling ==
    /\ told \in Seq(Told)
    /\ stage \in Working \cup {"failing", "returned"}
    /\ context \in {"live", "cancelled", "expired"}
    /\ stage # "returned" => \A i \in 1 .. Len(told) : told[i] \notin Ending
    /\ stage \in Working => reason = "none"
    /\ stage = "failing" => reason # "none"

\* What "done" will be said of.
Answered == deterministicOnly(understood) \/ (whole /\ failed # understood)
OnItsWay ==
    /\ stage \in {"prompt", "generate"} => failed # understood
    /\ stage \in {"fixed_evidence", "fixed_prompt", "fixed_delta"} => deterministicOnly(understood)
    /\ stage \in {"citation", "done"} => Answered

TurnInv == Telling /\ OnItsWay /\ OneEnding

\* An event is told that ends nothing, or cannot be written.
LEMMA TellInv ==
    ASSUME TurnInv, stage \in Working, NEW event \in Told \ Ending, NEW next \in Working,
           Tell(event, next), UNCHANGED <<context, understood, failed, whole>>,
           next \in {"prompt", "generate"} => failed # understood,
           next \in {"fixed_evidence", "fixed_prompt", "fixed_delta"} => deterministicOnly(understood),
           next \in {"citation", "done"} => Answered
    PROVE  TurnInv'
<1>1. told \in Seq(Told) /\ reason = "none" /\ \A i \in 1 .. Len(told) : told[i] \notin Ending
  BY DEF TurnInv, Telling, Working
<1>2. CASE writer = "open" /\ told' = Append(told, event) /\ stage' = next /\ UNCHANGED <<writer, reason>>
  <2>1. /\ told' \in Seq(Told) /\ Len(told') = Len(told) + 1
        /\ \A i \in 1 .. Len(told') : told'[i] \notin Ending
    BY <1>1, <1>2
  <2>2. Last(told') = event
    <3>1. told'[Len(told) + 1] = event
      BY <1>1, <1>2
    <3> QED BY <2>1, <3>1 DEF Last
  <2>3. Telling'
    BY <1>1, <1>2, <2>1 DEF TurnInv, Telling, Working
  <2>4. OnItsWay'
    BY <1>2 DEF OnItsWay, Answered, deterministicOnly
  <2>5. OneEnding'
    BY <1>2, <2>1, <2>2 DEF OneEnding, Working, Ending
  <2> QED BY <2>3, <2>4, <2>5 DEF TurnInv
<1>3. CASE writer' = "broken" /\ stage' = "returned" /\ reason' = "emit" /\ UNCHANGED told
  <2>1. told # <<>> => Last(told) \notin Ending
    BY <1>1 DEF Last
  <2>2. OneEnding'
    BY <1>1, <1>3, <2>1 DEF OneEnding, Ending
  <2>3. Telling' /\ OnItsWay'
    BY <1>1, <1>3 DEF TurnInv, Telling, OnItsWay, Working
  <2> QED BY <2>2, <2>3 DEF TurnInv
<1> QED BY <1>2, <1>3 DEF Tell

\* The event that ends a turn is told, or cannot be written.
LEMMA TellEndInv ==
    ASSUME TurnInv, NEW event \in Ending, Tell(event, "returned"),
           \/ stage = "failing" /\ event = "error"
           \/ stage = "done" /\ event = "done",
           UNCHANGED <<context, understood, failed, whole>>
    PROVE  TurnInv'
<1>1. /\ told \in Seq(Told) /\ \A i \in 1 .. Len(told) : told[i] \notin Ending
      /\ reason = "none" <=> event = "done"
      /\ event = "done" => Answered
  BY DEF TurnInv, Telling, OnItsWay, Working
<1>2. CASE writer = "open" /\ told' = Append(told, event) /\ stage' = "returned" /\ UNCHANGED <<writer, reason>>
  <2>1. /\ told' \in Seq(Told) /\ Len(told') = Len(told) + 1 /\ told' # <<>>
        /\ \A i \in 1 .. Len(told') : told'[i] \in Ending => i = Len(told')
    <3>1. event \in Told
      BY DEF Ending, Told
    <3> QED BY <1>1, <1>2, <3>1
  <2>2. Last(told') = event
    <3>1. told'[Len(told) + 1] = event
      BY <1>1, <1>2
    <3> QED BY <2>1, <3>1 DEF Last
  <2>3. Telling' /\ OnItsWay'
    BY <1>2, <2>1 DEF TurnInv, Telling, OnItsWay, Working
  <2>4. OneEnding'
    BY <1>1, <1>2, <2>1, <2>2 DEF OneEnding, Answered, deterministicOnly
  <2> QED BY <2>3, <2>4 DEF TurnInv
<1>3. CASE writer' = "broken" /\ stage' = "returned" /\ reason' = "emit" /\ UNCHANGED told
  <2>1. told # <<>> => Last(told) \notin Ending
    BY <1>1 DEF Last
  <2>2. OneEnding'
    BY <1>1, <1>3, <2>1 DEF OneEnding, Ending
  <2>3. Telling' /\ OnItsWay'
    BY <1>1, <1>3 DEF TurnInv, Telling, OnItsWay, Working
  <2> QED BY <2>2, <2>3 DEF TurnInv
<1> QED BY <1>2, <1>3 DEF Tell

\* Nothing is told, and the turn goes on or is about to fail.
LEMMA QuietlyInv ==
    ASSUME TurnInv, stage # "returned", stage' # "returned", UNCHANGED <<told, writer>>,
           Telling', OnItsWay'
    PROVE  TurnInv'
<1>1. told # <<>> => Last(told) \notin Ending
  BY DEF TurnInv, Telling, Last
<1>2. OneEnding'
  BY <1>1 DEF TurnInv, Telling, OneEnding, Ending
<1> QED BY <1>2 DEF TurnInv

\* Every step keeps the invariant.
LEMMA TurnStepInv == TurnInv /\ [TurnNext]_turnVars => TurnInv'
<1> SUFFICES ASSUME TurnInv, [TurnNext]_turnVars PROVE TurnInv'
  OBVIOUS
<1> USE DEF Working
<1>1. CASE AcceptTurn
  <2>1. Telling' /\ OnItsWay'
    BY <1>1 DEF AcceptTurn, TurnInv, Telling, OnItsWay
  <2> QED BY <1>1, <2>1, QuietlyInv DEF AcceptTurn
<1>2. CASE Classified
  <2>1. /\ stage = "classify" /\ stage' \in {"intent", "failing"} /\ UNCHANGED <<told, writer, context>>
        /\ stage' = "intent" => reason' = reason
        /\ stage' = "failing" => reason' = context /\ context # "live"
    BY <1>2 DEF Classified, Fail
  <2>2. Telling' /\ OnItsWay'
    BY <2>1 DEF TurnInv, Telling, OnItsWay
  <2> QED BY <2>1, <2>2, QuietlyInv
<1>3. CASE TellIntent
  BY <1>3, TellInv DEF TellIntent, Ending, Told
<1>4. CASE TellPlan
  <2> DEFINE next == IF deterministicOnly(understood) THEN "fixed_evidence" ELSE "query"
  <2>1. /\ Tell("plan", next) /\ next \in Working /\ stage = "plan"
        /\ next \in {"fixed_evidence", "fixed_prompt", "fixed_delta"} => deterministicOnly(understood)
        /\ next \notin {"prompt", "generate", "citation", "done"}
        /\ UNCHANGED <<context, understood, failed, whole>>
    BY <1>4 DEF TellPlan
  <2> HIDE DEF next
  <2> QED BY <2>1, TellInv DEF Ending, Told
<1>5. CASE TellEvidence
  <2> DEFINE next == IF AllFailed \/ ~llm THEN "no_answer" ELSE "prompt"
  <2>1. /\ Tell("evidence", next) /\ next \in {"no_answer", "prompt"} /\ stage = "query"
        /\ next = "prompt" => failed # understood
        /\ UNCHANGED <<context, understood, failed, whole>>
    BY <1>5 DEF TellEvidence, AllFailed
  <2> HIDE DEF next
  <2> QED BY <2>1, TellInv DEF Ending, Told
<1>6. CASE NoAnswer
  <2>1. /\ stage = "no_answer" /\ stage' = "failing" /\ UNCHANGED <<told, writer, context>>
        /\ reason' \in {"all_intents_failed", "llm_not_configured"}
    BY <1>6 DEF NoAnswer, Fail
  <2>2. Telling' /\ OnItsWay'
    BY <2>1 DEF TurnInv, Telling, OnItsWay
  <2> QED BY <2>1, <2>2, QuietlyInv
<1>7. CASE TellPrompt \/ StreamDelta
  <2>1. /\ \E event \in {"prompt", "delta"} : Tell(event, "generate")
        /\ stage \in {"prompt", "generate"} /\ UNCHANGED <<context, understood, failed, whole>>
    BY <1>7 DEF TellPrompt, StreamDelta
  <2>2. failed # understood
    BY <2>1 DEF TurnInv, OnItsWay
  <2> QED BY <2>1, <2>2, TellInv DEF Ending, Told
<1>8. CASE TellCitation
  <2>1. Answered
    BY <1>8 DEF TellCitation, TurnInv, OnItsWay
  <2> QED BY <1>8, <2>1, TellInv DEF TellCitation, Ending, Told
<1>9. CASE TellDone
  BY <1>9, TellEndInv DEF TellDone, Ending
<1>10. CASE TellFixed
  <2>1. /\ \/ Tell("evidence", "fixed_prompt") \/ Tell("prompt", "fixed_delta") \/ Tell("delta", "citation")
        /\ stage \in {"fixed_evidence", "fixed_prompt", "fixed_delta"}
        /\ UNCHANGED <<context, understood, failed, whole>>
    BY <1>10 DEF TellFixed
  <2>2. deterministicOnly(understood) /\ Answered
    BY <2>1 DEF TurnInv, OnItsWay, Answered
  <2> QED BY <2>1, <2>2, TellInv DEF Ending, Told
<1>11. CASE TellFailure
  BY <1>11, TellEndInv DEF TellFailure, Ending
<1>12. CASE ContextEnds
  <2>1. Telling' /\ OnItsWay'
    BY <1>12 DEF ContextEnds, TurnInv, Telling, OnItsWay, Answered, deterministicOnly
  <2> QED BY <1>12, <2>1, QuietlyInv DEF ContextEnds
<1>13. ASSUME NEW intent \in left, QueryOne(intent) PROVE TurnInv'
  <2>1. /\ stage = "query" /\ UNCHANGED <<told, writer, context>>
        /\ \/ UNCHANGED <<stage, reason>>
           \/ stage' = "failing" /\ reason' = context /\ context # "live"
    BY <1>13 DEF QueryOne, Fail
  <2>2. Telling' /\ OnItsWay'
    BY <2>1 DEF TurnInv, Telling, OnItsWay
  <2> QED BY <2>1, <2>2, QuietlyInv
<1>14. ASSUME NEW ending \in {"DONE", "EOF", "timeout", "broken"}, StreamEnds(ending) PROVE TurnInv'
  <2>1. /\ stage = "generate" /\ UNCHANGED <<told, writer, context, understood, failed>>
        /\ \/ stage' = "citation" /\ whole' = TRUE /\ UNCHANGED reason
           \/ stage' = "failing" /\ reason' = EndReason(ending)
    BY <1>14 DEF StreamEnds, Completes, Fail
  <2>2. EndReason(ending) # "none" /\ failed # understood
    BY <2>1 DEF EndReason, TurnInv, Telling, OnItsWay
  <2>3. Telling' /\ OnItsWay'
    BY <2>1, <2>2 DEF TurnInv, Telling, OnItsWay, Answered
  <2> QED BY <2>1, <2>3, QuietlyInv
<1>15. CASE UNCHANGED turnVars
  BY <1>15 DEF turnVars, TurnInv, Telling, OnItsWay, OneEnding, Answered, deterministicOnly
<1> QED BY <1>1, <1>2, <1>3, <1>4, <1>5, <1>6, <1>7, <1>8, <1>9, <1>10, <1>11, <1>12, <1>13,
           <1>14, <1>15 DEF TurnNext

\* However a turn ends or is cut, the reader is told one ending and nothing after it,
\* and "done" only of a whole answer, for any queries, models and connections.
\* (advisor.go run)
THEOREM OneEndingHolds == TurnSpec => []OneEnding
<1>1. TurnInit => TurnInv
  BY DEF TurnInit, TurnInv, Telling, OnItsWay, OneEnding, Working
<1>2. TurnSpec => []TurnInv
  BY <1>1, TurnStepInv, PTL DEF TurnSpec
<1>3. TurnInv => OneEnding
  BY DEF TurnInv
<1> QED BY <1>2, <1>3, PTL

-----------------------------------------------------------------------------
(***************************************************************************)
(* ReviewProjection, for any calendar and any stored sessions.             *)
(***************************************************************************)

\* A set of numbers has a least element.
LEMMA LeastIn ==
    ASSUME NEW X \in SUBSET Nat, X # {}
    PROVE  \E x \in X : \A y \in X : x <= y
<1>1. IsWellFoundedOn(OpToRel(<, Nat), Nat)
  BY NatLessThanWellFounded
<1>2. PICK x \in X : \A y \in X : ~(<<y, x>> \in OpToRel(<, Nat))
  BY <1>1, WFMin
<1>3. \A y \in X : x <= y
  <2> SUFFICES ASSUME NEW y \in X PROVE x <= y
    OBVIOUS
  <2>1. x \in Nat /\ y \in Nat /\ ~(y < x)
    BY <1>2 DEF OpToRel
  <2> QED BY <2>1
<1> QED BY <1>2, <1>3


\* A calendar of a reading: its days are dates of the window.
IsCalendar(cal) == cal.through \in Nat /\ cal.days \subseteq Nat

\* The calendar of a later reading says the same of the days the earlier one had.
Continues(cal, longer) ==
    /\ cal.through <= longer.through
    /\ \A d \in Nat : d <= cal.through => (d \in cal.days <=> d \in longer.days)

\* The sessions of a later reading begin with those of the earlier one.
Begins(future, longer) ==
    Len(future) <= Len(longer) /\ \A i \in 1 .. Len(future) : longer[i] = future[i]

\* What Next finds: the first trading day after the date.
LEMMA NextDayIs ==
    ASSUME NEW cal, IsCalendar(cal), NEW date \in Nat, NextExists(cal, date)
    PROVE  /\ NextDay(cal, date) \in cal.days /\ NextDay(cal, date) \in Nat
           /\ date < NextDay(cal, date) /\ NextDay(cal, date) <= cal.through
           /\ NextDay(cal, date) <= date + Searched
           /\ \A d \in cal.days : date < d => NextDay(cal, date) <= d
<1>1. Coming(cal, date) \in SUBSET Nat /\ Coming(cal, date) # {}
  BY DEF IsCalendar, Coming, NextExists
<1>2. \E d \in Coming(cal, date) : \A e \in Coming(cal, date) : d <= e
  BY <1>1, LeastIn
<1>3. /\ NextDay(cal, date) \in Coming(cal, date)
      /\ \A e \in Coming(cal, date) : NextDay(cal, date) <= e
  BY <1>2 DEF NextDay
<1>4. /\ NextDay(cal, date) \in cal.days /\ NextDay(cal, date) \in Nat
      /\ date < NextDay(cal, date) /\ NextDay(cal, date) <= cal.through
      /\ NextDay(cal, date) <= date + Searched
  BY <1>1, <1>3 DEF Coming
<1>5. ASSUME NEW d \in cal.days, date < d PROVE NextDay(cal, date) <= d
  <2>1. d \in Nat /\ cal.through \in Nat /\ Searched \in Nat
    BY DEF IsCalendar, Searched
  <2>2. CASE d \in Coming(cal, date)
    BY <1>3, <2>2
  <2>3. CASE d \notin Coming(cal, date)
    <3>1. ~(d <= date + Searched) \/ ~(d <= cal.through)
      BY <1>5, <2>3 DEF Coming
    <3> HIDE DEF Searched
    <3> QED BY <1>4, <2>1, <3>1
  <2> QED BY <2>2, <2>3
<1> QED BY <1>4, <1>5

\* A later calendar has the same day next.
LEMMA NextDayStays ==
    ASSUME NEW cal, NEW longer, IsCalendar(cal), IsCalendar(longer), Continues(cal, longer),
           NEW date \in Nat, NextExists(cal, date)
    PROVE  NextExists(longer, date) /\ NextDay(longer, date) = NextDay(cal, date)
<1> DEFINE n == NextDay(cal, date)
           m == NextDay(longer, date)
<1>1. /\ n \in cal.days /\ n \in Nat /\ date < n /\ n <= cal.through /\ n <= date + Searched
      /\ \A d \in cal.days : date < d => n <= d
  BY NextDayIs
<1>2. cal.through \in Nat /\ longer.through \in Nat /\ cal.through <= longer.through
  BY DEF IsCalendar, Continues
<1>3. n \in longer.days /\ n <= longer.through
  BY <1>1, <1>2 DEF Continues
<1>4. NextExists(longer, date)
  BY <1>1, <1>3 DEF NextExists, Coming
<1>5. /\ m \in longer.days /\ m \in Nat /\ date < m
      /\ \A d \in longer.days : date < d => m <= d
  BY <1>4, NextDayIs
<1> HIDE DEF n, m
<1>6. m <= n
  BY <1>1, <1>3, <1>5
<1>7. m \in cal.days
  BY <1>1, <1>2, <1>5, <1>6 DEF Continues
<1>8. n <= m
  BY <1>1, <1>5, <1>7
<1>9. n = m
  BY <1>1, <1>5, <1>6, <1>8
<1> QED BY <1>4, <1>9 DEF n, m

\* The first of a set of numbers.
LEMMA FirstDayIs ==
    ASSUME NEW days \in SUBSET Nat, days # {}
    PROVE  FirstDay(days) \in days /\ \A e \in days : FirstDay(days) <= e
<1>1. \E d \in days : \A e \in days : d <= e
  BY LeastIn
<1> QED BY <1>1 DEF FirstDay

\* What a session decided, it decides in every later reading, unless the calendar of the
\* earlier one ended with the session before.
LEMMA DecisionStays ==
    ASSUME NEW code \in ReviewCode, NEW cal, NEW longer, IsCalendar(cal), IsCalendar(longer),
           Continues(cal, longer), NEW future \in Seq(Bar), NEW further \in Seq(Bar),
           Begins(future, further), NEW nth \in 1 .. LotDays, nth + 1 <= Len(future),
           Decision(code, cal, future, nth) # "failed" \/ NextExists(cal, future[nth].date)
    PROVE  Decision(code, longer, further, nth) = Decision(code, cal, future, nth)
<1>1. nth \in 1 .. Len(future) /\ nth + 1 \in 1 .. Len(future) /\ 1 \in 1 .. Len(future)
  BY ReviewAssumption
<1>2. future[nth] \in Bar /\ future[nth].date \in Nat
  BY <1>1, ReviewAssumption
<1>3. further[1] = future[1] /\ further[nth] = future[nth] /\ further[nth + 1] = future[nth + 1]
  BY <1>1 DEF Begins
<1>4. NextExists(cal, future[nth].date)
  BY DEF Decision
<1>5. /\ NextExists(longer, future[nth].date)
      /\ NextDay(longer, future[nth].date) = NextDay(cal, future[nth].date)
  BY <1>2, <1>4, NextDayStays
<1> QED BY <1>3, <1>4, <1>5 DEF Decision

\* The deciding sessions are numbers, of sessions that are there.
LEMMA DecidingAre ==
    ASSUME NEW code \in ReviewCode, NEW cal, NEW future \in Seq(Bar)
    PROVE  /\ Deciding(code, cal, future) \in SUBSET Nat
           /\ \A d \in Deciding(code, cal, future) :
                 d \in 1 .. LotDays /\ d + 1 <= Len(future) /\ Decision(code, cal, future, d) # "none"
  BY ReviewAssumption DEF Deciding

\* A simulation that ended, because the lot was sold or a session was missing, ends the
\* same way in every later reading.
LEMMA HeldStays ==
    ASSUME NEW code \in ReviewCode, NEW cal, NEW longer, IsCalendar(cal), IsCalendar(longer),
           Continues(cal, longer), NEW future \in Seq(Bar), NEW further \in Seq(Bar),
           Begins(future, further), future # << >>,
           Held(code, cal, future).status \notin {"unresolved", "failed"}
    PROVE  Held(code, longer, further) = Held(code, cal, future)
<1> DEFINE D == Deciding(code, cal, future)
           E == Deciding(code, longer, further)
           d == FirstDay(D)
           e == FirstDay(E)
<1>1. 1 \in 1 .. Len(future) /\ further[1] = future[1]
  BY DEF Begins
<1>2. D # {} /\ Decision(code, cal, future, d) # "failed"
  BY DEF Held, Lot
<1>3. d \in D /\ \A x \in D : d <= x
  BY <1>2, DecidingAre, FirstDayIs
<1>4. d \in Nat /\ d \in 1 .. LotDays /\ d + 1 <= Len(future) /\ Decision(code, cal, future, d) # "none"
  BY <1>3, DecidingAre
<1>5. Decision(code, longer, further, d) = Decision(code, cal, future, d)
  BY <1>2, <1>4, DecisionStays
<1>6. Len(future) <= Len(further) /\ Len(future) \in Nat /\ Len(further) \in Nat
  BY DEF Begins
<1>7. d + 1 \in 1 .. Len(future) /\ further[d + 1] = future[d + 1]
  BY <1>4, <1>6 DEF Begins
<1>8. d \in E
  BY <1>4, <1>5, <1>6 DEF Deciding
<1>9. e \in E /\ e <= d
  BY <1>8, DecidingAre, FirstDayIs
<1>10. e \in Nat /\ e \in 1 .. LotDays /\ Decision(code, longer, further, e) # "none"
  BY <1>9, DecidingAre
<1> HIDE DEF d, e, D, E
<1>11. e = d
  <2> SUFFICES ASSUME e # d PROVE FALSE
    OBVIOUS
  <2>1. e < d /\ e + 1 <= Len(future) /\ e + 1 <= d
    BY <1>4, <1>6, <1>9, <1>10
  <2>2. e \notin D
    BY <1>3, <1>4, <1>10, <2>1
  <2>3. Decision(code, cal, future, e) = "none"
    BY <1>10, <2>1, <2>2 DEF D, Deciding
  <2>4. Decision(code, longer, further, e) = "none"
    BY <1>10, <2>1, <2>3, DecisionStays
  <2> QED BY <1>10, <2>4
<1>12. E # {} /\ D # {}
  BY <1>3, <1>8
<1> QED BY <1>1, <1>5, <1>7, <1>11, <1>12 DEF Held, d, e, D, E

\* The same of the whole simulation.
LEMMA SimulateStays ==
    ASSUME NEW code \in ReviewCode, NEW cal, NEW longer, IsCalendar(cal), IsCalendar(longer),
           Continues(cal, longer), NEW signal \in Bar, NEW future \in Seq(Bar), NEW further \in Seq(Bar),
           Begins(future, further), future # << >>,
           SimulateLot(code, cal, signal, future).status \notin {"unresolved", "failed"}
    PROVE  SimulateLot(code, longer, signal, further) = SimulateLot(code, cal, signal, future)
<1>1. 1 \in 1 .. Len(future) /\ further[1] = future[1] /\ further # << >>
  BY DEF Begins
<1>2. signal.date \in Nat
  BY ReviewAssumption
<1>3. NextExists(cal, signal.date)
  BY DEF SimulateLot, Lot
<1>4. NextExists(longer, signal.date) /\ NextDay(longer, signal.date) = NextDay(cal, signal.date)
  BY <1>2, <1>3, NextDayStays
<1>5. CASE future[1].date # NextDay(cal, signal.date)
  BY <1>1, <1>3, <1>4, <1>5 DEF SimulateLot
<1>6. CASE future[1].date = NextDay(cal, signal.date) /\ Declines(signal, future[1]) # "none"
  BY <1>1, <1>3, <1>4, <1>6 DEF SimulateLot
<1>7. CASE future[1].date = NextDay(cal, signal.date) /\ Declines(signal, future[1]) = "none"
  <2>1. SimulateLot(code, cal, signal, future) = Held(code, cal, future)
    BY <1>3, <1>7 DEF SimulateLot
  <2>2. SimulateLot(code, longer, signal, further) = Held(code, longer, further)
    BY <1>1, <1>4, <1>7 DEF SimulateLot
  <2> QED BY <2>1, <2>2, HeldStays
<1> QED BY <1>5, <1>6, <1>7

\* A history is in the order of its dates.
IsHistory(bars) == bars \in Seq(Bar) /\ Ascending(bars)

\* The bars up to a date are the first ones.
LEMMA UpToIs ==
    ASSUME NEW bars, IsHistory(bars), NEW date \in Nat
    PROVE  /\ UpTo(bars, date) \in 0 .. Len(bars)
           /\ \A i \in 1 .. Len(bars) : i <= UpTo(bars, date) <=> bars[i].date <= date
<1> DEFINE Late == {i \in 1 .. Len(bars) : ~(bars[i].date <= date)}
<1>1. Len(bars) \in Nat /\ \A i \in 1 .. Len(bars) : bars[i].date \in Nat
  BY ReviewAssumption DEF IsHistory
<1>2. \A i, j \in 1 .. Len(bars) : i < j => bars[i].date < bars[j].date
  BY DEF IsHistory, Ascending
<1>3. \E n \in 0 .. Len(bars) : \A i \in 1 .. Len(bars) : i <= n <=> bars[i].date <= date
  <2>1. CASE Late = {}
    <3>1. \A i \in 1 .. Len(bars) : i <= Len(bars) <=> bars[i].date <= date
      BY <1>1, <2>1
    <3>2. Len(bars) \in 0 .. Len(bars)
      BY <1>1
    <3> QED BY <3>1, <3>2
  <2>2. CASE Late # {}
    <3>1. PICK n \in Late : \A m \in Late : n <= m
      <4>1. Late \in SUBSET Nat
        OBVIOUS
      <4> HIDE DEF Late
      <4> QED BY <2>2, <4>1, LeastIn
    <3>2. n \in 1 .. Len(bars) /\ n - 1 \in 0 .. Len(bars) /\ n \in Nat /\ ~(bars[n].date <= date)
      BY <1>1, <3>1
    <3>3. ASSUME NEW i \in 1 .. Len(bars) PROVE i <= n - 1 <=> bars[i].date <= date
      <4>1. CASE i < n
        <5>1. i \notin Late
          BY <3>1, <3>2, <4>1
        <5> QED BY <3>2, <4>1, <5>1
      <4>2. CASE i = n
        BY <3>2, <4>2
      <4>3. CASE n < i
        <5>1. bars[n].date < bars[i].date
          BY <1>2, <3>2, <4>3
        <5>2. bars[n].date \in Nat /\ bars[i].date \in Nat
          BY <1>1, <3>2
        <5> QED BY <3>2, <4>3, <5>1, <5>2
      <4> QED BY <3>2, <4>1, <4>2, <4>3
    <3> QED BY <3>2, <3>3
  <2> QED BY <2>1, <2>2
<1> QED BY <1>3 DEF UpTo

\* The bars of a history that are later than a date.
Among(bars) == {bars[i] : i \in 1 .. Len(bars)}
After(bars, date) == {b \in Among(bars) : date < b.date}

\* The sessions after a date are a history, of the bars that are later.
LEMMA SinceIs ==
    ASSUME NEW bars, IsHistory(bars), NEW date \in Nat
    PROVE  /\ IsHistory(Since(bars, date))
           /\ Among(Since(bars, date)) = After(bars, date)
<1> DEFINE n == UpTo(bars, date)
           f == Since(bars, date)
<1>1. n \in 0 .. Len(bars) /\ \A i \in 1 .. Len(bars) : i <= n <=> bars[i].date <= date
  BY UpToIs
<1>2. bars \in Seq(Bar) /\ Len(bars) \in Nat /\ \A i \in 1 .. Len(bars) : bars[i] \in Bar /\ bars[i].date \in Nat
  BY ReviewAssumption DEF IsHistory
<1>3. f = [i \in 1 .. Len(bars) - n |-> bars[n + i]]
  BY DEF Since
<1> HIDE DEF n, f
<1>4. Len(bars) - n \in Nat /\ \A i \in 1 .. Len(bars) - n : n + i \in 1 .. Len(bars)
  BY <1>1, <1>2
<1>5. f \in Seq(Bar) /\ Len(f) = Len(bars) - n
  BY <1>2, <1>3, <1>4
<1>6. Ascending(f)
  <2> SUFFICES ASSUME NEW i \in 1 .. Len(f), NEW j \in 1 .. Len(f), i < j
               PROVE  f[i].date < f[j].date
    BY DEF Ascending
  <2>1. n + i \in 1 .. Len(bars) /\ n + j \in 1 .. Len(bars) /\ n + i < n + j
    BY <1>1, <1>4, <1>5
  <2> QED BY <1>3, <1>5, <2>1 DEF IsHistory, Ascending
<1>7. ASSUME NEW i \in 1 .. Len(f)
      PROVE  f[i] \in After(bars, date)
  <2>1. n + i \in 1 .. Len(bars) /\ ~(n + i <= n)
    BY <1>1, <1>4, <1>5
  <2>2. f[i] = bars[n + i] /\ ~(bars[n + i].date <= date) /\ bars[n + i].date \in Nat
    BY <1>1, <1>2, <1>3, <1>5, <2>1
  <2>3. date < bars[n + i].date
    BY <2>2
  <2> QED BY <2>1, <2>2, <2>3 DEF After, Among
<1>8. ASSUME NEW k \in 1 .. Len(bars), date < bars[k].date
      PROVE  \E i \in 1 .. Len(f) : f[i] = bars[k]
  <2>1. ~(k <= n)
    BY <1>1, <1>2, <1>8
  <2>2. k - n \in 1 .. Len(f) /\ n + (k - n) = k
    BY <1>1, <1>2, <1>5, <2>1
  <2> QED BY <1>3, <1>5, <2>2
<1>9. ASSUME NEW b \in After(bars, date) PROVE b \in Among(f)
  <2>1. PICK k \in 1 .. Len(bars) : b = bars[k] /\ date < bars[k].date
    BY DEF After, Among
  <2> QED BY <1>8, <2>1 DEF Among
<1>10. Among(f) = After(bars, date)
  <2>1. Among(f) \subseteq After(bars, date)
    BY <1>7 DEF Among
  <2> QED BY <1>9, <2>1
<1> QED BY <1>5, <1>6, <1>10 DEF IsHistory, f

\* The stored sessions after the report went on: none of them was lost or changed, and
\* what was added came after them.
Grown(bars, more, asof) ==
    /\ After(bars, asof) \subseteq After(more, asof)
    /\ \A b \in After(more, asof) :
          (\E c \in After(bars, asof) : b.date <= c.date) => b \in After(bars, asof)

\* A history that went on begins as it was.
LEMMA GrownBegins ==
    ASSUME NEW f, NEW g, IsHistory(f), IsHistory(g),
           \A i \in 1 .. Len(f) : \E p \in 1 .. Len(g) : g[p] = f[i],
           \A i \in 1 .. Len(f), p \in 1 .. Len(g) : g[p].date <= f[i].date =>
                \E q \in 1 .. Len(f) : f[q] = g[p]
    PROVE  Begins(f, g)
<1> DEFINE Wrong == {i \in 1 .. Len(f) : ~(i \in 1 .. Len(g) /\ g[i] = f[i])}
<1>1. /\ Len(f) \in Nat /\ Len(g) \in Nat
      /\ \A i \in 1 .. Len(f) : f[i].date \in Nat
      /\ \A i \in 1 .. Len(g) : g[i].date \in Nat
  BY ReviewAssumption DEF IsHistory
<1>2. /\ \A i, j \in 1 .. Len(f) : i < j => f[i].date < f[j].date
      /\ \A i, j \in 1 .. Len(g) : i < j => g[i].date < g[j].date
  BY DEF IsHistory, Ascending
<1>3. Wrong = {}
  <2> SUFFICES ASSUME Wrong # {} PROVE FALSE
    OBVIOUS
  <2>1. PICK i \in Wrong : \A j \in Wrong : i <= j
    <3>1. Wrong \in SUBSET Nat
      OBVIOUS
    <3> HIDE DEF Wrong
    <3> QED BY <3>1, LeastIn
  <2>2. i \in 1 .. Len(f) /\ ~(i \in 1 .. Len(g) /\ g[i] = f[i])
    BY <2>1
  <2>3. \A j \in 1 .. Len(f) : j < i => j \in 1 .. Len(g) /\ g[j] = f[j]
    BY <1>1, <2>1, <2>2
  <2> HIDE DEF Wrong
  <2>4. PICK p \in 1 .. Len(g) : g[p] = f[i]
    BY <2>2
  <2>5. ~(p < i)
    <3> SUFFICES ASSUME p < i PROVE FALSE
      OBVIOUS
    <3>1. p \in 1 .. Len(f)
      BY <1>1, <2>2
    <3>2. f[p] = f[i] /\ f[p].date < f[i].date
      BY <1>2, <2>2, <2>3, <2>4, <3>1
    <3> QED BY <1>1, <2>2, <3>1, <3>2
  <2>6. i \in 1 .. Len(g) /\ i < p
    BY <1>1, <2>2, <2>4, <2>5
  <2>7. g[i].date < g[p].date
    BY <1>2, <2>6
  <2>8. g[i].date <= f[i].date
    BY <1>1, <2>2, <2>4, <2>6, <2>7
  <2>9. PICK q \in 1 .. Len(f) : f[q] = g[i]
    BY <2>2, <2>6, <2>8
  <2>10. f[q].date < f[i].date
    BY <2>4, <2>7, <2>9
  <2>11. q < i
    <3>1. ~(i < q) /\ q # i
      BY <1>1, <1>2, <2>2, <2>10
    <3> QED BY <1>1, <2>2, <3>1
  <2>12. g[q] = f[q] /\ q \in 1 .. Len(g)
    BY <2>3, <2>11
  <2>13. g[q].date < g[i].date
    BY <1>2, <2>6, <2>11, <2>12
  <2> QED BY <1>1, <2>6, <2>9, <2>12, <2>13
<1>4. \A i \in 1 .. Len(f) : i \in 1 .. Len(g) /\ g[i] = f[i]
  BY <1>3
<1>5. Len(f) <= Len(g)
  <2>1. CASE Len(f) = 0
    BY <1>1, <2>1
  <2>2. CASE Len(f) # 0
    <3>1. Len(f) \in 1 .. Len(f)
      BY <1>1, <2>2
    <3>2. Len(f) \in 1 .. Len(g)
      BY <1>4, <3>1
    <3> QED BY <1>1, <3>2
  <2> QED BY <2>1, <2>2
<1> QED BY <1>4, <1>5 DEF Begins

LEMMA GrownSince ==
    ASSUME NEW bars, NEW more, IsHistory(bars), IsHistory(more), NEW asof \in Nat, Grown(bars, more, asof)
    PROVE  Begins(Since(bars, asof), Since(more, asof))
<1> DEFINE f == Since(bars, asof)
           g == Since(more, asof)
           A == After(bars, asof)
           B == After(more, asof)
<1>1. IsHistory(f) /\ Among(f) = A
  BY SinceIs
<1>2. IsHistory(g) /\ Among(g) = B
  BY SinceIs
<1>3. A \subseteq B /\ \A b \in B : (\E c \in A : b.date <= c.date) => b \in A
  BY DEF Grown
<1> HIDE DEF f, g, A, B
<1>4. \A i \in 1 .. Len(f) : f[i] \in A
  BY <1>1 DEF Among
<1>5. \A p \in 1 .. Len(g) : g[p] \in B
  BY <1>2 DEF Among
<1>6. \A i \in 1 .. Len(f) : \E p \in 1 .. Len(g) : g[p] = f[i]
  <2> TAKE i \in 1 .. Len(f)
  <2>1. f[i] \in Among(g)
    BY <1>2, <1>3, <1>4
  <2> QED BY <2>1 DEF Among
<1>7. ASSUME NEW i \in 1 .. Len(f), NEW p \in 1 .. Len(g), g[p].date <= f[i].date
      PROVE  \E q \in 1 .. Len(f) : f[q] = g[p]
  <2>1. g[p] \in Among(f)
    BY <1>1, <1>3, <1>4, <1>5, <1>7
  <2> QED BY <2>1 DEF Among
<1>8. Begins(f, g)
  BY <1>1, <1>2, <1>6, <1>7, GrownBegins
<1> QED BY <1>8 DEF f, g

\* What a reading starts from.
IsWorld(w) ==
    /\ DOMAIN w.inputs \subseteq ReviewCode /\ \A c \in DOMAIN w.inputs : IsHistory(w.inputs[c])
    /\ DOMAIN w.latest \subseteq ReviewCode /\ \A c \in DOMAIN w.latest : IsHistory(w.latest[c])
    /\ IsCalendar(w.calendar)

\* The simulation of an event came to an outcome.
Settled(e) == e.status \notin {"none", "unresolved"}

\* An event that was simulated: what it was simulated from.
LEMMA LotEvents ==
    ASSUME NEW report, report.asof \in Nat, NEW w, IsWorld(w), NEW code \in ReviewCode,
           LET e == Event(report, w, code) IN Settled(e) \/ e.state = "mature"
    PROVE  /\ code \in DOMAIN w.inputs /\ code \in DOMAIN w.latest
           /\ HasBar(w.inputs[code], report.asof) /\ Usable(w.calendar)
           /\ BarOn(w.inputs[code], report.asof) \in Bar
           /\ BarOn(w.inputs[code], report.asof).date = report.asof
           /\ Since(w.latest[code], report.asof) # << >>
           /\ LET lot == SimulateLot(code, w.calendar, BarOn(w.inputs[code], report.asof),
                                  Since(w.latest[code], report.asof))
              IN  lot.status # "failed" /\ Event(report, w, code) = ReviewOf(lot)
<1> DEFINE e == Event(report, w, code)
           input == w.inputs[code]
           future == Since(w.latest[code], report.asof)
           lot == SimulateLot(code, w.calendar, BarOn(input, report.asof), future)
<1>1. \A why : ~Settled(Review("unsupported", why, NoLot)) /\ ~Settled(Review("missing_data", why, NoLot))
               /\ ~Settled(Review("pending", why, NoLot))
  BY DEF Settled, Review, NoLot, Lot
<1>2. \A why, l : /\ Review("unsupported", why, l).state # "mature"
                  /\ Review("missing_data", why, l).state # "mature"
                  /\ Review("pending", why, l).state # "mature"
  BY DEF Review
<1>3. /\ code \in DOMAIN w.inputs /\ code \in DOMAIN w.latest
      /\ HasBar(input, report.asof) /\ Usable(w.calendar) /\ future # << >>
      /\ e = ReviewOf(lot)
  BY <1>1, <1>2 DEF Event
<1>4. lot.status # "failed"
  BY <1>1, <1>2, <1>3 DEF ReviewOf
<1>5. BarOn(input, report.asof) \in Bar /\ BarOn(input, report.asof).date = report.asof
  <2>1. input \in Seq(Bar)
    BY <1>3 DEF IsWorld, IsHistory
  <2>2. \E i \in 1 .. Len(input) : input[i].date = report.asof
    BY <1>3 DEF HasBar
  <2> DEFINE k == CHOOSE i \in 1 .. Len(input) : input[i].date = report.asof
  <2>3. k \in 1 .. Len(input) /\ input[k].date = report.asof
    BY <2>2
  <2>4. BarOn(input, report.asof) = input[k]
    BY DEF BarOn
  <2> HIDE DEF k
  <2> QED BY <2>1, <2>3, <2>4
<1> QED BY <1>3, <1>4, <1>5

\* What Review and Judged keep of a lot.
LEMMA ReviewOfIs ==
    ASSUME NEW lot, lot.status # "failed"
    PROVE  ReviewOf(lot).status = lot.status /\ ReviewOf(lot).entry = lot.entry /\ ReviewOf(lot).exit = lot.exit
BY DEF ReviewOf, Review

\* The review of a lot that was sold, refused or left without a session does not change
\* as long as the stored sessions only go on (review.go, project): with more sessions
\* and a calendar that reaches further the page says the same of it.  So it does of a lot
\* whose next session is missing: the page calls it pending (horizon_not_reached) and no
\* later session brings it to an end.
THEOREM ReviewsAreFinal ==
    ASSUME NEW report, report.asof \in Nat, NEW w, NEW v, IsWorld(w), IsWorld(v), NEW code \in ReviewCode,
           v.inputs = w.inputs, code \in DOMAIN v.latest,
           Continues(w.calendar, v.calendar), Grown(w.latest[code], v.latest[code], report.asof),
           Settled(Event(report, w, code))
    PROVE  Event(report, v, code) = Event(report, w, code)
<1> DEFINE input == w.inputs[code]
           signal == BarOn(input, report.asof)
           future == Since(w.latest[code], report.asof)
           further == Since(v.latest[code], report.asof)
           lot == SimulateLot(code, w.calendar, signal, future)
           later == SimulateLot(code, v.calendar, signal, further)
<1>1. /\ code \in DOMAIN w.inputs /\ code \in DOMAIN w.latest
      /\ HasBar(input, report.asof) /\ Usable(w.calendar)
      /\ signal \in Bar /\ signal.date = report.asof /\ future # << >>
      /\ lot.status # "failed" /\ Event(report, w, code) = ReviewOf(lot)
  BY LotEvents
<1>2. lot.status \notin {"unresolved", "failed"}
  BY <1>1, ReviewOfIs DEF Settled
<1>3. IsHistory(w.latest[code]) /\ IsHistory(v.latest[code]) /\ IsCalendar(w.calendar) /\ IsCalendar(v.calendar)
  BY <1>1 DEF IsWorld
<1>4. IsHistory(future) /\ IsHistory(further) /\ Begins(future, further)
  BY <1>3, SinceIs, GrownSince
<1>5. later = lot
  BY <1>1, <1>2, <1>3, <1>4, SimulateStays DEF IsHistory
<1>6. further # << >>
  BY <1>1, <1>4 DEF Begins, IsHistory
<1>7. Usable(v.calendar)
  <2>1. NextExists(w.calendar, report.asof)
    BY <1>1, <1>2 DEF SimulateLot, Lot
  <2>2. NextExists(v.calendar, report.asof)
    BY <1>3, <2>1, NextDayStays
  <2>3. v.calendar.days # {}
    BY <2>2 DEF NextExists, Coming
  <2> QED BY <2>3 DEF Usable, Unavailable
<1>8. Event(report, v, code) = ReviewOf(later)
  BY <1>1, <1>6, <1>7 DEF Event
<1> QED BY <1>1, <1>5, <1>8

\* What a sold lot tells: its sessions follow one another in the calendar.
LEMMA SoldIs ==
    ASSUME NEW code \in ReviewCode, NEW cal, IsCalendar(cal), NEW signal \in Bar, NEW future \in Seq(Bar),
           future # << >>,
           LET lot == SimulateLot(code, cal, signal, future) IN lot.exit # NoDate
    PROVE  /\ NextExists(cal, signal.date) /\ future[1].date = NextDay(cal, signal.date)
           /\ \E nth \in 1 .. LotDays :
                 /\ nth + 1 <= Len(future)
                 /\ SimulateLot(code, cal, signal, future).exit = future[nth + 1].date
                 /\ SimulateLot(code, cal, signal, future).entry = future[1].date
                 /\ \A k \in 1 .. nth : /\ NextExists(cal, future[k].date)
                                        /\ future[k + 1].date = NextDay(cal, future[k].date)
<1> DEFINE D == Deciding(code, cal, future)
           d == FirstDay(D)
           lot == SimulateLot(code, cal, signal, future)
<1>1. /\ NextExists(cal, signal.date) /\ future[1].date = NextDay(cal, signal.date)
      /\ lot = Held(code, cal, future)
  BY DEF SimulateLot, Lot
<1>2. /\ D # {} /\ Decision(code, cal, future, d) \in Exit
      /\ lot.exit = future[d + 1].date /\ lot.entry = future[1].date
  BY <1>1 DEF Held, Lot
<1>3. d \in D /\ \A x \in D : d <= x
  BY <1>2, DecidingAre, FirstDayIs
<1>4. d \in 1 .. LotDays /\ d \in Nat /\ d + 1 <= Len(future)
  BY <1>3, DecidingAre
<1>5. LotDays \in Nat /\ Len(future) \in Nat
  BY ReviewAssumption
<1> HIDE DEF d, D, lot
<1>6. ASSUME NEW k \in 1 .. d
      PROVE  NextExists(cal, future[k].date) /\ future[k + 1].date = NextDay(cal, future[k].date)
  <2>1. k \in 1 .. LotDays /\ k + 1 <= Len(future) /\ k \in Nat
    BY <1>4, <1>5
  <2>2. Decision(code, cal, future, k) \in Exit \cup {"none"}
    <3>1. CASE k = d
      BY <1>2, <3>1
    <3>2. CASE k # d
      <4>1. k \notin D
        BY <1>3, <1>4, <2>1, <3>2
      <4> QED BY <2>1, <4>1 DEF D, Deciding
    <3> QED BY <3>1, <3>2
  <2>3. Decision(code, cal, future, k) \notin {"failed", "missing_exit_session"}
    BY <2>2 DEF Exit
  <2> QED BY <2>3 DEF Decision
<1> QED BY <1>1, <1>2, <1>4, <1>6 DEF lot

\* A mature review has a bar for every trading day from the report to the exit and for no
\* other day (Calendar.Next in strategy.Simulate): no session was skipped, whatever the
\* database lacks, and the exit lies inside the calendar the reading was given.
THEOREM MatureIsWhole ==
    ASSUME NEW report, report.asof \in Nat, NEW w, IsWorld(w), NEW code \in ReviewCode,
           Event(report, w, code).state = "mature"
    PROVE  LET e == Event(report, w, code) IN
           /\ e.entry \in Nat /\ e.exit \in Nat
           /\ report.asof < e.entry /\ e.entry < e.exit /\ e.exit <= w.calendar.through
           /\ \A date \in Nat : report.asof < date /\ date <= e.exit =>
                (date \in w.calendar.days <=> HasBar(w.latest[code], date))
<1> DEFINE cal == w.calendar
           bars == w.latest[code]
           signal == BarOn(w.inputs[code], report.asof)
           f == Since(bars, report.asof)
           lot == SimulateLot(code, cal, signal, f)
           e == Event(report, w, code)
<1>1. /\ code \in DOMAIN w.latest /\ signal \in Bar /\ signal.date = report.asof /\ f # << >>
      /\ lot.status # "failed" /\ e = ReviewOf(lot)
  BY LotEvents
<1>2. lot.exit # NoDate /\ lot.entry # NoDate
  <2>1. ReviewOf(lot).state = "mature"
    BY <1>1
  <2>2. CASE lot.entry # NoDate
    BY <1>1, <2>1, <2>2 DEF ReviewOf, Review
  <2>3. CASE lot.entry = NoDate
    <3>1. OutcomeState(lot.status) = "mature"
      BY <1>1, <2>1, <2>3 DEF ReviewOf, Review
    <3>2. lot.status \in Exit
      BY <3>1 DEF OutcomeState
    <3>3. lot \in {Lot("missing_entry_session", NoDate, NoDate, 0), Held(code, cal, f)}
              \cup {Lot(x, NoDate, NoDate, 0) : x \in Refusal}
      <4>1. IsHistory(f)
        BY <1>1, SinceIs DEF IsWorld
      <4>2. f[1] \in Bar
        BY <1>1, <4>1 DEF IsHistory
      <4>3. Declines(signal, f[1]) \in Refusal \cup {"none"}
        BY <1>1, <4>2, ReviewAssumption
      <4> QED BY <1>1, <4>3 DEF SimulateLot, Lot
    <3>4. lot = Held(code, cal, f)
      BY <3>2, <3>3 DEF Lot, Refusal, Exit
    <3>5. lot.entry = f[1].date
      BY <3>4 DEF Held, Lot
    <3>6. f[1].date \in Nat \ {0}
      <4>1. IsHistory(f)
        BY <1>1, SinceIs DEF IsWorld
      <4> QED BY <1>1, <4>1, ReviewAssumption DEF IsHistory
    <3> QED BY <2>3, <3>5, <3>6 DEF NoDate
  <2> QED BY <2>2, <2>3
<1>3. e.entry = lot.entry /\ e.exit = lot.exit
  BY <1>1, ReviewOfIs
<1>4. IsHistory(bars) /\ IsCalendar(cal) /\ IsHistory(f) /\ Among(f) = After(bars, report.asof)
  BY <1>1, SinceIs DEF IsWorld
<1>5. /\ f \in Seq(Bar) /\ Len(f) \in Nat /\ \A i \in 1 .. Len(f) : f[i].date \in Nat
      /\ \A i, j \in 1 .. Len(f) : i < j => f[i].date < f[j].date
  BY <1>4, ReviewAssumption DEF IsHistory, Ascending
<1>6. PICK nth \in 1 .. LotDays :
        /\ nth + 1 <= Len(f) /\ lot.exit = f[nth + 1].date /\ lot.entry = f[1].date
        /\ \A k \in 1 .. nth : NextExists(cal, f[k].date) /\ f[k + 1].date = NextDay(cal, f[k].date)
  BY <1>1, <1>2, <1>4, <1>5, SoldIs
<1>7. NextExists(cal, report.asof) /\ f[1].date = NextDay(cal, report.asof)
  BY <1>1, <1>2, <1>4, <1>5, SoldIs
<1>8. nth \in Nat /\ nth >= 1 /\ nth + 1 \in 1 .. Len(f) /\ 1 \in 1 .. Len(f)
  BY <1>5, <1>6, ReviewAssumption
<1> DEFINE before(k) == IF k = 1 THEN report.asof ELSE f[k - 1].date
<1>9. ASSUME NEW k \in 1 .. nth + 1
      PROVE  /\ before(k) \in Nat /\ NextExists(cal, before(k)) /\ f[k].date = NextDay(cal, before(k))
             /\ k \in 1 .. Len(f)
  <2>1. CASE k = 1
    BY <1>7, <1>8, <2>1
  <2>2. CASE k # 1
    <3>1. k - 1 \in 1 .. nth /\ (k - 1) + 1 = k /\ k - 1 \in 1 .. Len(f) /\ k \in 1 .. Len(f)
      BY <1>5, <1>6, <1>8, <2>2
    <3>2. NextExists(cal, f[k - 1].date) /\ f[(k - 1) + 1].date = NextDay(cal, f[k - 1].date)
      BY <1>6, <3>1
    <3> QED BY <1>5, <2>2, <3>1, <3>2
  <2> QED BY <2>1, <2>2
<1> HIDE DEF before
<1>10. ASSUME NEW k \in 1 .. nth + 1
       PROVE  /\ f[k].date \in cal.days /\ before(k) < f[k].date /\ f[k].date <= cal.through
              /\ \A x \in cal.days : before(k) < x => f[k].date <= x
  BY <1>4, <1>9, NextDayIs
<1>11. /\ lot.entry \in Nat /\ lot.exit \in Nat
       /\ report.asof < lot.entry /\ lot.entry < lot.exit /\ lot.exit <= cal.through
  <2>1. 1 \in 1 .. nth + 1 /\ nth + 1 \in 1 .. nth + 1 /\ 1 < nth + 1
    BY <1>8
  <2>2. before(1) = report.asof
    BY DEF before
  <2>3. f[1].date < f[nth + 1].date
    BY <1>5, <1>8, <2>1
  <2> QED BY <1>5, <1>6, <1>8, <1>10, <2>1, <2>2, <2>3
<1>12. ASSUME NEW date \in Nat, report.asof < date, date <= lot.exit, date \in cal.days
       PROVE  HasBar(bars, date)
  <2> DEFINE K == {k \in 1 .. nth + 1 : date <= f[k].date}
  <2>1. nth + 1 \in K
    BY <1>6, <1>8, <1>12
  <2>2. PICK k \in K : \A j \in K : k <= j
    <3>1. K \in SUBSET Nat
      OBVIOUS
    <3> HIDE DEF K
    <3> QED BY <2>1, <3>1, LeastIn
  <2>3. k \in 1 .. nth + 1 /\ date <= f[k].date /\ k \in Nat
    BY <2>2
  <2>4. before(k) < date
    <3>1. CASE k = 1
      BY <1>12, <3>1 DEF before
    <3>2. CASE k # 1
      <4>1. k - 1 \in 1 .. nth + 1 /\ ~(k <= k - 1) /\ k - 1 \in 1 .. Len(f)
        BY <1>5, <1>8, <2>3, <3>2
      <4>2. k - 1 \notin K
        BY <2>2, <4>1
      <4>3. ~(date <= f[k - 1].date) /\ f[k - 1].date \in Nat
        BY <1>5, <4>1, <4>2
      <4>4. before(k) = f[k - 1].date
        BY <3>2 DEF before
      <4> QED BY <4>3, <4>4
    <3> QED BY <3>1, <3>2
  <2>5. f[k].date <= date /\ k \in 1 .. Len(f) /\ f[k].date \in Nat
    BY <1>5, <1>9, <1>10, <1>12, <2>3, <2>4
  <2>6. f[k].date = date
    BY <2>3, <2>5
  <2>7. f[k] \in Among(f)
    BY <2>5 DEF Among
  <2>8. f[k] \in Among(bars)
    BY <1>4, <2>7 DEF After
  <2>9. PICK i \in 1 .. Len(bars) : bars[i] = f[k]
    BY <2>8 DEF Among
  <2> QED BY <2>6, <2>9 DEF HasBar
<1>13. ASSUME NEW date \in Nat, report.asof < date, date <= lot.exit, HasBar(bars, date)
       PROVE  date \in cal.days
  <2>1. PICK i \in 1 .. Len(bars) : bars[i].date = date
    BY <1>13 DEF HasBar
  <2>2. bars[i] \in Among(f)
    BY <1>4, <1>13, <2>1 DEF After, Among
  <2>3. PICK k \in 1 .. Len(f) : f[k] = bars[i]
    BY <2>2 DEF Among
  <2>4. f[k].date <= f[nth + 1].date
    BY <1>6, <1>13, <2>1, <2>3
  <2>5. ~(nth + 1 < k)
    <3> SUFFICES ASSUME nth + 1 < k PROVE FALSE
      OBVIOUS
    <3>1. f[nth + 1].date < f[k].date
      BY <1>5, <1>8
    <3>2. f[nth + 1].date \in Nat /\ f[k].date \in Nat
      BY <1>5, <1>8
    <3> QED BY <2>4, <3>1, <3>2
  <2>6. k \in 1 .. nth + 1
    BY <1>5, <1>8, <2>5
  <2> QED BY <1>10, <2>1, <2>3, <2>6
<1> QED BY <1>3, <1>11, <1>12, <1>13

\* A review does not only wait: once the history of a stock begins after the session of
\* the entry (LoadLatestReviewHistories gives the latest window alone, and the windows
\* move on), what was mature is reported as missing_entry_session.
THEOREM WindowPasses ==
    ASSUME NEW report, report.asof \in Nat, NEW w, IsWorld(w), NEW code \in ReviewCode,
           code \in DOMAIN w.inputs, HasBar(w.inputs[code], report.asof), code \in DOMAIN w.latest,
           Since(w.latest[code], report.asof) # << >>, Usable(w.calendar),
           NextExists(w.calendar, report.asof),
           ~HasBar(w.latest[code], NextDay(w.calendar, report.asof))
    PROVE  /\ Event(report, w, code).state = "missing_data"
           /\ Event(report, w, code).why = "missing_entry_session"
<1> DEFINE signal == BarOn(w.inputs[code], report.asof)
           bars == w.latest[code]
           f == Since(bars, report.asof)
           lot == SimulateLot(code, w.calendar, signal, f)
<1>1. signal.date = report.asof
  <2>1. \E i \in 1 .. Len(w.inputs[code]) : w.inputs[code][i].date = report.asof
    BY DEF HasBar
  <2> QED BY <2>1 DEF BarOn
<1>2. IsHistory(f) /\ Among(f) = After(bars, report.asof)
  BY SinceIs DEF IsWorld
<1>3. f[1].date # NextDay(w.calendar, report.asof)
  <2> SUFFICES ASSUME f[1].date = NextDay(w.calendar, report.asof) PROVE FALSE
    OBVIOUS
  <2>1. 1 \in 1 .. Len(f)
    BY <1>2 DEF IsHistory
  <2>2. f[1] \in Among(bars)
    BY <1>2, <2>1 DEF Among, After
  <2> QED BY <2>2 DEF Among, HasBar
<1>4. lot = Lot("missing_entry_session", NoDate, NoDate, 0)
  BY <1>1, <1>3 DEF SimulateLot
<1>5. Event(report, w, code) = ReviewOf(lot)
  BY DEF Event
<1>6. OutcomeState("missing_entry_session") = "missing_data"
  BY DEF OutcomeState, Exit, Refusal
<1> HIDE DEF lot
<1> QED BY <1>4, <1>5, <1>6 DEF ReviewOf, Review, Lot, NoDate

ReviewState == {"mature", "pending", "not_entered", "missing_data", "unsupported"}

\* Sets that can be counted one after the other.
Apart(S, T) == IsFiniteSet(S) /\ IsFiniteSet(T) /\ S \cap T = {}
Divides(W, A, B, C, D) ==
    /\ Apart(A, B) /\ Apart(A \cup B, C) /\ Apart((A \cup B) \cup C, D)
    /\ W = ((A \cup B) \cup C) \cup D

LEMMA TwoParts ==
    ASSUME NEW S, NEW T, Apart(S, T)
    PROVE  /\ IsFiniteSet(S \cup T) /\ Cardinality(S \cup T) = Cardinality(S) + Cardinality(T)
           /\ Cardinality(S) \in Nat /\ Cardinality(T) \in Nat
<1>1. Cardinality(S \cap T) = 0
  BY FS_EmptySet DEF Apart
<1>2. Cardinality(S) \in Nat /\ Cardinality(T) \in Nat
  BY FS_CardinalityType DEF Apart
<1>3. /\ IsFiniteSet(S \cup T)
      /\ Cardinality(S \cup T) = Cardinality(S) + Cardinality(T) - Cardinality(S \cap T)
  BY FS_Union DEF Apart
<1> QED BY <1>1, <1>2, <1>3

LEMMA FourParts ==
    ASSUME NEW W, NEW A, NEW B, NEW C, NEW D, Divides(W, A, B, C, D)
    PROVE  /\ IsFiniteSet(W)
           /\ Cardinality(W) = Cardinality(A) + Cardinality(B) + Cardinality(C) + Cardinality(D)
           /\ Cardinality(A) \in Nat /\ Cardinality(B) \in Nat
           /\ Cardinality(C) \in Nat /\ Cardinality(D) \in Nat
<1> DEFINE S == A \cup B
           T == S \cup C
<1>1. Apart(A, B) /\ Apart(S, C) /\ Apart(T, D) /\ W = T \cup D
  BY DEF Divides
<1>2. Cardinality(S) = Cardinality(A) + Cardinality(B) /\ Cardinality(A) \in Nat /\ Cardinality(B) \in Nat
  BY <1>1, TwoParts
<1> HIDE DEF S
<1>3. Cardinality(T) = Cardinality(S) + Cardinality(C) /\ Cardinality(C) \in Nat
  BY <1>1, TwoParts
<1> HIDE DEF T
<1>4. IsFiniteSet(T \cup D) /\ Cardinality(T \cup D) = Cardinality(T) + Cardinality(D) /\ Cardinality(D) \in Nat
  BY <1>1, TwoParts
<1>5. Cardinality(T \cup D) = Cardinality(A) + Cardinality(B) + Cardinality(C) + Cardinality(D)
  BY <1>2, <1>3, <1>4
<1> QED BY <1>1, <1>2, <1>3, <1>4, <1>5

\* The five states and the exits of the mature events divide what is counted.
LEMMA MetricsAddUp ==
    ASSUME NEW events, NEW where, IsFiniteSet(where),
           \A i \in where : /\ events[i].state \in ReviewState
                            /\ events[i].state = "mature" => events[i].status \in Exit
    PROVE  LET m == Metrics(events, where) IN
           /\ m.total = m.mature + m.pending + m.notEntered + m.missing + m.unsupported
           /\ m.mature = m.target + m.stop + m.stopGap + m.timeout
           /\ m.mature <= m.entered /\ m.entered <= m.mature + m.pending /\ m.positive <= m.mature
<1> DEFINE I(s) == Counted(events, where, s)
           B(x) == CountedBy(events, where, x)
           m == Metrics(events, where)
           Paid == {i \in I("mature") : events[i].net > 0}
           Open == {i \in I("pending") : events[i].entry # NoDate}
<1>1. \A s : IsFiniteSet(I(s)) /\ I(s) \subseteq where
  BY FS_Subset DEF Counted
<1>2. \A x : IsFiniteSet(B(x)) /\ B(x) \subseteq I("mature")
  BY <1>1, FS_Subset DEF CountedBy
<1>3. IsFiniteSet(Paid) /\ IsFiniteSet(Open) /\ Paid \subseteq I("mature") /\ Open \subseteq I("pending")
  BY <1>1, FS_Subset
<1>4. \A s, r : s # r => I(s) \cap I(r) = {}
  BY DEF Counted
<1>5. \A x, y : x # y => B(x) \cap B(y) = {}
  BY DEF CountedBy
<1>6. where = (((I("mature") \cup I("pending")) \cup I("not_entered")) \cup I("missing_data")) \cup I("unsupported")
  BY DEF Counted, ReviewState
<1>7. I("mature") = ((B("target") \cup B("stop")) \cup B("stop_gap")) \cup B("timeout")
  BY DEF Counted, CountedBy, Exit
<1>8. /\ m.total = Cardinality(where) /\ m.mature = Cardinality(I("mature"))
      /\ m.pending = Cardinality(I("pending")) /\ m.notEntered = Cardinality(I("not_entered"))
      /\ m.missing = Cardinality(I("missing_data")) /\ m.unsupported = Cardinality(I("unsupported"))
      /\ m.entered = Cardinality(I("mature") \cup Open)
      /\ m.target = Cardinality(B("target")) /\ m.stop = Cardinality(B("stop"))
      /\ m.stopGap = Cardinality(B("stop_gap")) /\ m.timeout = Cardinality(B("timeout"))
      /\ m.positive = Cardinality(Paid)
  BY DEF Metrics
<1>9. PICK Ma, Pe, Ne, Mi, Un :
         Ma = I("mature") /\ Pe = I("pending") /\ Ne = I("not_entered") /\ Mi = I("missing_data") /\ Un = I("unsupported")
  OBVIOUS
<1>10. PICK Ta, St, Ga, Ti :
         Ta = B("target") /\ St = B("stop") /\ Ga = B("stop_gap") /\ Ti = B("timeout")
  OBVIOUS
<1> HIDE DEF I, B, m, Paid, Open
<1>11. /\ IsFiniteSet(Ma) /\ IsFiniteSet(Pe) /\ IsFiniteSet(Ne) /\ IsFiniteSet(Mi) /\ IsFiniteSet(Un)
       /\ IsFiniteSet(Ta) /\ IsFiniteSet(St) /\ IsFiniteSet(Ga) /\ IsFiniteSet(Ti)
  BY <1>1, <1>2, <1>9, <1>10
<1>12. /\ Ma \cap Pe = {} /\ Ma \cap Ne = {} /\ Ma \cap Mi = {} /\ Ma \cap Un = {}
       /\ Pe \cap Ne = {} /\ Pe \cap Mi = {} /\ Pe \cap Un = {}
       /\ Ne \cap Mi = {} /\ Ne \cap Un = {} /\ Mi \cap Un = {}
  BY <1>4, <1>9
<1>13. /\ Ta \cap St = {} /\ Ta \cap Ga = {} /\ Ta \cap Ti = {}
       /\ St \cap Ga = {} /\ St \cap Ti = {} /\ Ga \cap Ti = {}
  BY <1>5, <1>10
<1>14. m.total = m.mature + m.pending + m.notEntered + m.missing + m.unsupported
  <2> DEFINE W == ((Ma \cup Pe) \cup Ne) \cup Mi
  <2>1. Divides(W, Ma, Pe, Ne, Mi)
    <3>1. Apart(Ma, Pe)
      BY <1>11, <1>12 DEF Apart
    <3>2. Apart(Ma \cup Pe, Ne)
      BY <1>11, <1>12, <3>1, TwoParts DEF Apart
    <3>3. Apart((Ma \cup Pe) \cup Ne, Mi)
      BY <1>11, <1>12, <3>2, TwoParts DEF Apart
    <3> QED BY <3>1, <3>2, <3>3 DEF Divides
  <2>2. /\ IsFiniteSet(W) /\ Cardinality(W) = m.mature + m.pending + m.notEntered + m.missing
        /\ m.mature \in Nat /\ m.pending \in Nat /\ m.notEntered \in Nat /\ m.missing \in Nat
    BY <1>8, <1>9, <2>1, FourParts
  <2>3. Apart(W, Un)
    BY <1>11, <1>12, <2>2 DEF Apart
  <2>4. where = W \cup Un
    BY <1>6, <1>9
  <2> HIDE DEF W
  <2>5. m.total = Cardinality(W) + m.unsupported /\ m.unsupported \in Nat
    BY <1>8, <1>9, <2>3, <2>4, TwoParts
  <2> QED BY <2>2, <2>5
<1>15. m.mature = m.target + m.stop + m.stopGap + m.timeout
  <2>1. Divides(Ma, Ta, St, Ga, Ti)
    <3>1. Apart(Ta, St)
      BY <1>11, <1>13 DEF Apart
    <3>2. Apart(Ta \cup St, Ga)
      BY <1>11, <1>13, <3>1, TwoParts DEF Apart
    <3>3. Apart((Ta \cup St) \cup Ga, Ti)
      BY <1>11, <1>13, <3>2, TwoParts DEF Apart
    <3>4. Ma = ((Ta \cup St) \cup Ga) \cup Ti
      BY <1>7, <1>9, <1>10
    <3> QED BY <3>1, <3>2, <3>3, <3>4, Zenon DEF Divides
  <2>2. Cardinality(Ma) = Cardinality(Ta) + Cardinality(St) + Cardinality(Ga) + Cardinality(Ti)
    BY <2>1, FourParts
  <2> QED BY <1>8, <1>9, <1>10, <2>2
<1>16. m.mature <= m.entered /\ m.entered <= m.mature + m.pending
  <2>1. Apart(Ma, Open)
    BY <1>3, <1>9, <1>11, <1>12 DEF Apart
  <2>2. m.entered = m.mature + Cardinality(Open) /\ Cardinality(Open) \in Nat /\ m.mature \in Nat
    <3>1. /\ Cardinality(Ma \cup Open) = Cardinality(Ma) + Cardinality(Open)
          /\ Cardinality(Ma) \in Nat /\ Cardinality(Open) \in Nat
      BY <2>1, TwoParts
    <3> QED BY <1>8, <1>9, <3>1
  <2>3. Cardinality(Open) <= m.pending /\ m.pending \in Nat
    <3>1. Open \subseteq Pe
      BY <1>3, <1>9
    <3>2. Cardinality(Open) <= Cardinality(Pe) /\ Cardinality(Pe) \in Nat
      BY <1>11, <3>1, FS_Subset, FS_CardinalityType
    <3> QED BY <1>8, <1>9, <3>2
  <2> QED BY <2>2, <2>3
<1>17. m.positive <= m.mature
  <2>1. Paid \subseteq Ma
    BY <1>3, <1>9
  <2>2. Cardinality(Paid) <= Cardinality(Ma)
    BY <1>11, <2>1, FS_Subset
  <2> QED BY <1>8, <1>9, <2>2
<1> QED BY <1>14, <1>15, <1>16, <1>17 DEF m

\* Every event is in one of the five states, and a mature one says how it ended.
LEMMA EventStates ==
    ASSUME NEW report, report.asof \in Nat, NEW w, IsWorld(w), NEW code \in ReviewCode
    PROVE  LET e == Event(report, w, code) IN
           e.state \in ReviewState /\ (e.state = "mature" => e.status \in Exit)
<1> DEFINE signal == BarOn(w.inputs[code], report.asof)
           f == Since(w.latest[code], report.asof)
           lot == SimulateLot(code, w.calendar, signal, f)
           e == Event(report, w, code)
<1>1. \A status : OutcomeState(status) \in ReviewState /\ (OutcomeState(status) = "mature" => status \in Exit)
  BY DEF OutcomeState, ReviewState
<1>2. \A why, l : /\ Review("unsupported", why, l).state = "unsupported"
                  /\ Review("missing_data", why, l).state = "missing_data"
                  /\ Review("pending", why, l).state = "pending"
  BY DEF Review
<1>3. e.state \in ReviewState
  <2>1. ReviewOf(lot).state \in ReviewState
    BY <1>1 DEF ReviewOf, Review, ReviewState
  <2> QED BY <1>2, <2>1 DEF Event, ReviewState
<1>4. ASSUME e.state = "mature" PROVE e.status \in Exit
  <2>1. code \in DOMAIN w.latest /\ f # << >> /\ lot.status # "failed" /\ e = ReviewOf(lot) /\ signal \in Bar
    BY <1>4, LotEvents
  <2>2. IsHistory(f) /\ f \in Seq(Bar) /\ IsCalendar(w.calendar)
    BY <2>1, SinceIs DEF IsWorld, IsHistory
  <2>3. CASE lot.entry = NoDate
    <3> DEFINE o == OutcomeState(lot.status)
    <3>1. e = Review(o, lot.status, lot)
      BY <2>1, <2>3 DEF ReviewOf
    <3>2. e.state = o /\ e.status = lot.status
      BY <3>1 DEF Review
    <3> QED BY <1>1, <1>4, <3>2
  <2>4. CASE lot.entry # NoDate
    <3>1. lot.exit # NoDate
      <4>1. \A l : l.status # "failed" /\ l.entry # NoDate /\ ReviewOf(l).state = "mature" => l.exit # NoDate
        BY DEF ReviewOf, Review
      <4> HIDE DEF lot, e
      <4> QED BY <1>4, <2>1, <2>4, <4>1
    <3>2. lot.status \in Exit
      BY <3>1 DEF SimulateLot, Held, Lot
    <3> QED BY <2>1, <3>2, ReviewOfIs
  <2> QED BY <2>3, <2>4
<1> QED BY <1>3, <1>4

\* The columns of the page add up (metricsFor, aggregate): each event is counted in one
\* state, each mature one under one exit, each of the page's events among the recommended
\* or the observed, and no more lots were entered than are mature or pending.
THEOREM CountsAddUp ==
    ASSUME NEW report, report.asof \in Nat, NEW w, IsWorld(w),
           Candidates(report) \in Seq([code : ReviewCode, recommended : BOOLEAN])
    PROVE  LET of == Candidates(report)
               sum == Aggregate(Project(report, w), of)
           IN /\ \A m \in {sum.all, sum.recommended, sum.observed} :
                    /\ m.total = m.mature + m.pending + m.notEntered + m.missing + m.unsupported
                    /\ m.mature = m.target + m.stop + m.stopGap + m.timeout
                    /\ m.mature <= m.entered /\ m.entered <= m.mature + m.pending /\ m.positive <= m.mature
              /\ sum.all.total = sum.recommended.total + sum.observed.total
              /\ sum.all.mature = sum.recommended.mature + sum.observed.mature
              /\ sum.all.missing = sum.recommended.missing + sum.observed.missing
<1> DEFINE of == Candidates(report)
           events == Project(report, w)
           where == 1 .. Len(events)
           R == {i \in where : of[i].recommended}
           O == {i \in where : ~of[i].recommended}
           sum == Aggregate(events, of)
<1>1. Len(of) \in Nat /\ \A i \in 1 .. Len(of) : of[i].code \in ReviewCode
  <2>1. \A q : q \in Seq([code : ReviewCode, recommended : BOOLEAN])
              => Len(q) \in Nat /\ \A i \in 1 .. Len(q) : q[i].code \in ReviewCode
    <3> SUFFICES ASSUME NEW q \in Seq([code : ReviewCode, recommended : BOOLEAN])
                 PROVE  Len(q) \in Nat /\ \A i \in 1 .. Len(q) : q[i].code \in ReviewCode
      OBVIOUS
    <3>1. \A i \in 1 .. Len(q) : q[i] \in [code : ReviewCode, recommended : BOOLEAN]
      BY ElementOfSeq
    <3> QED BY <3>1
  <2> QED BY <2>1, Zenon
<1>2. Len(events) = Len(of) /\ where = 1 .. Len(of)
  BY <1>1 DEF Project
<1>3. IsFiniteSet(where)
  BY <1>1, <1>2, FS_Interval
<1>4. ASSUME NEW i \in where
      PROVE  events[i].state \in ReviewState /\ (events[i].state = "mature" => events[i].status \in Exit)
  <2>1. events[i] = IF Unfit(report) # "none" THEN Review("unsupported", Unfit(report), NoLot)
                    ELSE Event(report, w, of[i].code)
    BY <1>1, <1>2 DEF Project
  <2>2. CASE Unfit(report) # "none"
    BY <2>1, <2>2 DEF Review, ReviewState
  <2>3. CASE Unfit(report) = "none"
    BY <1>1, <1>2, <2>1, <2>3, EventStates
  <2> QED BY <2>2, <2>3
<1>5. IsFiniteSet(R) /\ IsFiniteSet(O)
  BY <1>3, FS_Subset
<1>6. sum = [all |-> Metrics(events, where), recommended |-> Metrics(events, R), observed |-> Metrics(events, O)]
  BY DEF Aggregate
<1> HIDE DEF events
<1>7. R \cup O = where /\ R \cap O = {}
  OBVIOUS
<1>8. \A s : /\ Counted(events, R, s) \cup Counted(events, O, s) = Counted(events, where, s)
             /\ Counted(events, R, s) \cap Counted(events, O, s) = {}
             /\ IsFiniteSet(Counted(events, R, s)) /\ IsFiniteSet(Counted(events, O, s))
  <2> TAKE s
  <2>1. Counted(events, R, s) \subseteq R /\ Counted(events, O, s) \subseteq O
    BY DEF Counted
  <2>2. Counted(events, R, s) \cup Counted(events, O, s) = Counted(events, where, s)
    BY <1>7 DEF Counted
  <2> HIDE DEF R, O, where
  <2> QED BY <1>5, <1>7, <2>1, <2>2, FS_Subset
<1> HIDE DEF R, O, where, of
<1>9. \A i \in R \cup O : events[i].state \in ReviewState /\ (events[i].state = "mature" => events[i].status \in Exit)
  BY <1>4, <1>7
<1>10. ASSUME NEW m \in {sum.all, sum.recommended, sum.observed}
       PROVE  /\ m.total = m.mature + m.pending + m.notEntered + m.missing + m.unsupported
              /\ m.mature = m.target + m.stop + m.stopGap + m.timeout
              /\ m.mature <= m.entered /\ m.entered <= m.mature + m.pending /\ m.positive <= m.mature
  <2>1. PICK X \in {where, R, O} : m = Metrics(events, X)
    BY <1>6
  <2>2. IsFiniteSet(X) /\ X \subseteq R \cup O
    BY <1>3, <1>5, <1>7
  <2>3. \A i \in X : events[i].state \in ReviewState /\ (events[i].state = "mature" => events[i].status \in Exit)
    BY <1>9, <2>2
  <2> QED BY <2>1, <2>2, <2>3, MetricsAddUp
<1>11. sum.all.total = sum.recommended.total + sum.observed.total
  <2>1. Cardinality(where) = Cardinality(R) + Cardinality(O)
    <3>1. Apart(R, O)
      BY <1>5, <1>7 DEF Apart
    <3> QED BY <1>7, <3>1, TwoParts
  <2> QED BY <1>6, <2>1 DEF Metrics
<1>12. \A s : Cardinality(Counted(events, where, s)) = Cardinality(Counted(events, R, s)) + Cardinality(Counted(events, O, s))
  <2> TAKE s
  <2>1. Apart(Counted(events, R, s), Counted(events, O, s))
    BY <1>8 DEF Apart
  <2>2. Counted(events, R, s) \cup Counted(events, O, s) = Counted(events, where, s)
    BY <1>8
  <2> QED BY <2>1, <2>2, TwoParts
<1>13. /\ sum.all.mature = sum.recommended.mature + sum.observed.mature
       /\ sum.all.missing = sum.recommended.missing + sum.observed.missing
  BY <1>6, <1>12 DEF Metrics
<1> QED BY <1>10, <1>11, <1>13 DEF of, events

\* The step to schema 6 files every archived report that can be read under the date it
\* says itself (backfillReportArchive), so that the page lists all of a date that have a
\* generation time; a second step changes nothing.
THEOREM BackfillLists ==
    ASSUME NEW archive, NEW asof \in Nat,
           \A row \in archive : /\ DOMAIN row = {"id", "parses", "payload", "asof", "generated"}
                                /\ row = [x \in DOMAIN row |-> row[x]]
    PROVE  /\ {row.id : row \in ListedRows(Backfill(archive), asof)}
                = {row.id : row \in {r \in archive : /\ r.parses /\ r.payload.asof = asof
                                                     /\ r.payload.generated # 0}}
           /\ Backfill(Backfill(archive)) = Backfill(archive)
<1> DEFINE b(row) == IF ~row.parses THEN row
                     ELSE [row EXCEPT !.asof = row.payload.asof, !.generated = row.payload.generated]
<1>1. \A rows : Backfill(rows) = {b(row) : row \in rows}
  BY DEF Backfill
<1>2. ASSUME NEW row \in archive
      PROVE  /\ b(row).id = row.id /\ b(row).parses = row.parses /\ b(row).payload = row.payload
             /\ row.parses => b(row).asof = row.payload.asof /\ b(row).generated = row.payload.generated
             /\ b(b(row)) = b(row)
  <2>1. CASE ~row.parses
    BY <2>1
  <2>2. CASE row.parses
    <3> DEFINE c == [row EXCEPT !.asof = row.payload.asof, !.generated = row.payload.generated]
    <3>1. /\ c.id = row.id /\ c.parses = row.parses /\ c.payload = row.payload
          /\ c.asof = row.payload.asof /\ c.generated = row.payload.generated
      OBVIOUS
    <3>2. [c EXCEPT !.asof = row.payload.asof, !.generated = row.payload.generated] = c
      OBVIOUS
    <3>3. b(row) = c
      BY <2>2
    <3> HIDE DEF c
    <3>4. b(c) = c
      BY <2>2, <3>1, <3>2
    <3> HIDE DEF b
    <3> QED BY <2>2, <3>1, <3>3, <3>4
  <2> QED BY <2>1, <2>2
<1> HIDE DEF b
<1>3. Backfill(Backfill(archive)) = Backfill(archive)
  <2> DEFINE once == Backfill(archive)
  <2>1. /\ \A x : x \in once <=> \E row \in archive : x = b(row)
        /\ \A x : x \in Backfill(once) <=> \E y \in once : x = b(y)
    BY <1>1
  <2> HIDE DEF once
  <2>2. \A x : x \in Backfill(once) <=> x \in once
    BY <1>2, <2>1
  <2> QED BY <2>2 DEF once
<1>4. ASSUME NEW row \in archive
      PROVE  b(row) \in ListedRows(Backfill(archive), asof)
                <=> row.parses /\ row.payload.asof = asof /\ row.payload.generated # 0
  <2>1. b(row) \in Backfill(archive)
    BY <1>1
  <2> QED BY <1>2, <2>1 DEF ListedRows
<1>5. \A row \in ListedRows(Backfill(archive), asof) : row \in Backfill(archive)
  BY DEF ListedRows
<1> QED BY <1>1, <1>2, <1>3, <1>4, <1>5

\* The date of a page and its histories come from two statements, between which a
\* synchronization may commit.  The page shows no session of it (LoadLatestReviewHistories
\* reads up to the date only): with new rows of later dates alone the histories are those
\* the date was taken from.
THEOREM DateComesFirst ==
    ASSUME NEW table, NEW later, NEW codes, table \subseteq later, NEW limit \in Nat,
           \A row \in later \ table : row.asof \in Nat /\ limit < row.asof
    PROVE  LatestHistories(later, codes, limit) = LatestHistories(table, codes, limit)
<1>1. \A c : Recent(later, c, limit) = Recent(table, c, limit)
  BY DEF Recent, Synced
<1>2. \A c : Newest(later, c, limit) = Newest(table, c, limit)
  BY <1>1 DEF Newest
<1>3. WithData(later, codes, limit) = WithData(table, codes, limit)
  BY <1>1 DEF WithData
<1> QED BY <1>2, <1>3 DEF LatestHistories

-----------------------------------------------------------------------------
(***************************************************************************)
(* Settings.                                                               *)
(*                                                                         *)
(* A clock of two digits is ordered as its text is; one of a single digit  *)
(* comes after the long ones with the same first digit, so that only the   *)
(* hour 1 passes for an evening. The channels of a valid configuration     *)
(* have names of their own. A save leaves a file that, under the           *)
(* environment it was made in, gives the settings it was made of           *)
(* (WrittenIsRead), and these were validated: the invariant carries that   *)
(* over the saves that failed after the file was replaced.                 *)
(***************************************************************************)

ClockFields == [enabled : BOOLEAN, push : BOOLEAN, train_at : ClockTexts, predict_at : ClockTexts,
                reconcile_at : ClockTexts, history_days : Int, min_training_days : Int,
                calibration_days : Int, validation_days : Int, keep_models : Int,
                stock : BOOLEAN, market : BOOLEAN, sector : BOOLEAN]

\* The digits of a minute and of an hour.
LEMMA Digits ==
  ASSUME NEW n \in 0 .. 59
  PROVE  /\ n \div 10 \in 0 .. 5 /\ n % 10 \in 0 .. 9
         /\ n = 10 * (n \div 10) + (n % 10)
BY SMT

LEMMA LongOrder ==
  ASSUME NEW c \in ClockTexts, NEW d \in ClockTexts, ~c.short, ~d.short
  PROVE  TextRank(c) <= TextRank(d) <=> MinutesOf(c) <= MinutesOf(d)
<1> DEFINE a == c.hour \div 10  b == c.hour % 10  p == c.minute \div 10  q == c.minute % 10
           e == d.hour \div 10  f == d.hour % 10  r == d.minute \div 10  s == d.minute % 10
<1>1. c.hour \in 0 .. 24 /\ d.hour \in 0 .. 24 /\ c.minute \in 0 .. 59 /\ d.minute \in 0 .. 59
  BY DEF ClockTexts
<1>2. /\ a \in 0 .. 5 /\ b \in 0 .. 9 /\ c.hour = 10 * a + b
      /\ p \in 0 .. 5 /\ q \in 0 .. 9 /\ c.minute = 10 * p + q
      /\ e \in 0 .. 5 /\ f \in 0 .. 9 /\ d.hour = 10 * e + f
      /\ r \in 0 .. 5 /\ s \in 0 .. 9 /\ d.minute = 10 * r + s
  BY <1>1, Digits
<1>3. /\ TextRank(c) = 14641 * a + 1331 * b + 1210 + 11 * p + q
      /\ TextRank(d) = 14641 * e + 1331 * f + 1210 + 11 * r + s
      /\ MinutesOf(c) = 600 * a + 60 * b + 10 * p + q
      /\ MinutesOf(d) = 600 * e + 60 * f + 10 * r + s
  BY <1>1, <1>2, SMT DEF TextRank, MinutesOf
<1> HIDE DEF a, b, p, q, e, f, r, s
<1> QED BY <1>2, <1>3, SMT

\* Clock(h, m) is a clock text.
LEMMA ClockIsText ==
  ASSUME NEW h \in 0 .. 24, NEW m \in 0 .. 59
  PROVE  /\ Clock(h, m) \in ClockTexts /\ ~Clock(h, m).short
         /\ Clock(h, m).hour = h /\ Clock(h, m).minute = m
         /\ MinutesOf(Clock(h, m)) = 60 * h + m
BY DEF Clock, ClockTexts, MinutesOf

LEMMA RanksAreInt == \A c \in ClockTexts : TextRank(c) \in Int /\ MinutesOf(c) \in Int
<1> SUFFICES ASSUME NEW c \in ClockTexts PROVE TextRank(c) \in Int /\ MinutesOf(c) \in Int
  OBVIOUS
<1>1. c.hour \in 0 .. 24 /\ c.minute \in 0 .. 59
  BY DEF ClockTexts
<1> DEFINE a == c.hour \div 10  b == c.hour % 10  p == c.minute \div 10  q == c.minute % 10
<1>2. a \in Int /\ b \in Int /\ p \in Int /\ q \in Int
  BY <1>1, Digits
<1>3. TextRank(c) = IF c.short THEN 11 * (11 * (11 * (11 * c.hour + 10) + p) + q)
                    ELSE 11 * (11 * (11 * (11 * a + b) + 10) + p) + q
  BY DEF TextRank
<1> HIDE DEF a, b, p, q
<1>4. TextRank(c) \in Int
  BY <1>1, <1>2, <1>3, SMT
<1>5. MinutesOf(c) \in Int
  BY <1>1, SMT DEF MinutesOf
<1> QED BY <1>4, <1>5

LEMMA LongWithin ==
  ASSUME NEW c \in ClockTexts, ~c.short,
         NEW h \in 0 .. 24, NEW m \in 0 .. 59, NEW i \in 0 .. 24, NEW n \in 0 .. 59
  PROVE  TextWithin(c, Clock(h, m), Clock(i, n)) <=> Within(MinutesOf(c), 60 * h + m, 60 * i + n)
<1> DEFINE d == Clock(h, m)  e == Clock(i, n)
<1>1. /\ d \in ClockTexts /\ ~d.short /\ MinutesOf(d) = 60 * h + m
      /\ e \in ClockTexts /\ ~e.short /\ MinutesOf(e) = 60 * i + n
  BY ClockIsText
<1> HIDE DEF d, e
<1>2. TextRank(d) <= TextRank(c) <=> MinutesOf(d) <= MinutesOf(c)
  BY <1>1, LongOrder
<1>3. TextRank(c) <= TextRank(e) <=> MinutesOf(c) <= MinutesOf(e)
  BY <1>1, LongOrder
<1>4. TextWithin(c, d, e) <=> Within(MinutesOf(c), MinutesOf(d), MinutesOf(e))
  BY <1>2, <1>3, Zenon DEF TextWithin, Within
<1> QED BY <1>1, <1>4 DEF d, e

\* The bounds that the sections have.
LEMMA EveningWithin ==
  ASSUME NEW c \in ClockTexts, ~c.short
  PROVE  /\ TextWithin(c, Clock(15, 5), Clock(23, 0)) => Within(MinutesOf(c), 905, 1380)
         /\ TextWithin(c, Clock(15, 10), Clock(23, 0)) => Within(MinutesOf(c), 910, 1380)
         /\ TextWithin(c, Clock(15, 10), Clock(23, 59)) => Within(MinutesOf(c), 910, 1439)
         /\ TextRank(c) < TextRank(Clock(9, 30)) => MinutesOf(c) < 570
<1>0. /\ 15 \in 0 .. 24 /\ 23 \in 0 .. 24 /\ 9 \in 0 .. 24 /\ 5 \in 0 .. 59 /\ 0 \in 0 .. 59
      /\ 10 \in 0 .. 59 /\ 59 \in 0 .. 59 /\ 30 \in 0 .. 59
  BY SMT
<1>1. TextWithin(c, Clock(15, 5), Clock(23, 0)) <=> Within(MinutesOf(c), 60 * 15 + 5, 60 * 23 + 0)
  BY <1>0, LongWithin, Zenon
<1>2. TextWithin(c, Clock(15, 10), Clock(23, 0)) <=> Within(MinutesOf(c), 60 * 15 + 10, 60 * 23 + 0)
  BY <1>0, LongWithin, Zenon
<1>3. TextWithin(c, Clock(15, 10), Clock(23, 59)) <=> Within(MinutesOf(c), 60 * 15 + 10, 60 * 23 + 59)
  BY <1>0, LongWithin, Zenon
<1>4. TextRank(c) < TextRank(Clock(9, 30)) => MinutesOf(c) < 570
  <2> DEFINE d == Clock(9, 30)
  <2>1. d \in ClockTexts /\ ~d.short /\ MinutesOf(d) = 60 * 9 + 30
    BY <1>0, ClockIsText, Zenon
  <2> HIDE DEF d
  <2>2. TextRank(d) <= TextRank(c) <=> MinutesOf(d) <= MinutesOf(c)
    BY <2>1, LongOrder
  <2>3. /\ TextRank(d) \in Int /\ TextRank(c) \in Int /\ MinutesOf(c) \in Int /\ MinutesOf(d) = 570
    BY <2>1, RanksAreInt
  <2>4. TextRank(c) < TextRank(d) => MinutesOf(c) < 570
    BY <2>2, <2>3, SMT
  <2> QED BY <2>4 DEF d
<1>5. 60 * 15 + 5 = 905 /\ 60 * 23 + 0 = 1380 /\ 60 * 15 + 10 = 910 /\ 60 * 23 + 59 = 1439
  BY SMT
<1> QED BY <1>1, <1>2, <1>3, <1>4, <1>5

\* A clock of one digit passes for an evening with the hour 1 and no other.
LEMMA ShortWithin ==
  ASSUME NEW c \in ClockTexts, c.short, NEW n \in {0, 59}
  PROVE  TextWithin(c, Clock(15, 10), Clock(23, n)) <=> c.hour = 1
<1> DEFINE p == c.minute \div 10  q == c.minute % 10
<1>1. c.hour \in 0 .. 9 /\ c.minute \in 0 .. 59
  BY DEF ClockTexts
<1>2. p \in 0 .. 5 /\ q \in 0 .. 9
  BY <1>1, Digits
<1>3. TextRank(c) = 14641 * c.hour + 13310 + 121 * p + 11 * q
  BY <1>1, <1>2, SMT DEF TextRank
<1>4. TextRank(Clock(15, 10)) = 14641 + 1331 * 5 + 1210 + 11
  BY SMT DEF TextRank, Clock
<1>5. TextRank(Clock(23, n)) = 14641 * 2 + 1331 * 3 + 1210 + 11 * (n \div 10) + (n % 10)
  BY SMT DEF TextRank, Clock
<1>6. n \div 10 \in 0 .. 5 /\ n % 10 \in 0 .. 9
  BY Digits
<1> HIDE DEF p, q
<1> QED BY <1>1, <1>2, <1>3, <1>4, <1>5, <1>6, SMT DEF TextWithin, Within

\* Intraday.Validate and Predictor.Validate read a clock as it is written; DayRange.Validate
\* does not: one at night passes where it says an evening.
THEOREM ClocksAreEvenings ==
  /\ \A i : ValidIntraday(i) /\ i.enabled /\ i.calibration_at \in ClockTexts
        => Within(MinutesOf(i.calibration_at), 905, 1380)
  /\ \A p : ValidPredictor(p) /\ p.enabled /\ p.train_at \in ClockTexts
        => Within(MinutesOf(p.train_at), 910, 1380)
  /\ \A d \in ClockFields : ValidDayRange(d) /\ d.enabled
        => /\ MinutesOf(d.predict_at) < 570
           /\ Within(MinutesOf(d.train_at), 910, 1380) \/ d.train_at.short
           /\ Within(MinutesOf(d.reconcile_at), 910, 1439) \/ d.reconcile_at.short
<1>1. ASSUME NEW i, ValidIntraday(i), i.enabled, i.calibration_at \in ClockTexts
      PROVE  Within(MinutesOf(i.calibration_at), 905, 1380)
  <2>1. ~i.calibration_at.short /\ TextWithin(i.calibration_at, Clock(15, 5), Clock(23, 0))
    BY <1>1 DEF ValidIntraday, CanonicalClock
  <2>2. Within(MinutesOf(i.calibration_at), 905, 1380)
    BY <1>1, <2>1, EveningWithin
  <2> QED BY <2>2
<1>2. ASSUME NEW p, ValidPredictor(p), p.enabled, p.train_at \in ClockTexts
      PROVE  Within(MinutesOf(p.train_at), 910, 1380)
  <2>1. ~p.train_at.short /\ TextWithin(p.train_at, Clock(15, 10), Clock(23, 0))
    BY <1>2 DEF ValidPredictor, CanonicalClock
  <2>2. Within(MinutesOf(p.train_at), 910, 1380)
    BY <1>2, <2>1, EveningWithin
  <2> QED BY <2>2
<1>3. ASSUME NEW d \in ClockFields, ValidDayRange(d), d.enabled
      PROVE  /\ MinutesOf(d.predict_at) < 570
             /\ Within(MinutesOf(d.train_at), 910, 1380) \/ d.train_at.short
             /\ Within(MinutesOf(d.reconcile_at), 910, 1439) \/ d.reconcile_at.short
  <2> DEFINE c == d.predict_at
  <2>1. /\ c \in ClockTexts /\ d.train_at \in ClockTexts /\ d.reconcile_at \in ClockTexts
        /\ d.train_at.short \in BOOLEAN /\ d.reconcile_at.short \in BOOLEAN /\ c.short \in BOOLEAN
    BY DEF ClockFields, ClockTexts
  <2>2. /\ TextWithin(d.train_at, Clock(15, 10), Clock(23, 0))
        /\ TextRank(c) < TextRank(Clock(9, 30))
        /\ TextWithin(d.reconcile_at, Clock(15, 10), Clock(23, 59))
    BY <1>3 DEF ValidDayRange
  <2>3. MinutesOf(c) < 570
    <3>1. CASE ~c.short
      BY <2>1, <2>2, <3>1, EveningWithin
    <3>2. CASE c.short
      <4>1. c.hour \in 0 .. 9 /\ c.minute \in 0 .. 59
        BY <2>1, <3>2 DEF ClockTexts
      <4>2. c.minute \div 10 \in 0 .. 5 /\ c.minute % 10 \in 0 .. 9
        BY <4>1, Digits
      <4>3. TextRank(c) >= 13310
        BY <3>2, <4>1, <4>2, SMT DEF TextRank
      <4>4. TextRank(Clock(9, 30)) = 1331 * 9 + 1210 + 33
        BY SMT DEF TextRank, Clock
      <4> QED BY <2>1, <2>2, <4>3, <4>4, RanksAreInt
    <3> QED BY <2>1, <3>1, <3>2
  <2>4. ~d.train_at.short => Within(MinutesOf(d.train_at), 910, 1380)
    BY <2>1, <2>2, EveningWithin
  <2>5. ~d.reconcile_at.short => Within(MinutesOf(d.reconcile_at), 910, 1439)
    BY <2>1, <2>2, EveningWithin
  <2> QED BY <2>1, <2>3, <2>4, <2>5
<1> QED BY <1>1, <1>2, <1>3

\* DayRange.Validate: an hour of one digit passes for the evening when it is 1, whatever the
\* minute, and the service then trains from that time of the night on.
THEOREM NightPassesForEvening ==
  ASSUME NEW d \in ClockFields, ValidDayRange(d), d.enabled,
         NEW h \in 0 .. 9, NEW m \in 0 .. 59
  PROVE  /\ ValidDayRange([d EXCEPT !.train_at = ShortClock(h, m)]) <=> h = 1
         /\ ValidDayRange([d EXCEPT !.reconcile_at = ShortClock(h, m)]) <=> h = 1
<1> DEFINE c == ShortClock(h, m)
<1>1. c \in ClockTexts /\ c.short /\ c.hour = h /\ ReadableClock(c)
  BY DEF ShortClock, ClockTexts, ReadableClock
<1>2. /\ TextWithin(c, Clock(15, 10), Clock(23, 0)) <=> h = 1
      /\ TextWithin(c, Clock(15, 10), Clock(23, 59)) <=> h = 1
  BY <1>1, ShortWithin
<1> HIDE DEF c
<1>3. ValidDayRange([d EXCEPT !.train_at = c]) <=> h = 1
  BY <1>1, <1>2 DEF ClockFields, ValidDayRange
<1>4. ValidDayRange([d EXCEPT !.reconcile_at = c]) <=> h = 1
  BY <1>1, <1>2 DEF ClockFields, ValidDayRange
<1> QED BY <1>3, <1>4 DEF c

\* NotificationChannels: the channels of a configuration that Config.Validate passes have names
\* of their own, and the only one of WeChat is the draft. The ledgers of all services know a
\* channel by its name.
THEOREM ChannelsAreDistinct ==
  ASSUME NEW c, ValidChannels(c)
  PROVE  /\ \A a, b \in NotificationChannels(c) : a.name = b.name => a = b
         /\ \A a \in NotificationChannels(c) : a.type = "wechat" <=> a = DraftChannel
<1> DEFINE own == {c.channels[i] : i \in {j \in 1 .. Len(c.channels) : c.channels[j].enabled}}
           main == FeishuMain(c.feishu.hook)
<1>1. /\ DraftChannel.name = "wechat-draft" /\ main.name = "feishu-main"
      /\ DraftChannel.type = "wechat" /\ main.type = "feishu"
  BY DEF DraftChannel, FeishuMain
<1>2. \A a \in NotificationChannels(c) :
         \/ c.channels # <<>> /\ a \in own
         \/ c.channels = <<>> /\ a = main
         \/ c.wechat.enabled /\ a = DraftChannel
  BY Zenon DEF NotificationChannels
<1>3. \A a, b \in own : a.name = b.name => a = b
  BY Zenon DEF ValidChannels
<1>4. c.wechat.enabled => \A a \in own : a.name # DraftChannel.name
  BY Zenon DEF ValidChannels
<1> HIDE DEF own, main
<1>5. ASSUME NEW a \in NotificationChannels(c), NEW b \in NotificationChannels(c), a.name = b.name
      PROVE  a = b
  BY <1>1, <1>2, <1>3, <1>4, <1>5
<1>6. ASSUME NEW a \in NotificationChannels(c), a.type = "wechat" PROVE a = DraftChannel
  <2>1. c.wechat.enabled /\ a.name = DraftChannel.name
    BY <1>6 DEF ValidChannels
  <2> QED BY <1>1, <1>2, <1>4, <1>6, <2>1
<1> QED BY <1>1, <1>5, <1>6

\* Config.Validate and ChannelNamesForRoute: with the WeChat draft on, one of the two articles
\* it takes has a service that pushes it, and the draft takes no other message.
THEOREM DraftHasAnArticle ==
  ASSUME NEW c, ValidConfig(c), c.wechat.enabled
  PROVE  /\ (c.second.enabled /\ c.second.push /\ c.first.enabled /\ c.adjust = "qfq")
               \/ (c.dayrange.enabled /\ c.dayrange.push)
         /\ \A route \in NotifyRoutes :
               DraftChannel.name \in ChannelNamesForRoute(c, route)
                  <=> route \in {"second_stage", "wechat_premarket"}
<1>1. ValidChannels(c) /\ SectionsAgree(c)
  BY DEF ValidConfig
<1>2. (c.second.enabled /\ c.second.push) \/ (c.dayrange.enabled /\ c.dayrange.push)
  BY <1>1, Zenon DEF ValidChannels
<1>3. c.second.enabled => c.first.enabled /\ c.adjust = "qfq"
  BY <1>1, Zenon DEF SectionsAgree
<1>4. DraftChannel \in NotificationChannels(c)
  BY DEF NotificationChannels
<1>5. ASSUME NEW route \in NotifyRoutes, DraftChannel.name \in ChannelNamesForRoute(c, route)
      PROVE  route \in {"second_stage", "wechat_premarket"}
  <2>1. PICK n \in NotificationChannels(c) : /\ n.name = DraftChannel.name
                                             /\ n.route = {} \/ RouteMatches(n.route, route)
    BY <1>5 DEF ChannelNamesForRoute
  <2>2. n = DraftChannel
    BY <1>1, <1>4, <2>1, ChannelsAreDistinct
  <2> QED BY <2>1, <2>2 DEF DraftChannel, RouteMatches
<1>6. ASSUME NEW route \in {"second_stage", "wechat_premarket"}
      PROVE  DraftChannel.name \in ChannelNamesForRoute(c, route)
  <2>1. RouteMatches(DraftChannel.route, route)
    BY DEF RouteMatches, DraftChannel
  <2> QED BY <1>4, <2>1 DEF ChannelNamesForRoute
<1> QED BY <1>2, <1>3, <1>5, <1>6

-----------------------------------------------------------------------------
(* The settings of the language model.                                      *)

SettingsSets == [SettingsField -> SettingsText]

SettingsTyped ==
    /\ deployment \in Deployments
    /\ llmFile \in SettingsFiles /\ durableFile \in SettingsFiles
    /\ llmRuntime \in SettingsSets
    /\ serving \in BOOLEAN
    /\ unsure \in SUBSET SettingsSets

\* Between two runs there is one file.
AtRest == ~serving => durableFile = llmFile

LLMInv ==
    /\ SettingsTyped /\ AtRest
    /\ EnvironmentRules /\ CanRestart /\ NextStartAgrees
    /\ serving => Serviceable(deployment, llmRuntime)

LEMMA FilesSay == \A file \in SettingsFiles : file.set \in Saying
<1>1. NoSettings \in [{} -> SettingsText] /\ {} \in SUBSET SettingsField
  BY DEF NoSettings
<1>2. NoSettings \in Saying
  BY <1>1 DEF Saying
<1> QED BY <1>2 DEF SettingsFiles, MissingFile, GarbledFile, WholeFile

LEMMA SayingIs ==
  \A s \in Saying : /\ DOMAIN s \subseteq SettingsField
                    /\ \A f \in DOMAIN s : s[f] \in SettingsText
BY DEF Saying

LEMMA LayeredTyped ==
  ASSUME NEW env \in Saying, NEW file \in Saying
  PROVE  LayeredSettings(env, file) \in SettingsSets
<1>1. \A f \in SettingsField : DefaultSettings[f] \in SettingsText
  BY SettingsAssumption
<1> QED BY <1>1, SayingIs DEF LayeredSettings, SettingsSets

\* What an update gives keeps what is locked.
LEMMA UpdatedKeepsLocked ==
  ASSUME SettingsTyped, serving, EnvironmentRules, NEW update \in Saying
  PROVE  /\ Updated(update) \in SettingsSets
         /\ \A f \in Locked : Updated(update)[f] = deployment.env[f]
<1>1. deployment.env \in Saying
  BY DEF SettingsTyped, Deployments
<1>2. Locked \subseteq SettingsField
  BY <1>1, SayingIs DEF Locked
<1>3. Updated(update) \in SettingsSets
  BY SayingIs DEF Updated, SettingsSets, SettingsTyped
<1> QED BY <1>2, <1>3 DEF Updated, EnvironmentRules

\* writeLLMFile and loadLLMFile: what is written is read again, in the same environment.
LEMMA WrittenIsRead ==
  ASSUME SettingsTyped, NEW next \in SettingsSets, \A f \in Locked : next[f] = deployment.env[f]
  PROVE  /\ Written(next) \in SettingsFiles /\ Written(next).state = "whole"
         /\ LayeredSettings(deployment.env, Written(next).set) = next
<1> DEFINE set == [f \in SettingsField \ Locked |-> next[f]]
<1>1. Written(next).set = set /\ Written(next).state = "whole" /\ Written(next) = WholeFile(set)
  BY DEF Written, WholeFile
<1>2. set \in [SettingsField \ Locked -> SettingsText]
  BY DEF SettingsSets
<1>3. set \in Saying
  BY <1>2 DEF Saying
<1>4. Written(next) \in SettingsFiles
  BY <1>1, <1>3 DEF SettingsFiles
<1>5. LayeredSettings(deployment.env, set) =
         [f \in SettingsField |-> IF f \in Locked THEN deployment.env[f]
                                  ELSE IF f \in DOMAIN set THEN set[f] ELSE DefaultSettings[f]]
  BY DEF LayeredSettings, Locked
<1>6. \A f \in SettingsField : LayeredSettings(deployment.env, set)[f] = next[f]
  BY <1>5
<1>7. LayeredSettings(deployment.env, set) = next
  BY <1>5, <1>6 DEF SettingsSets
<1> QED BY <1>1, <1>4, <1>7

LEMMA LLMInvInit == SettingsInit => LLMInv
BY SettingsAssumption DEF SettingsInit, LLMInv, SettingsTyped, SettingsSets, EnvironmentRules, CanRestart, NextStartAgrees, AtRest

LEMMA LLMInvStep == LLMInv /\ [SettingsNext]_settingsVars => LLMInv'
<1> SUFFICES ASSUME LLMInv, [SettingsNext]_settingsVars PROVE LLMInv'
  OBVIOUS
<1> USE DEF LLMInv
<1>0. deployment.env \in Saying
  BY DEF SettingsTyped, Deployments
<1>1. CASE StartServing
  <2> DEFINE read == LayeredSettings(deployment.env, llmFile.set)
  <2>1. read \in SettingsSets
    BY <1>0, FilesSay, LayeredTyped DEF SettingsTyped
  <2>2. \A f \in Locked : read[f] = deployment.env[f]
    BY <1>0, SayingIs DEF LayeredSettings, Locked
  <2> HIDE DEF read
  <2>3. /\ llmRuntime' = read /\ serving' = TRUE /\ unsure' = {}
        /\ UNCHANGED <<deployment, llmFile, durableFile>> /\ Serviceable(deployment, read)
        /\ ~serving /\ llmFile.state # "garbled"
    BY <1>1 DEF StartServing, read
  <2>4. SettingsTyped'
    BY <2>1, <2>3 DEF SettingsTyped
  <2>5. EnvironmentRules'
    BY <2>2, <2>3 DEF EnvironmentRules, Locked
  <2>6. durableFile = llmFile
    BY <2>3 DEF AtRest
  <2>7. CanRestart'
    BY <2>3, <2>6 DEF CanRestart, read
  <2>8. NextStartAgrees'
    BY <2>3, <2>6 DEF NextStartAgrees, read
  <2>9. (serving => Serviceable(deployment, llmRuntime))' /\ AtRest'
    BY <2>3 DEF Serviceable, AtRest
  <2> QED BY <2>4, <2>5, <2>7, <2>8, <2>9
<1>2. CASE StopServing
  BY <1>2, SettingsAssumption
  DEF StopServing, SettingsTyped, SettingsSets, EnvironmentRules, CanRestart, NextStartAgrees, AtRest
<1>3. CASE EditFile
  BY <1>3 DEF EditFile, SettingsTyped, EnvironmentRules, CanRestart, NextStartAgrees, AtRest
<1>4. CASE Deploy
  BY <1>4 DEF Deploy, SettingsTyped, EnvironmentRules, CanRestart, NextStartAgrees, AtRest
<1>5. ASSUME NEW update \in Saying, Save(update) PROVE LLMInv'
  <2> DEFINE next == Updated(update)
  <2>1. serving /\ next \in SettingsSets /\ \A f \in Locked : next[f] = deployment.env[f]
    BY <1>5, UpdatedKeepsLocked DEF Save
  <2>2. /\ Written(next) \in SettingsFiles /\ Written(next).state = "whole"
        /\ LayeredSettings(deployment.env, Written(next).set) = next
    BY <2>1, WrittenIsRead
  <2> HIDE DEF next
  <2>3. /\ llmFile' = Written(next) /\ llmRuntime' = next /\ unsure' = {}
        /\ durableFile' = Written(next) \/ (~SyncsDirectories /\ durableFile' = durableFile)
        /\ UNCHANGED <<deployment, serving>> /\ Serviceable(deployment, next)
    BY <1>5, SettingsAssumption DEF Save, next
  <2>4. SettingsTyped'
    BY <2>1, <2>2, <2>3 DEF SettingsTyped
  <2>5. EnvironmentRules'
    BY <2>1, <2>3 DEF EnvironmentRules, Locked
  <2>6. CanRestart'
    BY <2>1, <2>2, <2>3 DEF CanRestart
  <2>7. NextStartAgrees'
    BY <2>1, <2>2, <2>3, SettingsAssumption DEF NextStartAgrees
  <2>8. (serving => Serviceable(deployment, llmRuntime))' /\ AtRest'
    BY <2>1, <2>3 DEF Serviceable, AtRest
  <2> QED BY <2>4, <2>5, <2>6, <2>7, <2>8
<1>6. ASSUME NEW update \in Saying, SaveUnsynced(update) PROVE LLMInv'
  <2> DEFINE next == Updated(update)
  <2>1. serving /\ next \in SettingsSets /\ \A f \in Locked : next[f] = deployment.env[f]
    BY <1>6, UpdatedKeepsLocked DEF SaveUnsynced
  <2>2. /\ Written(next) \in SettingsFiles /\ Written(next).state = "whole"
        /\ LayeredSettings(deployment.env, Written(next).set) = next
    BY <2>1, WrittenIsRead
  <2> HIDE DEF next
  <2>3. /\ llmFile' = Written(next) /\ unsure' = unsure \cup {next}
        /\ durableFile' \in {Written(next), durableFile}
        /\ UNCHANGED <<deployment, llmRuntime, serving>> /\ Serviceable(deployment, next)
    BY <1>6 DEF SaveUnsynced, next
  <2>4. SettingsTyped'
    BY <2>1, <2>2, <2>3 DEF SettingsTyped
  <2>5. EnvironmentRules'
    BY <2>3 DEF EnvironmentRules, Locked
  <2>6. CanRestart'
    BY <2>1, <2>2, <2>3 DEF CanRestart
  <2>7. NextStartAgrees'
    BY <2>1, <2>2, <2>3, SettingsAssumption DEF NextStartAgrees
  <2>8. (serving => Serviceable(deployment, llmRuntime))' /\ AtRest'
    BY <2>1, <2>3 DEF Serviceable, AtRest
  <2> QED BY <2>4, <2>5, <2>6, <2>7, <2>8
<1>7. CASE UNCHANGED settingsVars
  BY <1>7 DEF settingsVars, SettingsTyped, EnvironmentRules, CanRestart, NextStartAgrees, AtRest, Locked
<1> QED BY <1>1, <1>2, <1>3, <1>4, <1>5, <1>6, <1>7 DEF SettingsNext

LEMMA LLMInvariant == SettingsSpec => []LLMInv
BY LLMInvInit, LLMInvStep, PTL DEF SettingsSpec

\* LLM.Locked: the environment's settings are the program's, whatever the page saves.
THEOREM EnvironmentRulesHolds == SettingsSpec => []EnvironmentRules
BY LLMInvariant, PTL DEF LLMInv

\* LLMRuntime.Apply: no save, whether it succeeded or not, and no power failure at any point
\* of it leaves a file that keeps the program from starting again in the same environment.
THEOREM CanRestartHolds == SettingsSpec => []CanRestart
BY LLMInvariant, PTL DEF LLMInv

\* The next start has the settings in use, unless a save was answered as a failure after the
\* file was replaced; with a file system that syncs directories after a power failure too.
THEOREM NextStartAgreesHolds == SettingsSpec => []NextStartAgrees
BY LLMInvariant, PTL DEF LLMInv

\* A file that was saved while the language model was on keeps no later deployment from
\* starting whose own settings are acceptable: writeLLMFile leaves out what is locked, and
\* the rest was validated.
THEOREM SavedFileServes ==
  ASSUME LLMInv, NEW update \in Saying, Save(update) \/ SaveUnsynced(update), deployment.on,
         NEW env \in Saying, \A f \in DOMAIN env : env[f] \in Acceptable[f]
  PROVE  AcceptableSettings(LayeredSettings(env, llmFile'.set))
<1> DEFINE next == Updated(update)
           set == [f \in SettingsField \ Locked |-> next[f]]
<1>1. /\ llmFile' = Written(next) /\ AcceptableSettings(next)
  BY DEF Save, SaveUnsynced, Serviceable
<1>2. llmFile'.set = set
  BY <1>1 DEF Written, WholeFile
<1>3. \A f \in DOMAIN set : set[f] \in Acceptable[f]
  BY <1>1 DEF AcceptableSettings
<1>4. \A f \in SettingsField : DefaultSettings[f] \in Acceptable[f]
  BY SettingsAssumption
<1> HIDE DEF next, set
<1>5. \A f \in SettingsField : LayeredSettings(env, set)[f] \in Acceptable[f]
  BY <1>3, <1>4 DEF LayeredSettings
<1> QED BY <1>2, <1>5 DEF AcceptableSettings
=============================================================================
