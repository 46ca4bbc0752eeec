---------------------------- MODULE IntradaySync ----------------------------
(***************************************************************************)
(* The minute synchronization (intraday/monitor.go) and what it stores     *)
(* (storage/intraday.go).  Every cycle chooses the stocks that are due, a  *)
(* pool of workers fetches them, and the first fatal error stops the pool. *)
(*                                                                         *)
(* A moment is counted from midnight of day 0; the day has two sessions    *)
(* that are cut into slots, and a bar is the moment its slot ends.  Prices *)
(* are left out: a stored bar is open or final.                            *)
(***************************************************************************)
EXTENDS Integers, Sequences, FiniteSets

CONSTANTS
    MinuteStock, MinuteWorker,
    OpenAt, Noon, Resume, CloseAt,  \* 9:30, 11:30, 13:00, 15:00
    BarSlot,                       \* five minutes
    CalibrateAt,                \* calibration_at
    DayLen,                     \* the length of a day
    TradingDay,                 \* the days with a session, from day 0
    Poll, CalmPoll,             \* poll_interval, and the least one off session
    Short,                      \* 64 bars; a longer window is asked for at need
    LastMoment, MaxJobs         \* bounds of the exploration

ASSUME IntradayAssumption ==
    /\ IsFiniteSet(MinuteStock) /\ MinuteWorker # {} /\ TradingDay \subseteq Nat
    /\ {OpenAt, Noon, Resume, CloseAt, CalibrateAt, DayLen, BarSlot} \subseteq Nat
    /\ 0 < OpenAt /\ OpenAt < Noon /\ Noon < Resume /\ Resume < CloseAt
    /\ CloseAt < CalibrateAt /\ CalibrateAt < DayLen
    /\ BarSlot > 0 /\ (Noon - OpenAt) % BarSlot = 0 /\ (CloseAt - Resume) % BarSlot = 0
    /\ Resume - Noon >= BarSlot
    /\ 0 \in TradingDay

VARIABLES
    wall,       \* the clock
    minute,     \* intraday_sync: stock -> what its last attempt left
    candles,    \* intraday_bar: stock -> bar -> "open" or "final"
    jobs,       \* the jobs so far
    mpc,        \* where Sync is
    queue,      \* the jobs no worker has taken
    expected,   \* the jobs of this cycle
    mjob,       \* worker -> what it is at
    results,    \* the outcomes the workers have sent
    halted,     \* the context of the cycle is cancelled
    watched     \* the stocks of the configuration

cycleVars == <<jobs, mpc, queue, expected, mjob, results, halted>>
minuteVars == <<wall, minute, candles, cycleVars, watched>>

Never == -1
Untried == [target |-> Never, attempt |-> Never, fetched |-> Never,
            status |-> "none", calibrated |-> Never]
Resting == [stage |-> "idle"]
Busy(w) == mjob[w].stage \in {"fetching", "answered"}

DayIn(t) == t \div DayLen
ClockOf(t) == t % DayLen
\* The ends of the slots of a day.  (MinuteSession, period 5)
SlotEnds(d) == {d * DayLen + e : e \in {n \in OpenAt + 1 .. Noon : (n - OpenAt) % BarSlot = 0}
                                      \cup {n \in Resume + 1 .. CloseAt : (n - Resume) % BarSlot = 0}}
AllEnds == UNION {SlotEnds(d) : d \in TradingDay}

IntradayTypeOK ==
    /\ wall \in 0 .. LastMoment
    /\ \A s \in MinuteStock :
         /\ minute[s].status \in {"none", "ok", "stale", "partial", "failed"}
         /\ minute[s].fetched <= minute[s].attempt
         /\ minute[s].attempt <= wall
         /\ DOMAIN candles[s] \subseteq AllEnds
    /\ jobs \in 0 .. MaxJobs
    /\ mpc \in {"idle", "run"}
    /\ queue \subseteq expected
    /\ expected \subseteq MinuteStock
    /\ halted \in BOOLEAN
    /\ watched \subseteq MinuteStock

IntradayInit ==
    /\ wall = OpenAt
    /\ minute = [s \in MinuteStock |-> Untried]
    /\ candles = [s \in MinuteStock |-> [b \in {} |-> "open"]]
    /\ jobs = 0
    /\ mpc = "idle"
    /\ queue = {}
    /\ expected = {}
    /\ mjob = [w \in MinuteWorker |-> Resting]
    /\ results = << >>
    /\ halted = FALSE
    /\ watched \in (SUBSET MinuteStock) \ {{}}

-----------------------------------------------------------------------------
PreviousDay(t) == CHOOSE d \in TradingDay :
    d < DayIn(t) /\ \A e \in TradingDay : e < DayIn(t) => e <= d

\* Schedule: the bar a synchronization at moment t should reach, whether the
\* session is on, and whether the day it reaches is to be calibrated.
Schedule(t) ==
    LET n == ClockOf(t)
        trades == DayIn(t) \in TradingDay /\ n >= OpenAt
        start == IF n < Noon THEN OpenAt ELSE Resume
        onSession == trades /\ (n < Noon \/ (n >= Resume /\ n < CloseAt))
        end == CASE onSession -> start + ((n - start) \div BarSlot + 1) * BarSlot
                 [] trades /\ n >= Noon /\ n < Resume -> Noon
                 [] OTHER -> CloseAt
        day == IF trades THEN DayIn(t) ELSE PreviousDay(t)
    IN  [target |-> day * DayLen + end, active |-> onSession,
         calibrate |-> day < DayIn(t) \/ (end = CloseAt /\ n >= CalibrateAt)]

\* Whether a stock is due: an attempt rests for the poll interval, which a day
\* that becomes due for calibration overrides once; off session, a target that
\* is met, or a day that is calibrated, is left alone.
DueNow(s, t) ==
    LET m == minute[s]
        plan == Schedule(t)
        wait == IF plan.active \/ Poll >= CalmPoll THEN Poll ELSE CalmPoll
        before == Schedule(m.attempt)
        newCalibration == plan.calibrate
            /\ (m.attempt = Never \/ ~ before.calibrate
                \/ DayIn(before.target) # DayIn(plan.target))
    IN  /\ newCalibration \/ m.attempt = Never \/ t >= m.attempt + wait
        /\ ~ (/\ ~ plan.active
              /\ \/ m.calibrated >= DayIn(plan.target)
                 \/ ~ plan.calibrate /\ m.target = plan.target /\ m.status = "ok")
WindowOf(s, t) ==
    IF minute[s].fetched = Never \/ Schedule(t).calibrate THEN Cardinality(AllEnds) ELSE Short

\* The windows a source may answer at moment t that Validate accepts: the last
\* `count` bars, of which the last is at most one slot ahead.  A window may lag
\* one bar behind, or lack the bar before its last one.
Windows(t, count) ==
    LET after(e) == {f \in AllEnds : e < f /\ f <= t + BarSlot}
        tail == {e \in AllEnds : e <= t + BarSlot /\ Cardinality(after(e)) < count}
        behind(k) == {e \in tail : Cardinality(after(e)) = k}
    IN  {tail, tail \ behind(0), tail \ behind(1)} \ {{}}
LastOf(win) == CHOOSE e \in win : \A f \in win : f <= e

\* completeDay: every slot of the target's day up to the target is there.
CompleteDay(win, target) == {e \in SlotEnds(DayIn(target)) : e <= target} \subseteq win

\* The verdict of syncStock over an answer fetched at moment t.
Verdict(win, t) ==
    LET plan == Schedule(t)
        last == LastOf(win)
    IN  CASE last < plan.target -> "stale"
          [] last >= plan.target /\ ~ plan.active /\ last > t -> "partial"
          [] OTHER -> IF CompleteDay(win, plan.target) THEN "ok" ELSE "partial"

\* What SaveMinutes refuses, although syncStock hands it over.
Refused(s, win, t, calibrates) ==
    LET target == Schedule(t).target
        final == {e \in win : DayIn(e) = DayIn(target) /\ e <= t}
    IN  \/ LastOf(win) > target
        \/ minute[s].attempt > wall
        \/ minute[s].fetched > t
        \/ calibrates /\ (ClockOf(target) # CloseAt \/ final # SlotEnds(DayIn(target)))

-----------------------------------------------------------------------------
\* Sync chooses the stocks that are due; without one it returns.
StartRound ==
    /\ mpc = "idle"
    /\ LET due == {s \in watched : DueNow(s, wall)}
       IN  /\ due # {}
           /\ queue' = due
           /\ expected' = due
           /\ mjob' = [w \in MinuteWorker |-> Resting]
    /\ jobs' = jobs + Cardinality(expected')
    /\ jobs' <= MaxJobs
    /\ mpc' = "run"
    /\ results' = << >>
    /\ halted' = FALSE
    /\ UNCHANGED <<wall, minute, candles, watched>>

\* A worker takes a job and its request begins: that is the moment of the
\* observation.  Once the context is cancelled it leaves instead, and the jobs
\* that remain are not processed.
TakeJob(w) ==
    /\ mpc = "run"
    /\ mjob[w].stage = "idle"
    /\ \/ /\ queue = {}
          /\ mjob' = [mjob EXCEPT ![w] = [stage |-> "left"]]
          /\ UNCHANGED queue
       \/ \E s \in queue :
            /\ queue' = queue \ {s}
            /\ mjob' = [mjob EXCEPT ![w] =
                 IF halted THEN [stage |-> "left"]
                 ELSE [stage |-> "fetching", stock |-> s, at |-> wall, count |-> WindowOf(s, wall)]]
    /\ UNCHANGED <<wall, minute, candles, jobs, mpc, expected, results, halted, watched>>

\* The source answers a window, or fails; a cancelled request is fatal.
EndFetch(w) ==
    /\ mjob[w].stage = "fetching"
    /\ \E win \in Windows(mjob[w].at, mjob[w].count) \cup {{}} :
         mjob' = [mjob EXCEPT ![w] =
           [stage |-> "answered", stock |-> mjob[w].stock, at |-> mjob[w].at,
            window |-> win, cancelled |-> halted]]
    /\ UNCHANGED <<wall, minute, candles, jobs, mpc, queue, expected, results, halted, watched>>

\* Mutant of Room: the channel is one place short.
RoomShort == Cardinality(expected) - 1

\* The channel of the outcomes has room for one of every job.
Room == Cardinality(expected)

\* The worker sends its outcome, and stops the others if it is fatal.
Send(w, verdict) ==
    /\ Len(results) < Room
    /\ results' = Append(results, [of |-> mjob[w].stock,
                                   is |-> IF verdict \in {"ok", "fatal"} THEN verdict ELSE "bad"])
    /\ halted' = (halted \/ verdict = "fatal")
    /\ mjob' = [mjob EXCEPT ![w] =
         IF verdict = "fatal" THEN [stage |-> "left"] ELSE Resting]
    /\ UNCHANGED <<wall, jobs, mpc, queue, expected, watched>>

\* SaveMinutes replaces the overlap of the window and keeps what is outside;
\* a failed fetch changes only the status.  All of it is one transaction.
SaveMinutes(w) ==
    /\ mjob[w].stage = "answered"
    /\ ~ mjob[w].cancelled /\ ~ halted
    /\ LET s == mjob[w].stock
           win == mjob[w].window
           t == mjob[w].at
           plan == Schedule(t)
           missed == win = {}
           is == IF missed THEN "failed" ELSE Verdict(win, t)
           calibrates == ~ missed /\ plan.calibrate /\ is = "ok" /\ LastOf(win) <= t
           kept == {b \in DOMAIN candles[s] : \A e \in win : e > b \/ (\A f \in win : f < b)}
       IN  /\ ~ (~ missed /\ Refused(s, win, t, calibrates))
           /\ minute' = [minute EXCEPT ![s] =
                [target |-> plan.target, attempt |-> wall,
                 fetched |-> IF missed THEN @.fetched ELSE t, status |-> is,
                 calibrated |-> IF calibrates THEN DayIn(plan.target) ELSE @.calibrated]]
           /\ candles' = IF missed THEN candles
                         ELSE [candles EXCEPT ![s] = [b \in kept \cup win |->
                                IF b \in win THEN (IF b <= t THEN "final" ELSE "open")
                                ELSE @[b]]]
           /\ Send(w, is)

\* The transaction fails, refuses, or the context is cancelled: nothing is kept.
SaveFails(w) ==
    /\ mjob[w].stage = "answered"
    /\ Send(w, "fatal")
    /\ UNCHANGED <<minute, candles, watched>>

\* All workers have left: the outcomes are counted and Sync returns.
CollectRound ==
    /\ mpc = "run"
    /\ \A w \in MinuteWorker : mjob[w].stage = "left"
    /\ mpc' = "idle"
    /\ queue' = {}
    /\ expected' = {}
    /\ mjob' = [w \in MinuteWorker |-> Resting]
    /\ results' = << >>
    /\ halted' = FALSE
    /\ UNCHANGED <<wall, minute, candles, jobs, watched>>

\* The service is stopped.
StopMonitor ==
    /\ mpc = "run"
    /\ ~ halted
    /\ halted' = TRUE
    /\ UNCHANGED <<wall, minute, candles, jobs, mpc, queue, expected, mjob, results, watched>>

\* Time passes; a request takes less than a slot.
ClockTicks ==
    /\ wall < LastMoment
    /\ \A w \in MinuteWorker : Busy(w) => wall = mjob[w].at
    /\ wall' = wall + 1
    /\ UNCHANGED <<minute, candles, cycleVars, watched>>

IntradayNext ==
    \/ StartRound
    \/ \E w \in MinuteWorker : TakeJob(w)
    \/ \E w \in MinuteWorker : EndFetch(w)
    \/ \E w \in MinuteWorker : SaveMinutes(w)
    \/ \E w \in MinuteWorker : SaveFails(w)
    \/ CollectRound
    \/ StopMonitor
    \/ ClockTicks

IntradaySpec == IntradayInit /\ [][IntradayNext]_minuteVars

-----------------------------------------------------------------------------
(***************************************************************************)
(* Properties.                                                             *)
(***************************************************************************)

\* SaveMinutes never refuses what syncStock hands over: a refusal is fatal, and
\* one stock's window would stop the cycle of all of them.  The two compute the
\* target, the last bar and the completeness apart, at every minute of the day.
\* (monitor.go syncStock; storage/intraday.go SaveMinutes)
NothingRefused ==
    \A w \in MinuteWorker :
        mjob[w].stage = "answered" /\ mjob[w].window # {} =>
            LET win == mjob[w].window
                plan == Schedule(mjob[w].at)
            IN  ~ Refused(mjob[w].stock, win, mjob[w].at,
                    plan.calibrate /\ Verdict(win, mjob[w].at) = "ok" /\ LastOf(win) <= mjob[w].at)

\* Nothing is refused, and whichever worker stops first and whatever it leaves in the
\* queue, one that has an outcome can send it: the channel of the outcomes has room,
\* though none is read before all have left, so every worker comes to its end.  A round
\* that was not stopped then counts exactly one outcome of every stock that was due.
\* (monitor.go Sync)
RoundComesOut ==
    mpc = "run" =>
        /\ NothingRefused
        /\ \A w \in MinuteWorker : mjob[w].stage = "answered" => Len(results) < Room
        /\ (\A w \in MinuteWorker : mjob[w].stage = "left") /\ ~ halted =>
               /\ {results[i].of : i \in DOMAIN results} = expected
               /\ Len(results) = Cardinality(expected)
=============================================================================
