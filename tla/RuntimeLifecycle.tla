-------------------------- MODULE RuntimeLifecycle --------------------------
(***************************************************************************)
(* The lifetime of the process, runtime/runtime.go and lifecycle.go: how   *)
(* Runtime.Run starts the dashboard server and the ingestion loops, how    *)
(* they stop one another, and how Close waits for them before it releases  *)
(* the storage lock and the databases.  Run and Close may be called by     *)
(* several goroutines of the host at any time.                             *)
(*                                                                         *)
(* A Runner is one call of Run, a Closer one call of Close; a Loop is one  *)
(* of the monitors.  runServices and runMonitors run inside the call.  The *)
(* sections under r.mu are single steps.                                   *)
(*                                                                         *)
(* Abstracted: errors are "canceled" or "failed"; the contexts are the one *)
(* of Run (over, when the host or Close cancelled it) and the one that the *)
(* loops see, which ends with it or when stop is set.                      *)
(***************************************************************************)
EXTENDS Naturals, FiniteSets

CONSTANTS Runner, Closer, Loop, NoRunner

ASSUME CallAssumption ==
    /\ NoRunner \notin Runner
    /\ Loop # {}

VARIABLES
    web,        \* Config.Web.Enabled
    closed, run, closedDone,    \* r.closed, whose cancel and runDone r holds, closedDone
    released,   \* release has begun
    host,       \* the host has cancelled the context it passed to Run
    cancelled,  \* runCtx was cancelled by Close
    done,       \* the runDone channel of the call is closed
    at,         \* where each call of Run is
    result,     \* what it returns
    server,     \* the dashboard server of the call
    stop,       \* runServices or runMonitors has cancelled its context
    loops,      \* the loops of the call
    joined,     \* runMonitors: its result so far, and whether it has returned
    held,       \* the runDone channel Close has read
    closing     \* where each call of Close is

runner == <<at, result, server, stop, loops, joined, done>>
closer == <<held, closing>>
lifecycleVars == <<web, closed, run, closedDone, released, host, cancelled, runner, closer>>

Error == {"canceled", "failed"}
Active == {"entered", "select", "shutdown", "join", "direct", "leave"}
Started == {"select", "shutdown", "join", "direct"}

LifecycleTypeOK ==
    /\ web \in BOOLEAN
    /\ closed \in BOOLEAN
    /\ run \in Runner \cup {NoRunner}
    /\ closedDone \in BOOLEAN
    /\ released \in BOOLEAN
    /\ host \subseteq Runner
    /\ cancelled \subseteq Runner
    /\ done \subseteq Runner
    /\ at \in [Runner -> {"idle", "signal", "returned"} \cup Active]
    /\ result \in [Runner -> {"none", "refused"} \cup Error]
    /\ server \in [Runner -> {"off", "up", "broken"}]
    /\ stop \subseteq Runner
    /\ loops \in [Runner -> [Loop -> {"off", "on", "joined"} \cup Error]]
    /\ joined \in [Runner -> [result : {"none"} \cup Error, returned : BOOLEAN]]
    /\ held \in [Closer -> Runner \cup {NoRunner}]
    /\ closing \in [Closer -> {"idle", "cancel", "wait", "release", "finish",
                               "await", "returned"}]

LifecycleInit ==
    /\ web \in BOOLEAN
    /\ closed = FALSE
    /\ run = NoRunner
    /\ closedDone = FALSE
    /\ released = FALSE
    /\ host = {}
    /\ cancelled = {}
    /\ done = {}
    /\ at = [r \in Runner |-> "idle"]
    /\ result = [r \in Runner |-> "none"]
    /\ server = [r \in Runner |-> "off"]
    /\ stop = {}
    /\ loops = [r \in Runner |-> [l \in Loop |-> "off"]]
    /\ joined = [r \in Runner |-> [result |-> "none", returned |-> FALSE]]
    /\ held = [c \in Closer |-> NoRunner]
    /\ closing = [c \in Closer |-> "idle"]

\* runCtx is done; r.running holds exactly while run # NoRunner.
Over(r) == r \in host \cup cancelled

Go(r, place) == at' = [at EXCEPT ![r] = place]

-----------------------------------------------------------------------------
(* Run.                                                                     *)

Refuse(r) ==
    /\ at[r] = "idle"
    /\ closed \/ run # NoRunner
    /\ Go(r, "returned")
    /\ result' = [result EXCEPT ![r] = "refused"]
    /\ UNCHANGED <<web, closed, run, closedDone, released, host, cancelled, done,
                   server, stop, loops, joined, closer>>

Enter(r) ==
    /\ at[r] = "idle"
    /\ ~closed /\ run = NoRunner
    /\ run' = r
    /\ Go(r, "entered")
    /\ UNCHANGED <<web, closed, closedDone, released, host, cancelled, done, result,
                   server, stop, loops, joined, closer>>

\* runServices cannot bind its address: no monitor is started.
BindFails(r) ==
    /\ at[r] = "entered"
    /\ web
    /\ Go(r, "leave")
    /\ result' = [result EXCEPT ![r] = "failed"]
    /\ UNCHANGED <<web, closed, run, closedDone, released, host, cancelled, done,
                   server, stop, loops, joined, closer>>

Launch(r) ==
    /\ at[r] = "entered"
    /\ Go(r, IF web THEN "select" ELSE "direct")
    /\ server' = [server EXCEPT ![r] = IF web THEN "up" ELSE "off"]
    /\ loops' = [loops EXCEPT ![r] = [l \in Loop |-> "on"]]
    /\ UNCHANGED <<web, closed, run, closedDone, released, host, cancelled, done,
                   result, stop, joined, closer>>

\* A loop returns ctx.Err(), or an error of its own.
LoopEnds(r, l, e) ==
    /\ loops[r][l] = "on"
    /\ e = "canceled" => Over(r) \/ r \in stop
    /\ loops' = [loops EXCEPT ![r][l] = e]
    /\ UNCHANGED <<web, closed, run, closedDone, released, host, cancelled, done, at,
                   result, server, stop, joined, closer>>

\* Mutant of worse: the last error received counts.
worseLast(old, e) == e

\* A cancellation does not hide the failure of another loop.
worse(old, e) == IF old = "failed" THEN old ELSE e

\* runMonitors receives one result and stops the other loops.
Collect(r, l) ==
    /\ loops[r][l] \in Error
    /\ joined' = [joined EXCEPT ![r].result = worse(@, loops[r][l])]
    /\ loops' = [loops EXCEPT ![r][l] = "joined"]
    /\ stop' = stop \cup {r}
    /\ UNCHANGED <<web, closed, run, closedDone, released, host, cancelled, done, at,
                   result, server, closer>>

MonitorsReturn(r) ==
    /\ at[r] \in Started
    /\ ~joined[r].returned
    /\ \A l \in Loop : loops[r][l] = "joined"
    /\ joined' = [joined EXCEPT ![r].returned = TRUE]
    /\ UNCHANGED <<web, closed, run, closedDone, released, host, cancelled, done, at,
                   result, server, stop, loops, closer>>

\* Serve returns an error of its own.
ServerBreaks(r) ==
    /\ server[r] = "up"
    /\ server' = [server EXCEPT ![r] = "broken"]
    /\ UNCHANGED <<web, closed, run, closedDone, released, host, cancelled, done, at,
                   result, stop, loops, joined, closer>>

\* The select of runServices: whatever happened first.
Select(r, e) ==
    /\ at[r] = "select"
    /\ \/ Over(r) /\ e = "canceled"
       \/ joined[r].returned /\ e = joined[r].result
       \/ server[r] = "broken" /\ e = "failed"
    /\ Go(r, "shutdown")
    /\ result' = [result EXCEPT ![r] = e]
    /\ stop' = stop \cup {r}
    /\ UNCHANGED <<web, closed, run, closedDone, released, host, cancelled, done,
                   server, loops, joined, closer>>

\* The server is shut down in time, or it is closed and that is reported.
Shutdown(r) ==
    /\ at[r] = "shutdown"
    /\ Go(r, "join")
    /\ server' = [server EXCEPT ![r] = "off"]
    /\ result' \in {result, [result EXCEPT ![r] = "failed"]}
    /\ UNCHANGED <<web, closed, run, closedDone, released, host, cancelled, done,
                   stop, loops, joined, closer>>

\* runServices waits for its monitor; what that returned is dropped.
Join(r) ==
    /\ at[r] = "join"
    /\ joined[r].returned
    /\ Go(r, "leave")
    /\ UNCHANGED <<web, closed, run, closedDone, released, host, cancelled, done,
                   result, server, stop, loops, joined, closer>>

\* Without the dashboard Run calls runMonitors itself.
ReturnDirect(r) ==
    /\ at[r] = "direct"
    /\ joined[r].returned
    /\ Go(r, "leave")
    /\ result' = [result EXCEPT ![r] = joined[r].result]
    /\ UNCHANGED <<web, closed, run, closedDone, released, host, cancelled, done,
                   server, stop, loops, joined, closer>>

\* The deferred function of Run: the fields under the lock, then close(done).
Leave(r) ==
    /\ at[r] = "leave"
    /\ run' = NoRunner
    /\ Go(r, "signal")
    /\ UNCHANGED <<web, closed, closedDone, released, host, cancelled, done, result,
                   server, stop, loops, joined, closer>>

\* Mutant of Signal: nobody is told.
SignalNobody(r) ==
    /\ at[r] = "signal"
    /\ Go(r, "returned")
    /\ UNCHANGED <<web, closed, run, closedDone, released, host, cancelled, done, result,
                   server, stop, loops, joined, closer>>

Signal(r) ==
    /\ at[r] = "signal"
    /\ done' = done \cup {r}
    /\ Go(r, "returned")
    /\ UNCHANGED <<web, closed, run, closedDone, released, host, cancelled, result,
                   server, stop, loops, joined, closer>>

-----------------------------------------------------------------------------
(* Close.                                                                   *)

Move(c, place) == closing' = [closing EXCEPT ![c] = place]

\* Mutant of CloseAgain: a second call returns at once.
CloseAgainAtOnce(c) ==
    /\ closing[c] = "idle"
    /\ closed
    /\ Move(c, "returned")
    /\ UNCHANGED <<web, closed, run, closedDone, released, host, cancelled, runner, held>>

CloseAgain(c) ==
    /\ closing[c] = "idle"
    /\ closed
    /\ Move(c, "await")
    /\ UNCHANGED <<web, closed, run, closedDone, released, host, cancelled, runner, held>>

CloseFirst(c) ==
    /\ closing[c] = "idle"
    /\ ~closed
    /\ closed' = TRUE
    /\ held' = [held EXCEPT ![c] = run]
    /\ Move(c, "cancel")
    /\ UNCHANGED <<web, run, closedDone, released, host, cancelled, runner>>

CancelRun(c) ==
    /\ closing[c] = "cancel"
    /\ cancelled' = cancelled \cup ({held[c]} \ {NoRunner})
    /\ Move(c, "wait")
    /\ UNCHANGED <<web, closed, run, closedDone, released, host, runner, held>>

\* Mutant of WaitForRun: Close goes on although Run has not returned.
WaitForNobody(c) ==
    /\ closing[c] = "wait"
    /\ Move(c, "release")
    /\ UNCHANGED <<web, closed, run, closedDone, released, host, cancelled, runner, held>>

WaitForRun(c) ==
    /\ closing[c] = "wait"
    /\ held[c] \in done \cup {NoRunner}
    /\ Move(c, "release")
    /\ UNCHANGED <<web, closed, run, closedDone, released, host, cancelled, runner, held>>

\* release: channels, clients and databases, the storage lock last.
Release(c) ==
    /\ closing[c] = "release"
    /\ released' = TRUE
    /\ Move(c, "finish")
    /\ UNCHANGED <<web, closed, run, closedDone, host, cancelled, runner, held>>

Finish(c) ==
    /\ closing[c] = "finish"
    /\ closedDone' = TRUE
    /\ Move(c, "returned")
    /\ UNCHANGED <<web, closed, run, released, host, cancelled, runner, held>>

Await(c) ==
    /\ closing[c] = "await"
    /\ closedDone
    /\ Move(c, "returned")
    /\ UNCHANGED <<web, closed, run, closedDone, released, host, cancelled, runner, held>>

-----------------------------------------------------------------------------
HostCancels(r) ==
    /\ r \notin host
    /\ host' = host \cup {r}
    /\ UNCHANGED <<web, closed, run, closedDone, released, cancelled, runner, closer>>

\* What a call of Run does on its own, once it was made.
Proceed(r) ==
    \/ BindFails(r) \/ Launch(r)
    \/ \E l \in Loop : LoopEnds(r, l, "canceled") \/ Collect(r, l)
    \/ MonitorsReturn(r)
    \/ \E e \in Error : Select(r, e)
    \/ Shutdown(r) \/ Join(r) \/ ReturnDirect(r) \/ Leave(r) \/ Signal(r)

CloseProceeds(c) ==
    CancelRun(c) \/ WaitForRun(c) \/ Release(c) \/ Finish(c) \/ Await(c)

LifecycleNext ==
    \/ \E r \in Runner :
        \/ Refuse(r) \/ Enter(r) \/ Proceed(r) \/ ServerBreaks(r) \/ HostCancels(r)
        \/ \E l \in Loop : LoopEnds(r, l, "failed")
    \/ \E c \in Closer : CloseAgain(c) \/ CloseFirst(c) \/ CloseProceeds(c)

LifecycleSpec == LifecycleInit /\ [][LifecycleNext]_lifecycleVars

\* Goroutines are scheduled; a loop whose context is done returns, for it passes
\* the context to all it does; nothing obliges the host, or a loop or the server
\* to fail.
FairLifecycleSpec ==
    /\ LifecycleSpec
    /\ \A r \in Runner :
        /\ WF_lifecycleVars(Proceed(r))
        /\ \A l \in Loop : WF_lifecycleVars(LoopEnds(r, l, "canceled")) /\ WF_lifecycleVars(Collect(r, l))
    /\ \A c \in Closer : WF_lifecycleVars(CloseProceeds(c))

-----------------------------------------------------------------------------
(* Properties.                                                              *)

\* "Neither can outlive the storage lock or shared database" (runMonitors):
\* once Close releases them, no loop is running and no server is accepting,
\* whichever call of Run they belong to.
NothingOutlives ==
    released => \A r \in Runner :
        /\ server[r] = "off"
        /\ \A l \in Loop : loops[r][l] # "on"

\* Close is idempotent and complete: no call of it returns before the resources
\* are released, the second caller's no less than the first's.
CloseIsComplete ==
    \A c \in Closer : closing[c] = "returned" => released /\ closedDone

\* A run is reported as a normal shutdown only if the host or Close asked for it:
\* the failure of a loop or of the server is not swallowed by the cancellation
\* that it causes in the others.
FailureIsReported ==
    \A r \in Runner : at[r] \in {"leave", "signal", "returned"} =>
        result[r] # "none" /\ (result[r] = "canceled" => Over(r))

\* Never two sets of loops at once on the same databases.
OneRunAtATime ==
    \A r, q \in Runner : r # q =>
        ~(\E k, l \in Loop : loops[r][k] = "on" /\ loops[q][l] = "on")

\* Every call of Close returns, and every call of Run once it is cancelled or one
\* of its loops has failed: nobody waits for somebody who waits for him.  (None
\* of these calls is ever made twice.)
ShutsDown ==
    /\ \A c \in Closer : []<>(closing[c] \in {"idle", "returned"})
    /\ \A r \in Runner :
        []<>(at[r] \in Active => ~Over(r) /\ \A l \in Loop : loops[r][l] # "failed")
=============================================================================
