------------------------------- MODULE JsTimers -------------------------------
(***************************************************************************)
(* The timers of a JavaScript runtime (js_timer.cpp) and its handler of the   *)
(* uv loop (js_runtime.cpp).  Both use named tasks of one event handler: a     *)
(* timer of a script has a task of its own, all timers of the loop share       *)
(* TIMER_TASK.  The loop itself is external: it has timers, and runs them      *)
(* when it is run.                                                           *)
(***************************************************************************)
EXTENDS Integers, FiniteSets, SequencesExt

CONSTANTS
    Delays,      \* of timers, in milliseconds
    MaxTimers,   \* bound on the timers of scripts
    MaxTime,     \* bound on the clock
    MaxStarts    \* bound on the timers of the loop

Timers == 1 .. MaxTimers
NoTimer == -1
NotInterval == -1
TIMER_TASK == 0   \* tasks of timers are named by their callbackId

VARIABLES
    now,
    tasks,          \* of the event handler, in the order of the queue: a name and a handle time
    callbackId,     \* g_callbackId: timers that were set so far
    interval,       \* per timer: interval_ if isInterval_, else NotInterval
    status,         \* per timer: "unset", "set", "called" or "cleared"
    calling,        \* the timer whose function is called
    uvTimers,       \* external: when the timers of the loop are due
    starts,         \* timers of the loop so far
    lastTimeStamp,  \* lastTimeStamp_
    haveTimerTask,  \* haveTimerTask_
    runtime,        \* "up" or "down"
    missed          \* history: OnTriggered took a task for posted that was not

timerVars == <<callbackId, interval, status, calling>>
uvVars == <<uvTimers, starts, lastTimeStamp, haveTimerTask, missed>>
vars == <<now, tasks, timerVars, uvVars, runtime>>

Names == Timers \cup {TIMER_TASK}

TypeOK ==
    /\ now \in 1 .. MaxTime
    /\ tasks \in Seq([name : Names, due : Nat])
    /\ callbackId \in 0 .. MaxTimers
    /\ interval \in [Timers -> Delays \cup {NotInterval}]
    /\ status \in [Timers -> {"unset", "set", "called", "cleared"}]
    /\ calling \in Timers \cup {NoTimer}
    /\ uvTimers \subseteq Nat /\ starts \in 0 .. MaxStarts
    /\ lastTimeStamp \in Nat /\ haveTimerTask \in BOOLEAN /\ missed \in BOOLEAN
    /\ runtime \in {"up", "down"}

Init ==
    /\ now = 1 /\ tasks = << >>
    /\ callbackId = 0 /\ interval = [t \in Timers |-> NotInterval]
    /\ status = [t \in Timers |-> "unset"] /\ calling = NoTimer
    /\ uvTimers = {} /\ starts = 0 /\ lastTimeStamp = 0 /\ haveTimerTask = FALSE
    /\ runtime = "up" /\ missed = FALSE

-------------------------------------------------------------------------------
(* Tasks of the event handler: in the queue they are in the order of their times *)

Posted(queue, name, delay) ==
    LET task == [name |-> name, due |-> now + delay]
        Before(t) == t.due <= task.due
        After(t) == t.due > task.due
    IN Append(SelectSeq(queue, Before), task) \o SelectSeq(queue, After)

Removed(queue, name) == LET Other(t) == t.name # name IN SelectSeq(queue, Other)

Named(name) == {i \in DOMAIN tasks : tasks[i].name = name}

\* A task that is due is the next event, once the one before has been handled.
IsNext(name) ==
    /\ calling = NoTimer /\ tasks # << >>
    /\ Head(tasks).name = name /\ Head(tasks).due <= now

-------------------------------------------------------------------------------
(* Timers of scripts *)

\* setTimeout and setInterval, from a function that a timer calls or from elsewhere.
StartTimeoutOrInterval(delay, isInterval) ==
    /\ runtime = "up" /\ callbackId < MaxTimers
    /\ LET t == callbackId + 1 IN
        /\ callbackId' = t
        /\ interval' = [interval EXCEPT ![t] = IF isInterval THEN delay ELSE NotInterval]
        /\ status' = [status EXCEPT ![t] = "set"]
        /\ tasks' = Posted(tasks, t, delay)
    /\ UNCHANGED <<now, calling, uvVars, runtime>>

\* clearTimeout and clearInterval, of any number, also from the timer's own function.
StopTimeoutOrInterval(t) ==
    /\ runtime = "up" /\ status[t] \in {"set", "called"}
    /\ tasks' = Removed(tasks, t)
    /\ status' = [status EXCEPT ![t] = "cleared"]
    /\ UNCHANGED <<now, callbackId, interval, calling, uvVars, runtime>>

\* JsTimer::operator(): an interval posts itself again before its function is called.
CallTimer(t) ==
    /\ IsNext(t)
    /\ tasks' = IF interval[t] = NotInterval THEN Tail(tasks)
                ELSE Posted(Tail(tasks), t, interval[t])
    /\ calling' = t
    /\ status' = IF interval[t] = NotInterval THEN [status EXCEPT ![t] = "called"] ELSE status
    /\ UNCHANGED <<now, callbackId, interval, uvVars, runtime>>

\* The function returns.
Return ==
    /\ calling # NoTimer /\ calling' = NoTimer
    /\ UNCHANGED <<now, tasks, callbackId, interval, status, uvVars, runtime>>

-------------------------------------------------------------------------------
(* The uv loop *)

\* uv_run: timers that are due go; their callbacks, and those of finished work, stop some of
\* the others and start new ones, which wait for the next run.
UvRun(kept, started) ==
    /\ \A u \in kept : u > now
    /\ starts' = starts + Cardinality(started) /\ starts' <= MaxStarts
    /\ uvTimers' = kept \cup {now + d : d \in started}

FirstOf(times) == CHOOSE u \in times : \A v \in times : u <= v
HasTimerTask(queue) == \E i \in DOMAIN queue : queue[i].name = TIMER_TASK

\* When uv_backend_timeout, counted from now, is over: at once for a timer that is due.
TimeStamp == IF FirstOf(uvTimers') < now THEN now ELSE FirstOf(uvTimers')

\* Mutant of OnTriggered: the task for another time stays.
OnTriggeredTwice(queue, have) ==
    IF uvTimers' = {} \/ TimeStamp = lastTimeStamp
    THEN /\ tasks' = queue /\ haveTimerTask' = have /\ missed' = (uvTimers' # {} /\ ~HasTimerTask(queue))
         /\ UNCHANGED lastTimeStamp
    ELSE /\ tasks' = Posted(queue, TIMER_TASK, TimeStamp - now)
         /\ lastTimeStamp' = TimeStamp /\ haveTimerTask' = TRUE /\ missed' = FALSE

\* OnTriggered, after uv_run: the task is for the first timer that is left.  That the time is
\* the last one need not mean that there is a task for it: it may have run, or been removed.
OnTriggered(queue, have) ==
    LET others == IF have THEN Removed(queue, TIMER_TASK) ELSE queue IN
    \/ /\ uvTimers' = {}
       /\ tasks' = others /\ haveTimerTask' = have /\ missed' = FALSE
       /\ UNCHANGED lastTimeStamp
    \/ /\ uvTimers' # {} /\ TimeStamp = lastTimeStamp
       /\ tasks' = queue /\ haveTimerTask' = have /\ missed' = ~HasTimerTask(queue)
       /\ UNCHANGED lastTimeStamp
    \/ /\ uvTimers' # {} /\ TimeStamp # lastTimeStamp
       /\ tasks' = Posted(others, TIMER_TASK, TimeStamp - now)
       /\ lastTimeStamp' = TimeStamp /\ haveTimerTask' = TRUE /\ missed' = FALSE

\* The descriptor of the loop is readable or writable: what worker threads have done is
\* taken up.
OnReadable ==
    /\ runtime = "up" /\ calling = NoTimer
    /\ \E kept \in SUBSET uvTimers, started \in SUBSET Delays : UvRun(kept, started)
    /\ OnTriggered(tasks, haveTimerTask)
    /\ UNCHANGED <<now, timerVars, runtime>>

\* TIMER_TASK.
TimerTask ==
    /\ IsNext(TIMER_TASK)
    /\ \E kept \in SUBSET uvTimers, started \in SUBSET Delays : UvRun(kept, started)
    /\ OnTriggered(Tail(tasks), FALSE)
    /\ UNCHANGED <<now, timerVars, runtime>>

\* ~ArkJsRuntime: with its event handler all tasks go, which refer to the runtime.
Deinitialize ==
    /\ runtime = "up" /\ calling = NoTimer
    /\ runtime' = "down" /\ tasks' = << >> /\ uvTimers' = {}
    /\ UNCHANGED <<now, timerVars, starts, lastTimeStamp, haveTimerTask, missed>>

Tick ==
    /\ now < MaxTime /\ now' = now + 1
    /\ UNCHANGED <<tasks, timerVars, uvVars, runtime>>

Next ==
    \/ \E d \in Delays, isInterval \in BOOLEAN : StartTimeoutOrInterval(d, isInterval)
    \/ \E t \in Timers : StopTimeoutOrInterval(t) \/ CallTimer(t)
    \/ Return \/ OnReadable \/ TimerTask \/ Deinitialize \/ Tick

Spec == Init /\ [][Next]_vars

-------------------------------------------------------------------------------
\* A timer that is set has one task, however often an interval was called; one that was
\* cleared, be it by its own function, has none and is not called again.
OneTaskEach ==
    runtime = "up" =>
        \A t \in Timers : Cardinality(Named(t)) = IF status[t] = "set" THEN 1 ELSE 0

\* There is one TIMER_TASK at most, and haveTimerTask_ never denies it.
OneTimerTask ==
    Cardinality(Named(TIMER_TASK)) <= IF haveTimerTask THEN 1 ELSE 0

\* Timers of the loop are waited for, unless their time was taken for one that is.
LoopCovered ==
    uvTimers # {} /\ ~missed =>
        \E i \in Named(TIMER_TASK) : tasks[i].due <= now \/ tasks[i].due <= FirstOf(uvTimers)

TimersHold == OneTaskEach /\ OneTimerTask /\ LoopCovered
===============================================================================
