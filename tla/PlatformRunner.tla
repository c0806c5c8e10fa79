----------------------------- MODULE PlatformRunner -----------------------------
(***************************************************************************)
(* The event runner of a thread that already has a looper of its own, as    *)
(* the main thread of an app has (platform_event_runner.cpp of Android and  *)
(* of iOS).  The looper calls Run when a timer expires; Run hands out what  *)
(* is due and sets the timer for the next event.  Nothing ever waits: an    *)
(* Insert that must wake the looper sets the same timer to expire at once.  *)
(*                                                                          *)
(* Setting the timer at the end of Run is not in the critical section that  *)
(* found the queue empty.  OtherThreads says whether threads other than the *)
(* looper's own use the queue: without them QueueContract holds, with them  *)
(* Served does not.                                                         *)
(***************************************************************************)
EXTENDS Integers, Sequences

CONSTANTS
    Events, Sendable, Filters, MaxHandled, MaxTime, MaxDelay, MaxLag,
    OtherThreads    \* senders run on other threads than the looper's

ASSUME OtherThreadsAssumption == OtherThreads \in BOOLEAN

ASSUME BoundsAssumption ==
    MaxHandled \in Nat /\ MaxTime \in Nat /\ MaxDelay \in Nat /\ MaxLag \in Nat

\* Priorities, by value, and what a removal filter can match.
ASSUME SendableAssumption == Sendable \subseteq 0..4
ASSUME FiltersAssumption == Filters \subseteq SUBSET Events

VARIABLES
    now, list, handledCount, wakeUpTime, idleTimeStamp, isIdle,
    timer,      \* when timerFd_ expires
    pc          \* where the looper's thread is

queueVars == <<now, list, handledCount, wakeUpTime, idleTimeStamp, isIdle>>
vars == <<queueVars, timer, pc>>

\* A timer that was set to expire at once.
AtOnce == -1

\* The looper sleeps, or is about to; the consumer of EventQueue does not tell.
Asleep == pc = "set" \/ (pc = "looper" /\ timer # AtOnce)

\* The queue, with the theorems about it.  (Nothing here looks at its history of passes.)
Q == INSTANCE EventQueueProofs WITH asleep <- Asleep, passes <- << >>

\* In the looper; before GetExpiredEvent; running a handler; before SetTimer.
Places == {"looper", "get", "dispatch", "set"}

\* Types; and the timer that called Run is used up.
TypeOK ==
    /\ Q!TypeOK
    /\ timer \in Q!HandleTimes \cup {Q!Forever, AtOnce}
    /\ pc \in Places
    /\ pc # "looper" => timer \in {Q!Forever, AtOnce}

-------------------------------------------------------------------------------
\* Mutant: zero disarms the timer, as it does when no flag says otherwise.
SetTimerToZero(when) == IF when <= now THEN Q!Forever ELSE when

\* SetTimer(TimePointToTimeOut(when)): a time that has come expires at once.
\* The old setting is lost, and so is an expiration nobody has read.
SetTimer(when) == IF when <= now THEN AtOnce ELSE when

\* The looper's thread runs code of the app, in Run or out of it; other threads
\* run whenever they like.
MayUseQueue == OtherThreads \/ pc \in {"looper", "dispatch"}

Insert(e, p, sent, delay) ==
    /\ MayUseQueue
    /\ Q!InsertLocked(e, p, sent, delay)
    /\ timer' = IF Q!Notifies(p, sent + delay) THEN SetTimer(now) ELSE timer
    /\ UNCHANGED pc

Send ==
    \E e \in Events, p \in Sendable, sent \in Q!Times, delay \in 0..MaxDelay :
        Insert(e, p, sent, delay)

RemoveEvents(filter) ==
    /\ MayUseQueue
    /\ Q!RemoveLocked(filter)
    /\ UNCHANGED <<timer, pc>>

Tick ==
    /\ now < MaxTime
    /\ now' = now + 1
    /\ UNCHANGED <<list, handledCount, wakeUpTime, idleTimeStamp, isIdle, timer, pc>>

\* Mutant: timerFd_ is not read, and so stays readable.
TimerStays ==
    /\ pc = "looper"
    /\ timer <= now
    /\ pc' = "get"
    /\ UNCHANGED <<queueVars, timer>>

\* The looper sees timerFd_ readable, resets it and calls Run.
TimerExpires ==
    /\ pc = "looper"
    /\ timer <= now
    /\ timer' = Q!Forever
    /\ pc' = "get"
    /\ UNCHANGED queueVars

\* GetExpiredEvent, and the way the loop of Run goes on.
GetExpiredEvent ==
    /\ pc = "get"
    /\ \/ /\ (\E p \in Q!SubQueues : Q!PickEventLocked(p)) \/ Q!PickIdleLocked
          /\ pc' = "dispatch"
       \/ Q!FindNothingLocked /\ pc' = "set"
    /\ UNCHANGED timer

Dispatched ==
    /\ pc = "dispatch"
    /\ pc' = "get"
    /\ UNCHANGED <<queueVars, timer>>

\* Mutant: Run leaves the timer alone.
LeaveTimer ==
    /\ pc = "set"
    /\ pc' = "looper"
    /\ UNCHANGED <<queueVars, timer>>

\* The end of Run.
EndRun ==
    /\ pc = "set"
    /\ timer' = SetTimer(wakeUpTime)
    /\ pc' = "looper"
    /\ UNCHANGED queueVars

Looper == TimerExpires \/ GetExpiredEvent \/ Dispatched \/ EndRun

Init ==
    /\ timer = Q!Forever
    /\ pc = "looper"
    /\ Q!Init

Next ==
    \/ Tick \/ Send
    \/ \E filter \in Filters : RemoveEvents(filter)
    \/ Looper

Spec == Init /\ [][Next]_vars

\* The looper polls, handlers return, and time passes.
FairSpec == Spec /\ WF_vars(Looper) /\ WF_vars(Tick)

-------------------------------------------------------------------------------
\* The timer and the looper are a consumer of EventQueue.
QueueContract == Q!Spec

\* Whenever the looper is out of Run, its timer expires in time for every event
\* of a sub queue, whoever set it last: Run, or an Insert in or out of a handler.
TimerCoversQueue ==
    pc = "looper" =>
        \A p \in Q!SubQueues : \A i \in DOMAIN list[p] : timer <= list[p][i].handle

\* NotifyAll, "Trigger timer at once, if android looper is not blocked by us":
\* an event that is due is handled or removed.
Served == \A e \in Events : Q!Starves(e) ~> ~Q!Starves(e)
===============================================================================
