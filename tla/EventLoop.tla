------------------------------- MODULE EventLoop -------------------------------
(***************************************************************************)
(* The event loop of an EventRunnerImpl (event_runner.cpp): the thread that *)
(* takes events out of an EventQueue, the IoWaiter it sleeps on, and the    *)
(* threads that stop it.                                                    *)
(*                                                                          *)
(* A runner is deposited, which means that it has a thread of its own from  *)
(* its creation on and that ~EventRunner or the ThreadCollector ends it, or *)
(* it lives on the thread that calls Run until some thread calls Stop.      *)
(* QueueContract says that the loop and its two kinds of waiter implement   *)
(* EventQueue, where the consumer is only asleep or awake.                  *)
(***************************************************************************)
EXTENDS Integers, Sequences

CONSTANTS
    Events, Sendable, Filters, MaxHandled, MaxTime, MaxDelay, MaxLag,
    Stoppers     \* threads that end the loop, the loop's own one included

ASSUME BoundsAssumption ==
    MaxHandled \in Nat /\ MaxTime \in Nat /\ MaxDelay \in Nat /\ MaxLag \in Nat

\* Priorities, by value, and what a removal filter can match.
ASSUME SendableAssumption == Sendable \subseteq 0..4
ASSUME FiltersAssumption == Filters \subseteq SUBSET Events

VARIABLES
    now, list, handledCount, wakeUpTime, idleTimeStamp, isIdle,
    finished,   \* EventQueue::finished_
    deposit,    \* EventRunner::deposit_
    running,    \* EventRunner::running_
    owner,      \* the EventRunner exists: EventInnerRunner::owner_ is not expired
    pc,         \* where the thread of the loop is
    waiter,     \* ioWaiter_, the kind of the current one
    holder,     \* ioWaiterHolder, the kind of the one the thread waits on
    signal,     \* pred_ of the NoneIoWaiter, awakenFd_ readable of the EpollIoWaiter
    stopper     \* where each stopping thread is

queueVars == <<now, list, handledCount, wakeUpTime, idleTimeStamp, isIdle>>
runnerVars == <<deposit, running, owner>>
waiterVars == <<waiter, holder, signal>>
vars == <<queueVars, finished, runnerVars, pc, waiterVars, stopper>>

\* The consumer of EventQueue is asleep while the thread waits unsignalled.
Asleep == pc = "wait" /\ ~signal[holder]

\* The queue, with the theorems about it.  (Nothing here looks at its history of passes.)
Q == INSTANCE EventQueueProofs WITH asleep <- Asleep, passes <- << >>

Waiters == {"none", "epoll"}

\* Where the thread is: not started; before Prepare; before the check of
\* owner_; about to lock the queue in GetEvent; in WaitFor; back from a failed
\* epoll_wait; in GetEvent with the lock; running a handler; past the loop.
Looping == {"get", "wait", "failed", "locked", "dispatch"}
Places == {"idle", "starting", "prepared", "leaving", "ended"} \cup Looping

\* Types, and what NoneIoWaiter's pred_ means: it is set for a thread that
\* waits, and that thread resets it.
TypeOK ==
    /\ Q!TypeOK
    /\ finished \in BOOLEAN
    /\ deposit \in BOOLEAN /\ running \in BOOLEAN /\ owner \in BOOLEAN
    /\ pc \in Places
    /\ waiter \in Waiters /\ holder \in Waiters
    /\ signal \in [Waiters -> BOOLEAN]
    /\ stopper \in [Stoppers -> {"idle", "finish"}]
    /\ signal["none"] => pc = "wait" /\ holder = "none"

\* queueLock_ is free: only a woken NoneIoWaiter hands it to the loop.
QueueFree == pc # "locked"

-------------------------------------------------------------------------------
(* The waiters. *)

\* waitingCount_ > 0
Waiting(w) == pc = "wait" /\ holder = w

\* NotifyOne and NotifyAll of waiter w: nothing happens unless a thread waits.
Notified(w) == [signal EXCEPT ![w] = @ \/ Waiting(w)]

\* WaitFor starts, on the waiter of that moment.
StartWait ==
    /\ pc' = "wait"
    /\ holder' = waiter
    /\ UNCHANGED <<waiter, signal>>

\* Mutant: pred_ is not reset after the wait.
WakeNoneDirty ==
    /\ Waiting("none")
    /\ signal["none"] \/ now >= wakeUpTime
    /\ pc' = "locked"
    /\ UNCHANGED <<queueVars, finished, runnerVars, waiterVars, stopper>>

\* condition_ sees pred_ or times out, and returns with the lock.
WakeNone ==
    /\ Waiting("none")
    /\ signal["none"] \/ now >= wakeUpTime
    /\ pc' = "locked"
    /\ signal' = [signal EXCEPT !["none"] = FALSE]
    /\ UNCHANGED <<queueVars, finished, runnerVars, waiter, holder, stopper>>

\* epoll_wait returns and awakenFd_ is drained, all before the lock is taken
\* again.  A write that comes after the drain leaves the descriptor readable.
LeaveEpoll ==
    /\ Waiting("epoll")
    /\ pc' = "get"
    /\ signal' \in {signal, [signal EXCEPT !["epoll"] = FALSE]}
    /\ UNCHANGED <<queueVars, finished, runnerVars, waiter, holder, stopper>>

WakeEpoll == (signal["epoll"] \/ now >= wakeUpTime) /\ LeaveEpoll

\* A file descriptor is ready, or a signal interrupts the system call.
InterruptEpoll == ~signal["epoll"] /\ now < wakeUpTime /\ LeaveEpoll

\* epoll_wait fails for another reason.
FailWait ==
    /\ Waiting("epoll")
    /\ pc' = "failed"
    /\ UNCHANGED <<queueVars, finished, runnerVars, waiterVars, stopper>>

\* WaitUntilLocked puts a new NoneIoWaiter in place.
ResetWaiter ==
    /\ pc = "failed"
    /\ pc' = "locked"
    /\ waiter' = "none"
    /\ signal' = [signal EXCEPT !["none"] = FALSE]
    /\ UNCHANGED <<queueVars, finished, runnerVars, holder, stopper>>

\* Mutant: the thread that waits on the old waiter is not told.
SwapSilently ==
    /\ QueueFree /\ waiter = "none"
    /\ waiter' = "epoll"
    /\ signal' = [signal EXCEPT !["epoll"] = FALSE]
    /\ UNCHANGED <<queueVars, finished, runnerVars, pc, holder, stopper>>

\* The first AddFileDescriptorListener puts an EpollIoWaiter in place.
SwapWaiter ==
    /\ QueueFree /\ waiter = "none"
    /\ waiter' = "epoll"
    /\ signal' = [Notified("none") EXCEPT !["epoll"] = FALSE]
    /\ UNCHANGED <<queueVars, finished, runnerVars, pc, holder, stopper>>

-------------------------------------------------------------------------------
(* The queue, used by any thread. *)

Tick ==
    /\ now < MaxTime
    /\ now' = now + 1
    /\ UNCHANGED <<list, handledCount, wakeUpTime, idleTimeStamp, isIdle>>
    /\ UNCHANGED <<finished, runnerVars, pc, waiterVars, stopper>>

\* Handlers keep their runner alive, so nobody sends once it is gone.
Insert(e, p, sent, delay) ==
    /\ QueueFree /\ owner
    /\ Q!InsertLocked(e, p, sent, delay)
    /\ signal' = IF Q!Notifies(p, sent + delay) THEN Notified(waiter) ELSE signal
    /\ UNCHANGED <<finished, runnerVars, pc, waiter, holder, stopper>>

Send ==
    \E e \in Events, p \in Sendable, sent \in Q!Times, delay \in 0..MaxDelay :
        Insert(e, p, sent, delay)

RemoveEvents(filter) ==
    /\ QueueFree
    /\ Q!RemoveLocked(filter)
    /\ UNCHANGED <<finished, runnerVars, pc, waiterVars, stopper>>

-------------------------------------------------------------------------------
(* The thread of the loop. *)

\* EventRunner::Run, on a runner that no other thread runs.
StartRun ==
    /\ ~deposit /\ pc = "idle" /\ ~running
    /\ running' = TRUE
    /\ pc' = "starting"
    /\ UNCHANGED <<queueVars, finished, deposit, owner, waiterVars, stopper>>

\* ThreadMain of a deposited runner, which may be gone by now.
StartThread ==
    /\ deposit /\ pc = "idle"
    /\ pc' \in IF owner THEN {"starting"} ELSE {"starting", "ended"}
    /\ UNCHANGED <<queueVars, finished, runnerVars, waiterVars, stopper>>

Prepare ==
    /\ pc = "starting"
    /\ finished' = FALSE
    /\ pc' = "prepared"
    /\ UNCHANGED <<queueVars, runnerVars, waiterVars, stopper>>

EnterLoop ==
    /\ pc = "prepared"
    /\ pc' = IF owner THEN "get" ELSE "leaving"
    /\ UNCHANGED <<queueVars, finished, runnerVars, waiterVars, stopper>>

\* Mutant: finished_ is looked at only when nothing is due.
GetEventFirst ==
    /\ pc \in {"get", "locked"}
    /\ \/ /\ (\E p \in Q!SubQueues : Q!PickEventLocked(p)) \/ Q!PickIdleLocked
          /\ pc' = "dispatch"
          /\ UNCHANGED waiterVars
       \/ ~finished /\ Q!FindNothingLocked /\ StartWait
       \/ finished /\ pc' = "leaving" /\ UNCHANGED <<queueVars, waiterVars>>
    /\ UNCHANGED <<finished, runnerVars, stopper>>

\* One turn of GetEvent, under the lock: leave, return an event, or wait.
GetEvent ==
    /\ pc \in {"get", "locked"}
    /\ \/ finished /\ pc' = "leaving" /\ UNCHANGED <<queueVars, waiterVars>>
       \/ /\ ~finished
          /\ (\E p \in Q!SubQueues : Q!PickEventLocked(p)) \/ Q!PickIdleLocked
          /\ pc' = "dispatch"
          /\ UNCHANGED waiterVars
       \/ ~finished /\ Q!FindNothingLocked /\ StartWait
    /\ UNCHANGED <<finished, runnerVars, stopper>>

\* The handler returns, or has expired.
Dispatched ==
    /\ pc = "dispatch"
    /\ pc' = "get"
    /\ UNCHANGED <<queueVars, finished, runnerVars, waiterVars, stopper>>

LeaveRun ==
    /\ pc = "leaving"
    /\ running' = FALSE
    /\ pc' = IF deposit THEN "ended" ELSE "idle"
    /\ UNCHANGED <<queueVars, finished, deposit, owner, waiterVars, stopper>>

LoopThread ==
    \/ StartThread \/ Prepare \/ EnterLoop \/ GetEvent \/ Dispatched \/ LeaveRun
    \/ WakeNone \/ WakeEpoll \/ ResetWaiter

-------------------------------------------------------------------------------
(* The threads that end it. *)

\* Stop sees running_.
StopRunning(t) ==
    /\ ~deposit /\ running
    /\ stopper[t] = "idle"
    /\ stopper' = [stopper EXCEPT ![t] = "finish"]
    /\ UNCHANGED <<queueVars, finished, runnerVars, pc, waiterVars>>

\* The last reference to a deposited EventRunner goes, and ~EventRunner runs.
ReleaseRunner(t) ==
    /\ deposit /\ owner
    /\ stopper[t] = "idle"
    /\ owner' = FALSE
    /\ stopper' = [stopper EXCEPT ![t] = "finish"]
    /\ UNCHANGED <<queueVars, finished, deposit, running, pc, waiterVars>>

\* Create cannot deposit the thread, or the collector ends it with the process.
ExitThread(t) ==
    /\ deposit
    /\ stopper[t] = "idle"
    /\ stopper' = [stopper EXCEPT ![t] = "finish"]
    /\ UNCHANGED <<queueVars, finished, runnerVars, pc, waiterVars>>

\* Mutant: Finish leaves the waiting thread alone.
FinishSilently(t) ==
    /\ stopper[t] = "finish" /\ QueueFree
    /\ finished' = TRUE
    /\ stopper' = [stopper EXCEPT ![t] = "idle"]
    /\ UNCHANGED <<queueVars, runnerVars, pc, waiterVars>>

Finish(t) ==
    /\ stopper[t] = "finish" /\ QueueFree
    /\ finished' = TRUE
    /\ signal' = Notified(waiter)
    /\ stopper' = [stopper EXCEPT ![t] = "idle"]
    /\ UNCHANGED <<queueVars, runnerVars, pc, waiter, holder>>

-------------------------------------------------------------------------------
Init ==
    /\ finished = TRUE
    /\ deposit \in BOOLEAN
    /\ running = FALSE
    /\ owner = TRUE
    /\ pc = "idle"
    /\ waiter = "none" /\ holder = "none"
    /\ signal = [w \in Waiters |-> FALSE]
    /\ stopper = [t \in Stoppers |-> "idle"]
    /\ Q!Init

Next ==
    \/ Tick \/ Send
    \/ \E filter \in Filters : RemoveEvents(filter)
    \/ SwapWaiter \/ InterruptEpoll \/ FailWait
    \/ StartRun \/ LoopThread
    \/ \E t \in Stoppers :
         StopRunning(t) \/ ReleaseRunner(t) \/ ExitThread(t) \/ Finish(t)

Spec == Init /\ [][Next]_vars

\* The thread of the loop runs and its handlers return; epoll_wait and the
\* condition variable end when they are signalled or time out; time passes; a
\* thread that wants queueLock_ gets it in the end.
FairSpec ==
    /\ Spec
    /\ WF_vars(LoopThread)
    /\ WF_vars(Tick)
    /\ \A t \in Stoppers : SF_vars(Finish(t))

-------------------------------------------------------------------------------
(* What the loop promises. *)

\* The loop with either waiter, and while one replaces the other, is a consumer
\* of EventQueue: no insert, Finish or new waiter leaves it asleep in vain.
QueueContract == Q!Spec

\* Finish "exits from blocking in GetEvent", whatever waiter the thread is on:
\* no thread sleeps on a queue that is finished.
NoSleepAfterFinish == finished => ~Asleep

\* "After calling Finish, GetEvent never returns any event, until Prepare is
\* called": an event that is due then stays in the queue.
SilentAfterFinish == [][finished => pc' # "dispatch" \/ pc = "dispatch"]_vars

\* A loop whose queue is finished ends, whatever it was doing and whatever
\* waiter it was waiting on.
FinishEndsLoop == finished /\ pc \in Looping ~> pc \in {"idle", "ended"}

\* While nobody ends the loop, no event starves in a sub queue: no swap of
\* waiters, failed wait or stale signal keeps the loop from it.
LoopServes ==
    \A e \in Events : Q!Starves(e) /\ pc \in Looping ~> ~Q!Starves(e) \/ finished

-------------------------------------------------------------------------------
(* What event_runner.h says of Stop, and the code does not do. *)

\* "Stop to run the EventRunner": a Stop that finds the runner running, or the
\* end of a deposited one, ends its loop.
StopIsObeyed ==
    \A t \in Stoppers : stopper[t] = "finish" ~> pc \in {"idle", "ended"}
===============================================================================
