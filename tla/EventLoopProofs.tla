---------------------------- MODULE EventLoopProofs ----------------------------
(***************************************************************************)
(* Proofs about EventLoop, for all values of its constants: the loop, its   *)
(* two kinds of waiter and the threads that stop it refine EventQueue, and   *)
(* no thread sleeps on a queue that is finished.                            *)
(***************************************************************************)
EXTENDS EventLoop, TLAPS

-------------------------------------------------------------------------------
(* The waiters. *)

\* TypeOK without the queue; and a thread waits on the waiter of that moment, unless it
\* was signalled when that one was replaced.
WaiterOK ==
    /\ finished \in BOOLEAN
    /\ deposit \in BOOLEAN /\ running \in BOOLEAN /\ owner \in BOOLEAN
    /\ pc \in Places
    /\ waiter \in Waiters /\ holder \in Waiters
    /\ signal \in [Waiters -> BOOLEAN]
    /\ stopper \in [Stoppers -> {"idle", "finish"}]
    /\ signal["none"] => pc = "wait" /\ holder = "none"
    /\ pc = "wait" => holder = waiter \/ (holder = "none" /\ signal["none"])

\* What a notification leaves: signals that were there, and one for who waits.
LEMMA NotifiedFacts ==
    ASSUME WaiterOK, NEW w \in Waiters
    PROVE  /\ Notified(w) \in [Waiters -> BOOLEAN]
           /\ \A v \in Waiters : Notified(w)[v] = (signal[v] \/ (v = w /\ pc = "wait" /\ holder = w))
BY DEF WaiterOK, Notified, Waiting

\* The waiters of a new loop.
LEMMA InitWaiter == Init => WaiterOK
BY DEF Init, WaiterOK, Waiters, Places, Looping

\* Sends, removals and the clock.
LEMMA QueueStepWaiter ==
    ASSUME WaiterOK, Tick \/ Send \/ \E filter \in Filters : RemoveEvents(filter)
    PROVE  WaiterOK'
<1>1. CASE Tick
  BY <1>1 DEF Tick, WaiterOK, runnerVars, waiterVars
<1>2. CASE Send
  <2>1. /\ signal' \in {signal, Notified(waiter)}
        /\ UNCHANGED <<finished, deposit, running, owner, pc, waiter, holder, stopper>>
    BY <1>2 DEF Send, Insert, runnerVars
  <2>2. CASE signal' = signal
    BY <2>1, <2>2 DEF WaiterOK
  <2>3. CASE signal' = Notified(waiter)
    BY <2>1, <2>3, NotifiedFacts DEF WaiterOK, Waiters
  <2> QED BY <2>1, <2>2, <2>3
<1>3. CASE \E filter \in Filters : RemoveEvents(filter)
  BY <1>3 DEF RemoveEvents, WaiterOK, runnerVars, waiterVars
<1> QED BY <1>1, <1>2, <1>3

\* The thread of the loop.
LEMMA LoopStepWaiter ==
    ASSUME WaiterOK, StartRun \/ LoopThread \/ InterruptEpoll \/ FailWait
    PROVE  WaiterOK'
<1> USE DEF WaiterOK, Places, Looping, Waiters, runnerVars, waiterVars
<1>1. CASE StartRun
  BY <1>1 DEF StartRun
<1>2. CASE StartThread
  BY <1>2 DEF StartThread
<1>3. CASE Prepare
  BY <1>3 DEF Prepare
<1>4. CASE EnterLoop
  BY <1>4 DEF EnterLoop
<1>5. CASE GetEvent
  <2>1. /\ pc \in {"get", "locked"} /\ pc' \in {"leaving", "dispatch", "wait"}
        /\ UNCHANGED <<finished, deposit, running, owner, waiter, signal, stopper>>
        /\ IF pc' = "wait" THEN holder' = waiter ELSE holder' = holder
    BY <1>5 DEF GetEvent, StartWait
  <2> QED BY <2>1
<1>6. CASE Dispatched
  BY <1>6 DEF Dispatched
<1>7. CASE LeaveRun
  BY <1>7 DEF LeaveRun
<1>8. CASE WakeNone
  BY <1>8 DEF WakeNone, Waiting
<1>9. CASE WakeEpoll \/ InterruptEpoll
  BY <1>9 DEF WakeEpoll, InterruptEpoll, LeaveEpoll, Waiting
<1>10. CASE FailWait
  BY <1>10 DEF FailWait, Waiting
<1>11. CASE ResetWaiter
  BY <1>11 DEF ResetWaiter
<1> QED BY <1>1, <1>2, <1>3, <1>4, <1>5, <1>6, <1>7, <1>8, <1>9, <1>10, <1>11 DEF LoopThread

\* The threads that replace the waiter or stop the loop.
LEMMA StopStepWaiter ==
    ASSUME WaiterOK,
           \/ SwapWaiter
           \/ \E t \in Stoppers : StopRunning(t) \/ ReleaseRunner(t) \/ ExitThread(t) \/ Finish(t)
    PROVE  WaiterOK'
<1>1. CASE SwapWaiter
  <2>1. \A v \in Waiters : Notified("none")[v] = (signal[v] \/ (v = "none" /\ pc = "wait" /\ holder = "none"))
    BY NotifiedFacts DEF Waiters
  <2>2. Notified("none") \in [Waiters -> BOOLEAN]
    BY NotifiedFacts DEF Waiters
  <2>3. /\ waiter = "none" /\ waiter' = "epoll"
        /\ signal' = [Notified("none") EXCEPT !["epoll"] = FALSE]
        /\ UNCHANGED <<finished, deposit, running, owner, pc, holder, stopper>>
    BY <1>1 DEF SwapWaiter, runnerVars
  <2>4. /\ signal' \in [Waiters -> BOOLEAN]
        /\ signal'["none"] = (signal["none"] \/ (pc = "wait" /\ holder = "none"))
    BY <2>1, <2>2, <2>3 DEF Waiters
  <2> QED BY <2>3, <2>4 DEF WaiterOK, Waiters
<1>2. ASSUME NEW t \in Stoppers, StopRunning(t) \/ ReleaseRunner(t) \/ ExitThread(t)
      PROVE  WaiterOK'
  BY <1>2 DEF StopRunning, ReleaseRunner, ExitThread, WaiterOK, runnerVars, waiterVars
<1>3. ASSUME NEW t \in Stoppers, Finish(t)
      PROVE  WaiterOK'
  <2>1. /\ signal' = Notified(waiter) /\ finished' = TRUE
        /\ stopper' = [stopper EXCEPT ![t] = "idle"]
        /\ UNCHANGED <<deposit, running, owner, pc, waiter, holder>>
    BY <1>3 DEF Finish, runnerVars
  <2> QED BY <2>1, NotifiedFacts DEF WaiterOK, Waiters
<1> QED BY <1>1, <1>2, <1>3

\* Every step keeps the waiters sound.
LEMMA WaiterStep ==
    ASSUME WaiterOK, [Next]_vars
    PROVE  WaiterOK'
<1>1. CASE UNCHANGED vars
  BY <1>1 DEF vars, runnerVars, waiterVars, WaiterOK
<1> QED BY <1>1, QueueStepWaiter, LoopStepWaiter, StopStepWaiter DEF Next

\* The waiters are sound at all times.
LEMMA WaiterInvariance == Spec => []WaiterOK
BY InitWaiter, WaiterStep, PTL DEF Spec

-------------------------------------------------------------------------------
(* The refinement. *)

\* A step that leaves the queue and may end the consumer's sleep.
LEMMA WakeOrStutter ==
    ASSUME UNCHANGED queueVars, Asleep' = Asleep \/ Asleep' = FALSE
    PROVE  [Q!Next]_(Q!vars)
<1>1. Asleep \in BOOLEAN
  BY DEF Asleep
<1>2. Q!Interrupt \/ UNCHANGED Q!vars
  BY <1>1 DEF Q!Interrupt, Q!vars, queueVars
<1> QED BY <1>2 DEF Q!Next

\* A notification ends the sleep of whoever waits on the current waiter.
LEMMA NotifiedWakes ==
    ASSUME WaiterOK, signal' = Notified(waiter), UNCHANGED <<pc, holder>>
    PROVE  Asleep' = FALSE
BY NotifiedFacts DEF WaiterOK, Waiters, Asleep

\* The queue as other threads use it.
LEMMA QueueStepRefines ==
    ASSUME WaiterOK, Tick \/ Send \/ \E filter \in Filters : RemoveEvents(filter)
    PROVE  Q!Next
<1>1. CASE Tick
  <2>1. Q!Tick
    BY <1>1 DEF Tick, Q!Tick, Asleep, waiterVars
  <2> QED BY <2>1 DEF Q!Next
<1>2. CASE Send
  <2>1. PICK e \in Events, p \in Sendable, sent \in Q!Times, delay \in 0..MaxDelay :
            Insert(e, p, sent, delay)
    BY <1>2 DEF Send
  <2>2. CASE Q!Notifies(p, sent + delay)
    <3>1. Asleep' = FALSE
      BY <2>1, <2>2, NotifiedWakes DEF Insert
    <3>2. Q!Insert(e, p, sent, delay)
      BY <2>1, <2>2, <3>1 DEF Insert, Q!Insert
    <3> QED BY <3>2 DEF Q!Next, Q!Send
  <2>3. CASE ~Q!Notifies(p, sent + delay)
    <3>1. Asleep' = Asleep /\ Asleep \in BOOLEAN
      BY <2>1, <2>3 DEF Insert, Asleep
    <3>2. Q!Insert(e, p, sent, delay)
      BY <2>1, <2>3, <3>1 DEF Insert, Q!Insert
    <3> QED BY <3>2 DEF Q!Next, Q!Send
  <2> QED BY <2>2, <2>3
<1>3. ASSUME NEW filter \in Filters, RemoveEvents(filter) PROVE Q!Next
  <2>1. Q!RemoveEvents(filter)
    BY <1>3 DEF RemoveEvents, Q!RemoveEvents, Asleep, waiterVars
  <2> QED BY <2>1 DEF Q!Next
<1> QED BY <1>1, <1>2, <1>3

\* One turn of GetEvent is a pick, a wait, or nothing to the queue.
LEMMA GetEventRefines ==
    ASSUME WaiterOK, GetEvent
    PROVE  [Q!Next]_(Q!vars)
<1>1. Asleep = FALSE
  BY DEF GetEvent, Asleep
<1>2. CASE pc' = "leaving" /\ UNCHANGED <<queueVars, waiterVars>>
  BY <1>2, WakeOrStutter DEF Asleep
<1>3. CASE pc' = "dispatch" /\ \E p \in Q!SubQueues : Q!PickEventLocked(p)
  <2>1. PICK p \in Q!SubQueues : Q!PickEventLocked(p)
    BY <1>3
  <2>2. Q!PickEvent(p)
    BY <1>1, <1>3, <2>1 DEF Q!PickEvent, Asleep
  <2> QED BY <2>2 DEF Q!Next, Q!GetExpiredEvent
<1>4. CASE pc' = "dispatch" /\ Q!PickIdleLocked
  <2>1. Q!PickIdleEvent
    BY <1>1, <1>4 DEF Q!PickIdleEvent, Asleep
  <2> QED BY <2>1 DEF Q!Next, Q!GetExpiredEvent
<1>5. CASE Q!FindNothingLocked /\ StartWait
  <2>1. Asleep' \in BOOLEAN
    BY <1>5 DEF Asleep
  <2>2. Q!FindNothing
    BY <1>1, <1>5, <2>1 DEF Q!FindNothing
  <2> QED BY <2>2 DEF Q!Next, Q!GetExpiredEvent
<1> QED BY <1>2, <1>3, <1>4, <1>5 DEF GetEvent

\* Every step of the loop is a step of a queue and its consumer, or neither moves.
LEMMA StepRefines ==
    ASSUME WaiterOK, [Next]_vars
    PROVE  [Q!Next]_(Q!vars)
<1>1. CASE SwapWaiter
  <2>1. UNCHANGED <<queueVars, pc, holder>> /\ waiter = "none"
    BY <1>1 DEF SwapWaiter
  <2>2. Asleep' = FALSE
    <3>1. SUFFICES ASSUME pc = "wait" PROVE signal'["none"] /\ holder = "none"
      BY <2>1 DEF Asleep
    <3>2. holder = "none"
      BY <2>1, <3>1 DEF WaiterOK
    <3>3. signal'["none"] = Notified("none")["none"]
      BY <1>1, NotifiedFacts DEF SwapWaiter, Waiters
    <3> QED BY <3>1, <3>2, <3>3, NotifiedFacts DEF Waiters
  <2> QED BY <2>1, <2>2, WakeOrStutter
<1>2. CASE InterruptEpoll \/ WakeEpoll \/ WakeNone \/ FailWait \/ ResetWaiter
  <2>1. UNCHANGED queueVars /\ pc' # "wait"
    BY <1>2 DEF InterruptEpoll, WakeEpoll, LeaveEpoll, WakeNone, FailWait, ResetWaiter
  <2> QED BY <2>1, WakeOrStutter DEF Asleep
<1>3. CASE StartRun \/ StartThread \/ Prepare \/ EnterLoop \/ Dispatched \/ LeaveRun
  <2>1. UNCHANGED queueVars /\ pc' # "wait"
    BY <1>3 DEF StartRun, StartThread, Prepare, EnterLoop, Dispatched, LeaveRun
  <2> QED BY <2>1, WakeOrStutter DEF Asleep
<1>4. ASSUME NEW t \in Stoppers, StopRunning(t) \/ ReleaseRunner(t) \/ ExitThread(t)
      PROVE  [Q!Next]_(Q!vars)
  BY <1>4, WakeOrStutter DEF StopRunning, ReleaseRunner, ExitThread, waiterVars, Asleep
<1>5. ASSUME NEW t \in Stoppers, Finish(t)
      PROVE  [Q!Next]_(Q!vars)
  <2>1. UNCHANGED queueVars /\ Asleep' = FALSE
    BY <1>5, NotifiedWakes DEF Finish
  <2> QED BY <2>1, WakeOrStutter
<1>6. CASE UNCHANGED vars
  BY <1>6 DEF vars, waiterVars, queueVars, Asleep, Q!vars
<1> QED BY <1>1, <1>2, <1>3, <1>4, <1>5, <1>6, QueueStepRefines, GetEventRefines
        DEF Next, LoopThread

\* The loop with either waiter, and while one replaces the other, is a consumer of
\* EventQueue: no notification of an insert is lost.
THEOREM ContractKept == Spec => QueueContract
<1>1. Init => Q!Init
  BY DEF Init
<1>2. WaiterOK /\ [Next]_vars => [Q!Next]_(Q!vars)
  BY StepRefines
<1> QED BY <1>1, <1>2, WaiterInvariance, PTL DEF Spec, QueueContract, Q!Spec

\* Types, and what NoneIoWaiter's pred_ means.
THEOREM TypeCorrect == Spec => []TypeOK
<1>1. /\ MaxHandled \in Nat /\ MaxTime \in Nat /\ MaxDelay \in Nat /\ MaxLag \in Nat
      /\ Sendable \subseteq Q!Priorities /\ Filters \subseteq SUBSET Events
  BY BoundsAssumption, SendableAssumption, FiltersAssumption DEF Q!Priorities, Q!VIP, Q!IDLE
<1>2. Q!Spec => []Q!TypeOK
  BY <1>1, Q!TypeCorrect
<1>3. Q!TypeOK /\ WaiterOK => TypeOK
  BY DEF TypeOK, WaiterOK
<1> QED BY <1>2, <1>3, ContractKept, WaiterInvariance, PTL DEF QueueContract

-------------------------------------------------------------------------------
(* Finish. *)

\* A thread starts to wait only if the queue is not finished, and a step that does not
\* start a wait takes no signal from one that goes on.
LEMMA FinishStep ==
    ASSUME WaiterOK, NoSleepAfterFinish, [Next]_vars
    PROVE  NoSleepAfterFinish'
<1> USE DEF NoSleepAfterFinish
<1>1. CASE Tick \/ \E filter \in Filters : RemoveEvents(filter)
  BY <1>1 DEF Tick, RemoveEvents, waiterVars, Asleep
<1>2. CASE Send
  <2>1. signal' \in {signal, Notified(waiter)} /\ UNCHANGED <<finished, pc, holder>>
    BY <1>2 DEF Send, Insert
  <2> QED BY <2>1, NotifiedWakes DEF Asleep
<1>3. CASE SwapWaiter
  <2>1. UNCHANGED <<pc, holder>> /\ waiter = "none"
    BY <1>3 DEF SwapWaiter
  <2>2. pc = "wait" => holder = "none" /\ signal'["none"]
    BY <1>3, <2>1, NotifiedFacts DEF SwapWaiter, WaiterOK, Waiters
  <2> QED BY <2>1, <2>2 DEF Asleep
<1>4. CASE InterruptEpoll \/ FailWait \/ StartRun
  BY <1>4 DEF InterruptEpoll, LeaveEpoll, FailWait, StartRun, Asleep
<1>5. CASE GetEvent
  BY <1>5 DEF GetEvent, StartWait, Asleep
<1>6. CASE LoopThread /\ ~GetEvent
  BY <1>6 DEF LoopThread, StartThread, Prepare, EnterLoop, Dispatched, LeaveRun, WakeNone,
              WakeEpoll, LeaveEpoll, ResetWaiter, Asleep
<1>7. ASSUME NEW t \in Stoppers, StopRunning(t) \/ ReleaseRunner(t) \/ ExitThread(t)
      PROVE  NoSleepAfterFinish'
  BY <1>7 DEF StopRunning, ReleaseRunner, ExitThread, waiterVars, Asleep
<1>8. ASSUME NEW t \in Stoppers, Finish(t)
      PROVE  NoSleepAfterFinish'
  BY <1>8, NotifiedWakes DEF Finish
<1>9. CASE UNCHANGED vars
  BY <1>9 DEF vars, waiterVars, Asleep
<1> QED BY <1>1, <1>2, <1>3, <1>4, <1>5, <1>6, <1>7, <1>8, <1>9 DEF Next

\* No thread sleeps on a queue that is finished, whatever waiter it is on.
THEOREM FinishWakes == Spec => []NoSleepAfterFinish
<1>1. Init => NoSleepAfterFinish
  BY DEF Init, NoSleepAfterFinish, Asleep
<1>2. WaiterOK /\ NoSleepAfterFinish /\ [Next]_vars => NoSleepAfterFinish'
  BY FinishStep
<1> QED BY <1>1, <1>2, WaiterInvariance, PTL DEF Spec

\* After Finish no event is handed out any more.
THEOREM FinishSilences == Spec => SilentAfterFinish
<1>1. [Next]_vars => [finished => pc' # "dispatch" \/ pc = "dispatch"]_vars
  <2> SUFFICES ASSUME Next, finished, pc' = "dispatch"
               PROVE  pc = "dispatch"
    OBVIOUS
  <2>1. CASE LoopThread
    BY <2>1 DEF LoopThread, StartThread, Prepare, EnterLoop, GetEvent, StartWait, Dispatched,
                LeaveRun, WakeNone, WakeEpoll, LeaveEpoll, ResetWaiter
  <2>2. CASE InterruptEpoll \/ FailWait \/ StartRun
    BY <2>2 DEF InterruptEpoll, LeaveEpoll, FailWait, StartRun
  <2>3. CASE UNCHANGED pc
    BY <2>3
  <2> QED BY <2>1, <2>2, <2>3 DEF Next, Tick, Send, Insert, RemoveEvents, SwapWaiter,
             StopRunning, ReleaseRunner, ExitThread, Finish
<1> QED BY <1>1, PTL DEF Spec, SilentAfterFinish
===============================================================================
