------------------------- MODULE PlatformRunnerProofs -------------------------
(***************************************************************************)
(* Proofs about PlatformRunner, for all values of its constants but with no *)
(* threads beside the looper's: with them the contract is not kept.         *)
(* The runner refines EventQueue; what EventQueueProofs says of that then   *)
(* holds of the runner, and with it the timer is shown to be right.         *)
(***************************************************************************)
EXTENDS PlatformRunner, TLAPS

-------------------------------------------------------------------------------
(* The refinement. *)

\* A new platform runner is a new queue.
LEMMA InitRefines == Init => Q!Init
BY DEF Init

\* Every step of the runner is a step of a queue and its consumer, or neither moves.
LEMMA StepRefines ==
    ASSUME OtherThreads = FALSE, [Next]_vars
    PROVE  [Q!Next]_(Q!vars)
<1>1. CASE Tick
  <2>1. Q!Tick
    BY <1>1 DEF Tick, Q!Tick, Asleep
  <2> QED BY <2>1 DEF Q!Next
<1>2. CASE Send
  <2>1. PICK e \in Events, p \in Sendable, sent \in Q!Times, delay \in 0..MaxDelay :
            Insert(e, p, sent, delay)
    BY <1>2 DEF Send
  <2>2. Asleep' = (Asleep /\ ~Q!Notifies(p, sent + delay))
    BY <2>1 DEF Insert, MayUseQueue, SetTimer, Asleep, AtOnce
  <2>3. Q!Insert(e, p, sent, delay)
    BY <2>1, <2>2 DEF Insert, Q!Insert
  <2> QED BY <2>3 DEF Q!Next, Q!Send
<1>3. ASSUME NEW filter \in Filters, RemoveEvents(filter) PROVE Q!Next
  <2>1. Q!RemoveEvents(filter)
    BY <1>3 DEF RemoveEvents, Q!RemoveEvents, Asleep
  <2> QED BY <2>1 DEF Q!Next
<1>4. CASE TimerExpires
  <2>1. UNCHANGED queueVars /\ Asleep' = FALSE
    BY <1>4 DEF TimerExpires, Asleep
  <2>2. Q!Interrupt \/ UNCHANGED Q!vars
    BY <2>1 DEF Q!Interrupt, Q!vars, queueVars, Asleep
  <2> QED BY <2>2 DEF Q!Next
<1>5. CASE GetExpiredEvent
  <2>1. Asleep = FALSE
    BY <1>5 DEF GetExpiredEvent, Asleep
  <2>2. CASE pc' = "dispatch" /\ \E p \in Q!SubQueues : Q!PickEventLocked(p)
    <3>1. Asleep' = FALSE
      BY <2>2 DEF Asleep
    <3>2. PICK p \in Q!SubQueues : Q!PickEventLocked(p)
      BY <2>2
    <3>3. Q!PickEvent(p)
      BY <2>1, <3>1, <3>2 DEF Q!PickEvent
    <3> QED BY <3>3 DEF Q!Next, Q!GetExpiredEvent
  <2>3. CASE pc' = "dispatch" /\ Q!PickIdleLocked
    <3>1. Asleep' = FALSE
      BY <2>3 DEF Asleep
    <3>2. Q!PickIdleEvent
      BY <2>1, <3>1, <2>3 DEF Q!PickIdleEvent
    <3> QED BY <3>2 DEF Q!Next, Q!GetExpiredEvent
  <2>4. CASE Q!FindNothingLocked /\ pc' = "set"
    <3>1. Q!FindNothing
      BY <2>1, <2>4 DEF Q!FindNothing, Asleep
    <3> QED BY <3>1 DEF Q!Next, Q!GetExpiredEvent
  <2> QED BY <1>5, <2>2, <2>3, <2>4 DEF GetExpiredEvent
<1>6. CASE Dispatched
  BY <1>6 DEF Dispatched, Asleep, queueVars, Q!vars
<1>7. CASE EndRun
  <2>1. UNCHANGED queueVars /\ Asleep = TRUE /\ Asleep' \in BOOLEAN
    BY <1>7 DEF EndRun, Asleep
  <2>2. Q!Interrupt \/ UNCHANGED Q!vars
    BY <2>1 DEF Q!Interrupt, Q!vars, queueVars
  <2> QED BY <2>2 DEF Q!Next
<1>8. CASE UNCHANGED vars
  BY <1>8 DEF vars, Asleep, queueVars, Q!vars
<1> QED BY <1>1, <1>2, <1>3, <1>4, <1>5, <1>6, <1>7, <1>8 DEF Next, Looper

\* Without other threads the timer and the looper are a consumer of EventQueue: no
\* setting of the timer is lost that an insert asked for.
THEOREM ContractKept ==
    ASSUME OtherThreads = FALSE
    PROVE  Spec => QueueContract
<1>1. Init => Q!Init
  BY InitRefines
<1>2. [Next]_vars => [Q!Next]_(Q!vars)
  BY StepRefines
<1> QED BY <1>1, <1>2, PTL DEF Spec, QueueContract, Q!Spec

-------------------------------------------------------------------------------
(* The timer. *)

\* What the theorems of the queue assume.
LEMMA QueueAssumptions ==
    /\ MaxHandled \in Nat /\ MaxTime \in Nat /\ MaxDelay \in Nat /\ MaxLag \in Nat
    /\ Sendable \subseteq Q!Priorities /\ Filters \subseteq SUBSET Events
BY BoundsAssumption, SendableAssumption, FiltersAssumption DEF Q!Priorities, Q!VIP, Q!IDLE

\* In the looper the timer is set for the next scan of the queue, or for at once.
TimerOK ==
    /\ timer \in Q!HandleTimes \cup {Q!Forever, AtOnce}
    /\ pc \in Places
    /\ pc # "looper" => timer \in {Q!Forever, AtOnce}
    /\ pc = "looper" => timer = AtOnce \/ timer <= wakeUpTime

\* The queue of a runner has its types, and covers the consumer's sleep.
LEMMA QueueHolds ==
    ASSUME OtherThreads = FALSE
    PROVE  Spec => [](Q!TypeOK /\ Q!SleepCoversQueue)
<1>1. Q!Spec => []Q!TypeOK
  BY Q!TypeCorrect, QueueAssumptions
<1>2. Q!Spec => []Q!SleepCoversQueue
  BY Q!NoLostWakeUp, QueueAssumptions
<1> QED BY <1>1, <1>2, ContractKept, PTL DEF QueueContract

\* No step sets the timer too late.
LEMMA TimerStep ==
    ASSUME Q!TypeOK, Q!TypeOK', TimerOK, [Next]_vars
    PROVE  TimerOK'
<1> USE DEF TimerOK, Places
<1>1. now \in Nat /\ wakeUpTime \in Int /\ wakeUpTime \in Q!HandleTimes \cup {Q!Forever}
  BY QueueAssumptions DEF Q!TypeOK, Q!Times, Q!HandleTimes, Q!Forever
<1>2. AtOnce = -1 /\ AtOnce \in Int
  BY DEF AtOnce
<1>3. CASE Tick
  BY <1>3 DEF Tick
<1>4. CASE Send
  <2>1. PICK e \in Events, p \in Sendable, sent \in Q!Times, delay \in 0..MaxDelay :
            Insert(e, p, sent, delay)
    BY <1>4 DEF Send
  <2>2. timer' \in {timer, AtOnce} /\ UNCHANGED <<pc, wakeUpTime>>
    BY <2>1, <1>1 DEF Insert, SetTimer, Q!InsertLocked
  <2> QED BY <2>2
<1>5. ASSUME NEW filter \in Filters, RemoveEvents(filter) PROVE TimerOK'
  BY <1>5 DEF RemoveEvents, Q!RemoveLocked
<1>6. CASE TimerExpires
  BY <1>6 DEF TimerExpires
<1>7. CASE GetExpiredEvent
  BY <1>7 DEF GetExpiredEvent
<1>8. CASE Dispatched
  BY <1>8 DEF Dispatched
<1>9. CASE EndRun
  <2>1. timer' \in {AtOnce, wakeUpTime} /\ wakeUpTime' = wakeUpTime /\ pc' = "looper"
    BY <1>9 DEF EndRun, SetTimer, queueVars
  <2> QED BY <2>1, <1>1
<1>10. CASE UNCHANGED vars
  BY <1>10 DEF vars, queueVars
<1> QED BY <1>3, <1>4, <1>5, <1>6, <1>7, <1>8, <1>9, <1>10 DEF Next, Looper

\* The timer stays as it should be set.
LEMMA TimerInvariance ==
    ASSUME OtherThreads = FALSE
    PROVE  Spec => [](Q!TypeOK /\ Q!SleepCoversQueue /\ TimerOK)
<1>1. Init => TimerOK
  <2>1. Q!Forever \in Int
    BY QueueAssumptions DEF Q!Forever
  <2> QED BY <2>1 DEF Init, Q!Init, TimerOK, Places
<1>2. Q!TypeOK /\ Q!TypeOK' /\ TimerOK /\ [Next]_vars => TimerOK'
  BY TimerStep
<1> QED BY <1>1, <1>2, QueueHolds, PTL DEF Spec

\* Types of the runner: the timer that called Run is used up.
THEOREM TypeCorrect ==
    ASSUME OtherThreads = FALSE
    PROVE  Spec => []TypeOK
<1>1. Q!TypeOK /\ TimerOK => TypeOK
  BY DEF TimerOK, TypeOK
<1> QED BY <1>1, TimerInvariance, PTL

\* Out of Run the timer expires in time for every event of a sub queue.
THEOREM TimerIsSet ==
    ASSUME OtherThreads = FALSE
    PROVE  Spec => []TimerCoversQueue
<1>1. Q!TypeOK /\ Q!SleepCoversQueue /\ TimerOK => TimerCoversQueue
  <2> SUFFICES ASSUME Q!TypeOK, Q!SleepCoversQueue, TimerOK, pc = "looper",
                      NEW p \in Q!SubQueues, NEW i \in DOMAIN list[p]
               PROVE  timer <= list[p][i].handle
    BY DEF TimerCoversQueue
  <2>1. list[p] \in Seq(Q!QueuedEvent) /\ wakeUpTime \in Int
    BY QueueAssumptions DEF Q!TypeOK, Q!SubQueues, Q!Priorities, Q!VIP, Q!LOW, Q!IDLE,
                            Q!HandleTimes, Q!Forever
  <2>2. list[p][i] \in Q!QueuedEvent
    BY <2>1
  <2>3. list[p][i].handle \in Nat
    BY <2>2, QueueAssumptions DEF Q!QueuedEvent, Q!HandleTimes
  <2>4. timer # AtOnce => Asleep
    BY DEF Asleep
  <2>5. timer # AtOnce => wakeUpTime <= list[p][i].handle /\ timer <= wakeUpTime
    BY <2>4 DEF Q!SleepCoversQueue, TimerOK
  <2>6. timer \in Int
    BY QueueAssumptions DEF TimerOK, Q!HandleTimes, Q!Forever, AtOnce
  <2> QED BY <2>1, <2>3, <2>5, <2>6 DEF AtOnce
<1> QED BY <1>1, TimerInvariance, PTL
===============================================================================
