------------------------------- MODULE SyncSend -------------------------------
(***************************************************************************)
(* Synchronous sending between the threads of runners and other threads     *)
(* (event_handler.cpp, inner_event.cpp): SendSyncEvent puts an event with a  *)
(* waiter into the queue of another runner and waits until the event is      *)
(* recycled, which is when it was handled or removed.  Events come from a    *)
(* pool and are used again.                                                 *)
(*                                                                          *)
(* Which event of its queue a runner takes next is the matter of EventQueue; *)
(* here it may be any.  The handler of an event may send and remove others.  *)
(***************************************************************************)
EXTENDS Naturals, FiniteSets, Sequences

CONSTANTS
    Runners,    \* runners that live on the thread that calls Run
    Clients,    \* threads without a runner
    Events,     \* InnerEvent objects: there is memory for that many at a time
    MaxPool,    \* MAX_POOL_SIZE
    MaxSends    \* bounds the events ever sent

Senders == Runners \cup Clients

VARIABLES
    runner,     \* what each runner does
    queue,      \* the events in its queue
    stack,      \* the events each thread handles, the innermost one last
    pc,         \* where each thread is in SendSyncEvent
    target,     \* the runner it sends to
    holds,      \* the event it has got and not sent yet
    waiter,     \* waiter_ of each event: the thread that waits for it, if any
    finished,   \* finished_ of the waiter of each thread
    pool,       \* events_ of the InnerEventPool
    usingCount, \* usingCount_
    sends       \* counts the events sent

queueVars == <<runner, queue>>
threadVars == <<stack, pc, target, holds, finished>>
poolVars == <<pool, usingCount>>
vars == <<queueVars, threadVars, waiter, poolVars, sends>>

\* Runs its loop; finished_ is set; Run has returned.
RunnerStates == {"running", "finishing", "ended"}

\* Not in SendSyncEvent; has created the waiter; about to look at finished_;
\* sleeps on condition_.
Places == {"free", "created", "sent", "asleep"}

\* Events that are queued or handled.
InQueue == UNION {queue[r] : r \in Runners}
Stacked(t) == {stack[t][i] : i \in DOMAIN stack[t]}
InFlight == InQueue \cup UNION {Stacked(t) : t \in Senders}
Held == UNION {holds[t] : t \in Senders}

\* Types.  An event is in one place, and the pool counts those in use.
TypeOK ==
    /\ runner \in [Runners -> RunnerStates]
    /\ queue \in [Runners -> SUBSET Events]
    /\ stack \in [Senders -> Seq(Events)]
    /\ pc \in [Senders -> Places]
    /\ target \in [Senders -> Runners]
    /\ holds \in [Senders -> SUBSET Events]
    /\ waiter \in [Events -> SUBSET Senders]
    /\ finished \in [Senders -> BOOLEAN]
    /\ pool \subseteq Events
    /\ Cardinality(pool) <= MaxPool
    /\ pool \cap (InFlight \cup Held) = {}
    /\ usingCount = Cardinality(InFlight \cup Held)
    /\ sends \in 0..MaxSends

Init ==
    /\ runner = [r \in Runners |-> "running"]
    /\ queue = [r \in Runners |-> {}]
    /\ stack = [t \in Senders |-> << >>]
    /\ pc = [t \in Senders |-> "free"]
    /\ target = [t \in Senders |-> CHOOSE r \in Runners : TRUE]
    /\ holds = [t \in Senders |-> {}]
    /\ waiter = [e \in Events |-> {}]
    /\ finished = [t \in Senders |-> FALSE]
    /\ pool = {} /\ usingCount = 0
    /\ sends = 0

-------------------------------------------------------------------------------
(* The pool. *)

\* Get: an event of the pool (its last one, but they do not differ), else a
\* new one.
Gets(e) == IF pool # {} THEN e \in pool ELSE e \notin InFlight \cup Held

Got(e) ==
    /\ Gets(e)
    /\ pool' = pool \ {e}
    /\ usingCount' = usingCount + 1

\* Mutant: finished_ is not set, as if the waiter were a bare condition variable.
NotifyWaitingOnly(ts) ==
    /\ finished' = [t \in Senders |-> finished[t] \/ (t \in ts /\ pc[t] = "asleep")]
    /\ pc' = [t \in Senders |-> IF t \in ts /\ pc[t] = "asleep" THEN "sent" ELSE pc[t]]

\* WaiterImp::Notify
Notify(ts) ==
    /\ finished' = [t \in Senders |-> finished[t] \/ t \in ts]
    /\ pc' = [t \in Senders |-> IF t \in ts /\ pc[t] = "asleep" THEN "sent" ELSE pc[t]]

Put(e) ==
    /\ pool' = IF Cardinality(pool) < MaxPool THEN pool \cup {e} ELSE pool
    /\ usingCount' = usingCount - 1

\* Mutant: the event keeps its waiter.
DropDirty(e) == Notify(waiter[e]) /\ UNCHANGED waiter /\ Put(e)

\* Drop: ClearEvent and Put.
Drop(e) ==
    /\ Notify(waiter[e])
    /\ waiter' = [waiter EXCEPT ![e] = {}]
    /\ Put(e)

-------------------------------------------------------------------------------
(* Sending.  A client, or a runner whose handler is at work, may send. *)

Active(t) == pc[t] = "free" /\ (t \in Clients \/ stack[t] # << >>)

MaySend(t) == Active(t) /\ sends < MaxSends /\ sends' = sends + 1

\* SendEvent of an event nobody waits for.
Post(t, r) ==
    /\ MaySend(t)
    /\ \E e \in Events : Got(e) /\ queue' = [queue EXCEPT ![r] = @ \cup {e}]
    /\ UNCHANGED <<runner, threadVars, waiter>>

\* SendSyncEvent to the runner of this thread: the event is handled at once.
SendToSelf(t) ==
    /\ t \in Runners
    /\ MaySend(t)
    /\ \E e \in Events : Got(e) /\ stack' = [stack EXCEPT ![t] = Append(@, e)]
    /\ UNCHANGED <<queueVars, pc, target, holds, finished, waiter>>

\* SendSyncEvent refuses a runner that does not run: event and all are dropped.
Refused(t, r) ==
    /\ MaySend(t)
    /\ r # t /\ runner[r] = "ended"
    /\ \E e \in Events :
          /\ Gets(e)
          /\ pool' = IF Cardinality(pool) < MaxPool THEN pool \cup {e} ELSE pool
    /\ UNCHANGED <<queueVars, threadVars, waiter, usingCount>>

\* It creates the waiter...
CreateWaiter(t, r) ==
    /\ MaySend(t)
    /\ r # t /\ runner[r] # "ended"
    /\ \E e \in Events :
          /\ Got(e)
          /\ holds' = [holds EXCEPT ![t] = {e}]
          /\ waiter' = [waiter EXCEPT ![e] = {t}]
    /\ finished' = [finished EXCEPT ![t] = FALSE]
    /\ target' = [target EXCEPT ![t] = r]
    /\ pc' = [pc EXCEPT ![t] = "created"]
    /\ UNCHANGED <<queueVars, stack>>

\* ... inserts the event, wherever the runner has got to by now...
InsertSync(t) ==
    /\ pc[t] = "created"
    /\ queue' = [queue EXCEPT ![target[t]] = @ \cup holds[t]]
    /\ holds' = [holds EXCEPT ![t] = {}]
    /\ pc' = [pc EXCEPT ![t] = "sent"]
    /\ UNCHANGED <<runner, stack, target, finished, waiter, poolVars, sends>>

\* ... and WaiterImp::Wait sleeps until finished_ is set.
Wait(t) ==
    /\ pc[t] = "sent"
    /\ pc' = [pc EXCEPT ![t] = IF finished[t] THEN "free" ELSE "asleep"]
    /\ UNCHANGED <<queueVars, stack, target, holds, finished, waiter, poolVars, sends>>

WakeSpuriously(t) ==
    /\ pc[t] = "asleep"
    /\ pc' = [pc EXCEPT ![t] = "sent"]
    /\ UNCHANGED <<queueVars, stack, target, holds, finished, waiter, poolVars, sends>>

-------------------------------------------------------------------------------
(* Handling and removing. *)

\* The loop of the runner takes an event and distributes it.
Take(r) ==
    /\ runner[r] = "running" /\ stack[r] = << >>
    /\ \E e \in queue[r] :
          /\ queue' = [queue EXCEPT ![r] = @ \ {e}]
          /\ stack' = [stack EXCEPT ![r] = <<e>>]
    /\ UNCHANGED <<runner, pc, target, holds, finished, waiter, poolVars, sends>>

\* The innermost handler returns and its event is recycled.
Handled(r) ==
    /\ stack[r] # << >> /\ pc[r] = "free"
    /\ Drop(stack[r][Len(stack[r])])
    /\ stack' = [stack EXCEPT ![r] = SubSeq(@, 1, Len(@) - 1)]
    /\ UNCHANGED <<queueVars, target, holds, sends>>

\* RemoveEvent, RemoveTask, RemoveOrphan: one event after the other is recycled.
Remove(t, r) ==
    /\ Active(t)
    /\ \E e \in queue[r] :
          /\ queue' = [queue EXCEPT ![r] = @ \ {e}]
          /\ Drop(e)
    /\ UNCHANGED <<runner, stack, target, holds, sends>>

\* EventRunner::Stop, and the end of its Run.  What is queued stays queued.
StopRunner(r) ==
    /\ runner[r] = "running"
    /\ runner' = [runner EXCEPT ![r] = "finishing"]
    /\ UNCHANGED <<queue, threadVars, waiter, poolVars, sends>>

EndRun(r) ==
    /\ runner[r] = "finishing" /\ stack[r] = << >>
    /\ runner' = [runner EXCEPT ![r] = "ended"]
    /\ UNCHANGED <<queue, threadVars, waiter, poolVars, sends>>

-------------------------------------------------------------------------------
Next ==
    \/ \E t \in Senders, r \in Runners :
          Post(t, r) \/ Refused(t, r) \/ CreateWaiter(t, r) \/ Remove(t, r)
    \/ \E t \in Senders : InsertSync(t) \/ Wait(t) \/ WakeSpuriously(t)
    \/ \E r \in Runners : SendToSelf(r) \/ Take(r) \/ Handled(r) \/ StopRunner(r) \/ EndRun(r)

Spec == Init /\ [][Next]_vars

\* A thread in SendSyncEvent goes on, and a runner takes events and comes to
\* the end of its handlers.
Progress(t) == InsertSync(t) \/ Wait(t) \/ (t \in Runners /\ (Take(t) \/ Handled(t)))

-------------------------------------------------------------------------------
(* What synchronous sending promises. *)

Waiting(t) == pc[t] # "free"

\* A thread waits for exactly as long as its event is on its way: its waiter is
\* on one event, which is held, queued or handled until finished_ is set, and on
\* none after that, although the event object is soon used for something else.
WaiterFollowsEvent ==
    \A t \in Senders, e \in Events :
        t \in waiter[e] =>
            /\ Waiting(t) /\ ~finished[t]
            /\ e \in InFlight \cup Held
            /\ \A f \in Events : t \in waiter[f] => f = e

\* And a thread that nothing will wake up does not sleep: finished_ is not set yet,
\* and the event that will set it is there.
NoLostNotify ==
    \A t \in Senders :
        /\ pc[t] = "asleep" => ~finished[t]
        /\ Waiting(t) /\ ~finished[t] => \E e \in InFlight \cup Held : t \in waiter[e]

\* Both: a wait is for an event that is on its way, and ends with it.
WaitsAreAnswered == WaiterFollowsEvent /\ NoLostNotify

\* The runners that a sender may wait for without end: stopped ones, and those
\* that wait for each other in SendSyncEvent.
DeadEnd(t) ==
    \E S \in SUBSET Runners :
        /\ target[t] \in S
        /\ \A r \in S : runner[r] # "running" \/ (Waiting(r) /\ ~finished[r] /\ target[r] \in S)

\* SendSyncEvent returns, unless the runner was stopped or the waits go round
\* in a circle.
SyncReturns == \A t \in Senders : Waiting(t) ~> ~Waiting(t) \/ DeadEnd(t)
=============================================================================
