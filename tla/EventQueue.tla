------------------------------ MODULE EventQueue ------------------------------
(***************************************************************************)
(* The event queue of an EventRunner (event_queue.cpp): four sub queues of *)
(* rising urgency and a list of idle events, each sorted by handle time,   *)
(* and the choice GetExpiredEventLocked makes among them.                  *)
(*                                                                         *)
(* Every action is one critical section of queueLock_.  What the consumer  *)
(* does with an empty answer is the contract of an IoWaiter, no more: it   *)
(* sleeps until wakeUpTime_ or until Insert notifies it.  EventLoop.tla    *)
(* shows that the two concrete waiters keep this contract.                 *)
(***************************************************************************)
EXTENDS Integers, Sequences, SequencesExt

CONSTANTS
    Events,      \* event objects; an object may be sent again once handled
    Sendable,    \* the priorities the senders use
    Filters,     \* the sets of events that one removal filter can match
    MaxHandled,  \* DEFAULT_MAX_HANDLED_EVENT_COUNT
    MaxTime,     \* bound: the clock stops here
    MaxDelay,    \* bound: longest delay of an event
    MaxLag       \* bound: how old a send time is when Insert gets the lock

ASSUME BoundsAssumption ==
    /\ MaxHandled \in Nat
    /\ MaxTime \in Nat
    /\ MaxDelay \in Nat
    /\ MaxLag \in Nat

\* enum class Priority, by value; IDLE is also SUB_EVENT_QUEUE_NUM.
VIP == 0
IMMEDIATE == 1
HIGH == 2
LOW == 3
IDLE == 4

Priorities == VIP..IDLE
SubQueues == VIP..LOW

ASSUME SendableAssumption == Sendable \subseteq Priorities
ASSUME FiltersAssumption == Filters \subseteq SUBSET Events

Times == 0..MaxTime
HandleTimes == 0..(MaxTime + MaxDelay)

\* TimePoint::max(): later than every handle time.
Forever == MaxTime + MaxDelay + 1

\* What the queue knows of an event: which object it is, when it was sent and
\* when it is to be handled.
QueuedEvent == [ev : Events, send : Times, handle : HandleTimes]

VARIABLES
    now,            \* InnerEvent::Clock
    list,           \* subEventQueues_[p].queue for p < IDLE, idleEvents_ at IDLE
    handledCount,   \* subEventQueues_[p].handledEventsCount
    wakeUpTime,     \* wakeUpTime_
    idleTimeStamp,  \* idleTimeStamp_
    isIdle,         \* isIdle_
    asleep          \* the consumer sleeps on the IoWaiter and is not notified

vars == <<now, list, handledCount, wakeUpTime, idleTimeStamp, isIdle, asleep>>

TypeOK ==
    /\ now \in Times
    /\ list \in [Priorities -> Seq(QueuedEvent)]
    /\ handledCount \in [SubQueues -> 0..MaxHandled]
    /\ wakeUpTime \in HandleTimes \cup {Forever}
    /\ idleTimeStamp \in Times
    /\ isIdle \in BOOLEAN
    /\ asleep \in BOOLEAN

\* The events that wait in the queue.
Queued == {x.ev : x \in UNION {ToSet(list[p]) : p \in Priorities}}

-------------------------------------------------------------------------------
(* The sorted lists. *)

\* Mutant: std::lower_bound, a new event goes in front of its equals.
LowerBound(s, h) ==
    CHOOSE i \in 1..(Len(s) + 1) :
        /\ \A j \in 1..(i - 1) : s[j].handle < h
        /\ i <= Len(s) => s[i].handle >= h

\* std::upper_bound: the first position whose event is handled after time h.
UpperBound(s, h) ==
    CHOOSE i \in 1..(Len(s) + 1) :
        /\ \A j \in 1..(i - 1) : s[j].handle <= h
        /\ i <= Len(s) => s[i].handle > h

\* Mutant: a new event goes to the end of the list, whatever its handle time.
AppendEvent(s, x) == Append(s, x)

\* InsertEventsLocked
InsertEvent(s, x) == InsertAt(s, UpperBound(s, x.handle), x)

\* std::list::remove_if.  kept[i] is what is left of the first i events.
\* (A recursive function and not SelectSeq, of which the provers know nothing.)
RemoveIf(s, filter) ==
    LET kept[i \in 0..Len(s)] ==
            IF i = 0 THEN <<>>
            ELSE IF s[i].ev \in filter THEN kept[i - 1]
            ELSE Append(kept[i - 1], s[i])
    IN kept[Len(s)]

-------------------------------------------------------------------------------
(* The choice of the next event. *)

FrontTime(p) == list[p][1].handle

\* Mutant: due, without a look at the more urgent lists.
CandidateByTimeOnly(p) == list[p] # <<>> /\ FrontTime(p) <= now

\* CheckEventInListLocked as the scan meets list p: due, and earlier than the
\* front of every more urgent list (nextWakeUpTime is the least of those).
Candidate(p) ==
    /\ list[p] # <<>>
    /\ FrontTime(p) <= now
    /\ \A q \in SubQueues : q < p /\ list[q] # <<>> => FrontTime(p) < FrontTime(q)

LaterCandidates(p) == {q \in SubQueues : q > p /\ Candidate(q)}

\* Mutant: the limit on the turns is forgotten.
StopsWithoutTurns(p) == Candidate(p)

\* The scan of PickEventLocked stops at p: no candidate follows, or p has not
\* yet used up the turns it may take before the next candidate.
Stops(p) ==
    /\ Candidate(p)
    /\ LaterCandidates(p) # {} => handledCount[p] < MaxHandled

Picks(p) == Stops(p) /\ \A q \in SubQueues : q < p => ~Stops(q)

\* Mutant: no turn is ever counted.
CountsNeverRise(p) == [q \in SubQueues |-> IF q < p THEN 0 ELSE handledCount[q]]

\* Mutant: the counts of the more urgent lists are never reset.
CountsKept(p) ==
    [q \in SubQueues |->
        IF q = p /\ LaterCandidates(p) # {} THEN handledCount[q] + 1
        ELSE handledCount[q]]

\* handledEventsCount after p is picked: one more turn taken if a candidate
\* had to wait, and a fresh start for every more urgent list.
CountsAfter(p) ==
    [q \in SubQueues |->
        IF q < p THEN 0
        ELSE IF q = p /\ LaterCandidates(p) # {} THEN handledCount[q] + 1
        ELSE handledCount[q]]

\* The least handle time the scan met before it stopped: that of the first
\* candidate after p, if there is one.
TimeMet(p) ==
    IF LaterCandidates(p) = {} THEN FrontTime(p)
    ELSE FrontTime(CHOOSE q \in LaterCandidates(p) :
                       \A r \in LaterCandidates(p) : q <= r)

\* Mutant: only the most urgent list that is not empty counts.
FirstListTime(t) ==
    \/ \E p \in SubQueues :
         /\ list[p] # <<>> /\ t = FrontTime(p)
         /\ \A q \in SubQueues : q < p => list[q] = <<>>
    \/ t = Forever /\ \A p \in SubQueues : list[p] = <<>>

\* wakeUpTime_ after a scan that found nothing.
EarliestTime(t) ==
    /\ \A p \in SubQueues : list[p] # <<>> => t <= FrontTime(p)
    /\ \/ \E p \in SubQueues : list[p] # <<>> /\ t = FrontTime(p)
       \/ t = Forever /\ \A p \in SubQueues : list[p] = <<>>

NothingDue == \A p \in SubQueues : ~Candidate(p)

\* The idle event that was sent before the queue ran dry and is due.
IdleReady ==
    /\ list[IDLE] # <<>>
    /\ list[IDLE][1].send <= idleTimeStamp'
    /\ FrontTime(IDLE) <= now

-------------------------------------------------------------------------------
Init ==
    /\ now = 0
    /\ list = [p \in Priorities |-> <<>>]
    /\ handledCount = [p \in SubQueues |-> 0]
    /\ wakeUpTime = Forever
    /\ idleTimeStamp = 0
    /\ isIdle = TRUE
    /\ asleep \in BOOLEAN

Tick ==
    /\ now < MaxTime
    /\ now' = now + 1
    /\ UNCHANGED <<list, handledCount, wakeUpTime, idleTimeStamp, isIdle, asleep>>

(* The critical sections of queueLock_.  What each of them does to the queue, *)
(* whoever waits for it and however, is also used by EventLoop.tla.          *)

\* Insert notifies the waiter; an idle event never wakes the consumer.
Notifies(p, handle) == p # IDLE /\ handle < wakeUpTime

\* SendEvent and Insert.  SendEvent reads the clock before Insert takes the
\* lock, so the send time may be older than now.
InsertLocked(e, p, sent, delay) ==
    /\ e \notin Queued
    /\ sent \in Times /\ sent <= now /\ now - sent <= MaxLag
    /\ list' = [list EXCEPT ![p] =
                    InsertEvent(@, [ev |-> e, send |-> sent, handle |-> sent + delay])]
    /\ UNCHANGED <<now, handledCount, wakeUpTime, idleTimeStamp, isIdle>>

\* Remove and RemoveOrphan: every list is filtered, nobody is notified.
RemoveLocked(filter) ==
    /\ list' = [p \in Priorities |-> RemoveIf(list[p], filter)]
    /\ UNCHANGED <<now, handledCount, wakeUpTime, idleTimeStamp, isIdle>>

\* GetExpiredEventLocked returns the front of sub queue p.
PickEventLocked(p) ==
    /\ Picks(p)
    /\ handledCount' = CountsAfter(p)
    /\ wakeUpTime' = TimeMet(p)
    /\ list' = [list EXCEPT ![p] = Tail(@)]
    /\ isIdle' = FALSE
    /\ UNCHANGED <<now, idleTimeStamp>>

\* Mutant: every empty scan moves the idle time stamp.
EnterIdleAgain ==
    /\ NothingDue
    /\ wakeUpTime' \in HandleTimes \cup {Forever} /\ EarliestTime(wakeUpTime')
    /\ idleTimeStamp' = now
    /\ isIdle' = TRUE
    /\ UNCHANGED <<now, handledCount>>

\* Mutant: the idle time stamp is never moved.
EnterIdleUnstamped ==
    /\ NothingDue
    /\ wakeUpTime' \in HandleTimes \cup {Forever} /\ EarliestTime(wakeUpTime')
    /\ isIdle' = TRUE
    /\ UNCHANGED <<now, handledCount, idleTimeStamp>>

\* The part of GetExpiredEventLocked after an empty scan: enter idle mode.
EnterIdle ==
    /\ NothingDue
    /\ wakeUpTime' \in HandleTimes \cup {Forever} /\ EarliestTime(wakeUpTime')
    /\ idleTimeStamp' = IF isIdle THEN idleTimeStamp ELSE now
    /\ isIdle' = TRUE
    /\ UNCHANGED <<now, handledCount>>

\* GetExpiredEventLocked returns the front of the idle events.
PickIdleLocked ==
    /\ EnterIdle
    /\ IdleReady
    /\ list' = [list EXCEPT ![IDLE] = Tail(@)]

\* GetExpiredEventLocked returns nothing.
FindNothingLocked ==
    /\ EnterIdle
    /\ ~IdleReady
    /\ UNCHANGED list

-------------------------------------------------------------------------------
(* The queue with its consumer. *)

Insert(e, p, sent, delay) ==
    /\ InsertLocked(e, p, sent, delay)
    /\ asleep' = (asleep /\ ~Notifies(p, sent + delay))

RemoveEvents(filter) == RemoveLocked(filter) /\ UNCHANGED asleep

PickEvent(p) == ~asleep /\ PickEventLocked(p) /\ UNCHANGED asleep

PickIdleEvent == ~asleep /\ PickIdleLocked /\ UNCHANGED asleep

\* The consumer goes to sleep, unless its waiter still holds a notification.
FindNothing == ~asleep /\ FindNothingLocked /\ asleep' \in BOOLEAN

\* The wait lasts until wakeUpTime_.
TimeOut ==
    /\ asleep
    /\ now >= wakeUpTime
    /\ asleep' = FALSE
    /\ UNCHANGED <<now, list, handledCount, wakeUpTime, idleTimeStamp, isIdle>>

\* The wait ends early: a signal, a file descriptor, Finish or a new IoWaiter.
Interrupt ==
    /\ asleep
    /\ asleep' = FALSE
    /\ UNCHANGED <<now, list, handledCount, wakeUpTime, idleTimeStamp, isIdle>>

Send ==
    \E e \in Events, p \in Sendable, sent \in Times, delay \in 0..MaxDelay :
        Insert(e, p, sent, delay)

GetExpiredEvent ==
    \/ \E p \in SubQueues : PickEvent(p)
    \/ PickIdleEvent
    \/ FindNothing

Next ==
    \/ Tick
    \/ Send
    \/ \E filter \in Filters : RemoveEvents(filter)
    \/ GetExpiredEvent
    \/ TimeOut
    \/ Interrupt

Spec == Init /\ [][Next]_vars

\* The consumer keeps asking, its waits end in time, and time passes.
FairSpec ==
    /\ Spec
    /\ WF_vars(GetExpiredEvent)
    /\ WF_vars(TimeOut)
    /\ WF_vars(Tick)

-------------------------------------------------------------------------------
(* What the queue promises. *)

\* Every list is sorted by handle time, whatever the order in which the
\* senders' clock readings and their inserts interleave.
ListsSorted ==
    \A p \in Priorities : \A i, j \in DOMAIN list[p] :
        i < j => list[p][i].handle <= list[p][j].handle

\* No wake-up is lost: while the consumer sleeps and nobody has notified it,
\* no event of a sub queue is to be handled before the time it wakes up at.
SleepCoversQueue ==
    asleep =>
        \A p \in SubQueues : \A i \in DOMAIN list[p] :
            wakeUpTime <= list[p][i].handle

\* Events of one list that are due at the same time keep the order in which
\* they were inserted: an insert puts the new event behind its equals and
\* nothing else ever changes the order of two waiting events.
Before(s, x, y) == \E i, j \in DOMAIN s : i < j /\ s[i] = x /\ s[j] = y

KeepsOrder ==
    [][\A p \in Priorities : \A x, y \in ToSet(list'[p]) :
         Before(list'[p], x, y) =>
            \/ Before(list[p], x, y)
            \/ x \notin ToSet(list[p]) /\ x.handle < y.handle
            \/ y \notin ToSet(list[p]) /\ x.handle <= y.handle]_vars

\* Priority::IDLE, "distributed only if no other event right now": no step
\* takes an idle event while an event of a sub queue is due, and the event it
\* takes was sent before the queue ran dry.
IdleYields ==
    [][PickIdleEvent =>
         /\ \A p \in SubQueues : \A i \in DOMAIN list[p] : list[p][i].handle > now
         /\ ~isIdle \/ list[IDLE][1].send <= idleTimeStamp]_vars

\* An event is never handled early, and it passes a more urgent event that is
\* due as well only if it is to be handled before that one and the most urgent
\* list that is due has used up its turns.
DueIn(p) == list[p] # <<>> /\ FrontTime(p) <= now

PassesOnlyInTurn ==
    [][\A p \in SubQueues : PickEvent(p) =>
         /\ DueIn(p)
         /\ \A q \in SubQueues : q < p /\ DueIn(q) =>
              /\ FrontTime(p) < FrontTime(q)
              /\ (\A r \in SubQueues : r < q => ~DueIn(r))
                    => handledCount[q] = MaxHandled]_vars

\* No starvation: whatever keeps being sent, an event is handled or removed.
\* (The clock of the model stops at MaxTime, so an event due then may wait for
\* ever behind more urgent events due at the same instant, or sent late.)
Starves(e) ==
    \E p \in SubQueues : \E i \in DOMAIN list[p] :
        list[p][i].ev = e /\ list[p][i].handle < MaxTime - MaxLag

NoStarvation == \A e \in Events : Starves(e) ~> ~Starves(e)

\* An idle event that is sent while the queue is idle has to wait for other
\* events to come and go.  If they keep doing so it is handled in the end: the
\* idle time stamp catches up with it, and no other idle event bars its way.
WaitsIdle(e) ==
    \E i \in DOMAIN list[IDLE] :
        list[IDLE][i].ev = e /\ list[IDLE][i].handle <= MaxTime - MaxLag

IdleServed ==
    \A e \in Events :
        []<>isIdle /\ []<>~isIdle => (WaitsIdle(e) ~> ~WaitsIdle(e))
=============================================================================
