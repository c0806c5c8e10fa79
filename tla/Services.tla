-------------------------------- MODULE Services --------------------------------
(***************************************************************************)
(* The components beside the event queue, each for itself: the collector of  *)
(* threads, synchronous sending, the ability delegator, application events   *)
(* and their parameters, and unhandled rejections.  They share no state.     *)
(* SyncSend is extended; the others, whose definitions have the same names,  *)
(* are instances, those with theorems of the modules that prove them.        *)
(***************************************************************************)
EXTENDS SyncSend

CONSTANTS
    Threads,                                                    \* ThreadCollector
    Abilities, Stages, Monitors, StageMonitors, Watches, PoolSize, MaxCalls, Awaited,
                                                                \* AbilityDelegator
    Watchers, NameOf, Receivers, RowOf, TimeoutOf, KindsOf, MaxEvents, MaxClears,
                                                                \* AppEvents
    EventNames, Keys, Values, MaxParams, MaxRows,               \* EventParams
    Promises, Functions                                         \* RejectionManager

VARIABLES
    thread, owner, finish, creator, depositMap, reclaims, daemon, daemonJoins, isWaiting,
    destroying, threadLock, needCreate, exiting, exitJoins, joined,
    life, properties, registered, record, jsOf, matched, abilityRecord, task,
    kinds, eventMap, mapping, observerSeq, lastSeq, watchers, seqOf, row, waited, batch, freed,
    hasHandleTimeout, timers, js, tasks, delivered, clears,
    customParamMap, lastSet,
    pending, observers, settled, promiseAt, observerAt, calling, due, told, done, cut, refusing,
    dangling

Collector == INSTANCE ThreadCollectorProofs
Delegator == INSTANCE AbilityDelegator
AppEvent == INSTANCE AppEventsProofs
Params == INSTANCE EventParams
Rejections == INSTANCE RejectionManagerProofs

-------------------------------------------------------------------------------
\* The types of every component.
TypesOK ==
    /\ Collector!TypeOK /\ TypeOK /\ Delegator!TypeOK
    /\ AppEvent!TypeOK /\ Params!TypeOK /\ Rejections!TypeOK

\* The collector owns each thread once, and nothing outlives the exit.
CollectorSafe == Collector!CollectorSafe

\* Threads that end are joined, the exit ends, and a synchronous call returns.
ThreadsGoOn == Collector!CollectorEnds /\ SyncReturns

\* Monitors are registered as they are on record, refused calls apart, and properties are right.
DelegatorSafe == Delegator!DelegatorSafe

\* One timer, one row for a name, what was sent gets through, and an event gets the latest
\* value of each parameter.
EventsSafe == AppEvent!EventsSafe /\ Params!LatestValue

\* As app_event_observer_mgr.cpp:141 has it, the store keeps the events that some observer
\* has still to take.
KeepsMappedEvents == AppEvent!KeepsMappedEvents

\* Every call of the delegator settles, and a watcher with a timeout is triggered.
AnswersCome == Delegator!CallsSettle /\ AppEvent!TimeoutServed

\* Rejections are told once to everyone, whatever the observers do; one that throws keeps those
\* after it from being told.
RejectionsTold == Rejections!RejectionsTold
================================================================================
