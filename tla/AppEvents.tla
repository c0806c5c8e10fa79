------------------------------- MODULE AppEvents -------------------------------
(***************************************************************************)
(* Application events (hiviewdfx/hiappevent): an application writes events,  *)
(* watchers get them.  The manager of the watchers (app_event_observer_mgr)  *)
(* keeps each event and whom it is for in tables in memory (app_event_store) *)
(* and gives it to the watchers (app_event_observer); a watcher of           *)
(* JavaScript (napi_app_event_watcher) is called by tasks on the JavaScript  *)
(* thread.  A watcher with a receiver gets every event; another counts its   *)
(* events and is triggered when they are enough, or old enough: a timer of   *)
(* 30 s, one for all watchers, restarts itself while a watcher has events.   *)
(*                                                                          *)
(* Three threads: one writes events, one serves the timer, one is            *)
(* JavaScript's (registers and removes watchers, runs the tasks, clears).    *)
(* What a mutex protects is one step.                                        *)
(***************************************************************************)
EXTENDS Naturals, FiniteSets, Sequences, SequencesExt

CONSTANTS
    Watchers,     \* watcher objects; each is registered at most once
    NameOf,       \* the name of each watcher
    Receivers,    \* the watchers with a receiver; the others have a trigger
    RowOf,        \* triggerCond.row of each watcher (0: none); a size works alike
    TimeoutOf,    \* triggerCond.timeout of each, in steps of the timer (0: none)
    KindsOf,      \* the kinds of events that each watcher's filters let pass
    MaxEvents,    \* bounds the events that are written
    MaxClears     \* bounds the calls of ClearData

Names == {NameOf[w] : w \in Watchers}
Kinds == UNION {KindsOf[w] : w \in Watchers}

\* Rows are numbered from 1; 0 is no row.
ObserverSeqs == 1..Cardinality(Watchers)

VARIABLES
    kinds,         \* the kind of each event written so far
    eventMap,      \* eventMap_: events in the store
    mapping,       \* appEventObserverMapping_: pairs of an event and an observer
    observerSeq,   \* appEventObserverMap_: the row of each name
    lastSeq,       \* g_observerSeq
    watchers,      \* watchers_: the watcher published under each row
    seqOf,         \* seq_ of each watcher object
    row, waited,   \* currCond_: events counted and steps waited
    batch,         \* receiveContext->events of each watcher
    freed,         \* watchers whose context is deleted
    hasHandleTimeout,
    timers,        \* WATCHER_TIMEOUT events that the handler's runner holds
    js,            \* what the JavaScript thread is in the middle of
    tasks,         \* what it has been sent
    delivered,     \* the events that each watcher's callback has had
    clears

storeVars == <<kinds, eventMap, mapping, observerSeq, lastSeq>>
watcherVars == <<watchers, seqOf, row, waited, batch, freed>>
timerVars == <<hasHandleTimeout, timers>>
jsVars == <<js, tasks, delivered>>
vars == <<storeVars, watcherVars, timerVars, jsVars, clears>>

TaskKinds == {"receive", "trigger", "destroy"}
Tasks == [kind : TaskKinds, watcher : Watchers]
Idle == [at |-> "idle"]

Published == {s \in ObserverSeqs : watchers[s] # {}}
IsPublished(w) == \E s \in Published : w \in watchers[s]
Unused == {w \in Watchers : seqOf[w] = 0}

\* Types; and a watcher that has enough rows has been triggered.
TypeOK ==
    /\ kinds \in Seq(Kinds) /\ Len(kinds) <= MaxEvents
    /\ eventMap \subseteq DOMAIN kinds
    /\ mapping \subseteq (DOMAIN kinds) \X ObserverSeqs
    /\ observerSeq \in [Names -> 0..lastSeq]
    /\ lastSeq \in 0..Cardinality(Watchers)
    /\ watchers \in [ObserverSeqs -> SUBSET Watchers]
    /\ \A s \in ObserverSeqs : Cardinality(watchers[s]) <= 1
    /\ seqOf \in [Watchers -> 0..lastSeq]
    /\ row \in [Watchers -> 0..MaxEvents]
    /\ \A w \in Watchers : RowOf[w] > 0 => row[w] < RowOf[w]
    /\ \A w \in Watchers : waited[w] \in 0..TimeoutOf[w]
    /\ batch \in [Watchers -> SUBSET DOMAIN kinds]
    /\ freed \subseteq Watchers
    /\ hasHandleTimeout \in BOOLEAN
    /\ timers \in Nat
    /\ tasks \in Seq(Tasks)
    /\ delivered \in [Watchers -> SUBSET DOMAIN kinds]
    /\ clears \in 0..MaxClears

Init ==
    /\ kinds = << >> /\ eventMap = {} /\ mapping = {}
    /\ observerSeq = [n \in Names |-> 0] /\ lastSeq = 0
    /\ watchers = [s \in ObserverSeqs |-> {}]
    /\ seqOf = [w \in Watchers |-> 0]
    /\ row = [w \in Watchers |-> 0] /\ waited = [w \in Watchers |-> 0]
    /\ batch = [w \in Watchers |-> {}] /\ freed = {}
    /\ hasHandleTimeout = FALSE /\ timers = 0
    /\ js = Idle /\ tasks = << >>
    /\ delivered = [w \in Watchers |-> {}]
    /\ clears = 0

-------------------------------------------------------------------------------
(* A watcher.                                                                *)

Verifies(w, e, ks) == ks[e] \in KindsOf[w]

Task(kind, w) == [kind |-> kind, watcher |-> w]

HasTimeoutCondition(w, rows) == TimeoutOf[w] > 0 /\ rows[w] > 0

\* SendEventsToObserver for the watchers ws, with the events es that pass their
\* filters: a receiver gets them in its context and a task, another counts
\* them one after the other.  (n events counted from r leave r + n, or restart
\* at every RowOf[w]-th.)
RowsAfter(w, n) == IF RowOf[w] > 0 THEN (row[w] + n) % RowOf[w] ELSE row[w] + n
TriggersAfter(w, n) == IF RowOf[w] > 0 THEN (row[w] + n) \div RowOf[w] ELSE 0

TasksFor(w, n) ==
    IF n = 0 THEN << >>
    ELSE IF w \in Receivers THEN << Task("receive", w) >>
    ELSE [i \in 1..TriggersAfter(w, n) |-> Task("trigger", w)]

SendEvents(ws, es, ks) ==
    LET mine == [w \in Watchers |-> {e \in es : w \in ws /\ Verifies(w, e, ks)}]
        n == [w \in Watchers |-> Cardinality(mine[w])]
        counts(w) == w \notin Receivers /\ n[w] > 0
    IN
    /\ batch' = [w \in Watchers |->
            IF w \in Receivers /\ n[w] > 0 THEN mine[w] ELSE batch[w]]
    /\ row' = [w \in Watchers |-> IF counts(w) THEN RowsAfter(w, n[w]) ELSE row[w]]
    /\ waited' = [w \in Watchers |->
            IF counts(w) /\ TriggersAfter(w, n[w]) > 0 THEN 0 ELSE waited[w]]
    /\ \E order \in SetToSeqs(ws) :
        tasks' = tasks \o FlattenSeq([i \in DOMAIN order |-> TasksFor(order[i], n[order[i]])])

\* SendEventToHandler, when some watcher needs the timer.
NeedsTimer(rows) == \E s \in Published : \E w \in watchers[s] : HasTimeoutCondition(w, rows)

\* Mutant of StartTimer: every event starts a timer.
StartTimerAlways(rows) ==
    IF NeedsTimer(rows)
    THEN timers' = timers + 1 /\ hasHandleTimeout' = TRUE
    ELSE UNCHANGED timerVars

StartTimer(rows) ==
    IF NeedsTimer(rows) /\ ~hasHandleTimeout
    THEN timers' = timers + 1 /\ hasHandleTimeout' = TRUE
    ELSE UNCHANGED timerVars


-------------------------------------------------------------------------------
(* The threads of the writer and of the timer.                               *)

\* WriteEvent, HandleEvents: store the event, map it to every watcher whose
\* filters it passes, then send it to them.
HandleEvents(kind) ==
    LET ks == Append(kinds, kind)
        e == Len(ks)
        ws == UNION {watchers[s] : s \in Published}
    IN
    /\ Len(kinds) < MaxEvents
    /\ Published # {}
    /\ kinds' = ks
    /\ eventMap' = eventMap \cup {e}
    /\ mapping' = mapping \cup {<<e, seqOf[w]>> : w \in {v \in ws : Verifies(v, e, ks)}}
    /\ SendEvents(ws, {e}, ks)
    /\ StartTimer(row')
    /\ UNCHANGED <<observerSeq, lastSeq, watchers, seqOf, freed, js, delivered, clears>>

\* Mutant of TimedOut: it misses those that have waited longer than they need.
TimedOutExactly(w) == TimeoutOf[w] > 0 /\ row[w] > 0 /\ waited[w] + 1 = TimeoutOf[w]

\* Who is triggered by one more step of time: ProcessTimeout.
TimedOut(w) == TimeoutOf[w] > 0 /\ row[w] > 0 /\ waited[w] + 1 >= TimeoutOf[w]


\* HandleTimeout.  (waited_ counts on without events; above the timeout nothing
\* distinguishes its values.)
HandleTimeout ==
    LET ws == UNION {watchers[s] : s \in Published}
        due == {w \in ws : TimedOut(w)}
    IN
    /\ timers > 0
    /\ row' = [w \in Watchers |-> IF w \in due THEN 0 ELSE row[w]]
    /\ waited' = [w \in Watchers |->
            IF w \in due THEN 0
            ELSE IF w \in ws /\ waited[w] < TimeoutOf[w] THEN waited[w] + 1 ELSE waited[w]]
    /\ \E order \in SetToSeqs(due) :
        tasks' = tasks \o [i \in DOMAIN order |-> Task("trigger", order[i])]
    /\ IF NeedsTimer(row')
       THEN UNCHANGED timerVars
       ELSE timers' = timers - 1 /\ hasHandleTimeout' = FALSE
    /\ UNCHANGED <<storeVars, watchers, seqOf, batch, freed, js, delivered, clears>>

-------------------------------------------------------------------------------
(* The JavaScript thread: watchers.                                          *)

\* QueryEvents: the events that are mapped to row s, unless one of them is gone.
Mapped(s) == {e \in DOMAIN kinds : <<e, s>> \in mapping}
Queried(s) == IF Mapped(s) \subseteq eventMap THEN Mapped(s) ELSE {}

\* The row of the watcher's name: QueryObserverSeq, or else InsertObserver.
RowOfName(w) == IF observerSeq[NameOf[w]] = 0 THEN lastSeq + 1 ELSE observerSeq[NameOf[w]]

\* RegisterObserver, before it takes observerMutex_: InitWatcher finds or makes
\* the row of the name, and sends its old events to the new watcher.
InitWatcher(w) ==
    LET s == RowOfName(w) IN
    /\ js = Idle
    /\ w \in Unused
    /\ seqOf' = [seqOf EXCEPT ![w] = s]
    /\ observerSeq' = [observerSeq EXCEPT ![NameOf[w]] = s]
    /\ lastSeq' = IF s > lastSeq THEN s ELSE lastSeq
    /\ SendEvents({w}, Queried(s), kinds)
    /\ js' = [at |-> "publish", watcher |-> w]
    /\ UNCHANGED <<kinds, eventMap, mapping, watchers, freed, timerVars, delivered, clears>>

\* The destructor of a watcher: its context is left to a task.
Dropped(ws) == tasks \o [i \in 1..Cardinality(ws) |-> Task("destroy", CHOOSE w \in ws : TRUE)]

\* ... and with observerMutex_: the watcher is published, in place of the one
\* the row had, which is destroyed.
PublishWatcher ==
    /\ js.at = "publish"
    /\ watchers' = [watchers EXCEPT ![seqOf[js.watcher]] = {js.watcher}]
    /\ tasks' = Dropped(watchers[seqOf[js.watcher]])
    /\ js' = Idle
    /\ UNCHANGED <<storeVars, seqOf, row, waited, batch, freed, timerVars, delivered, clears>>

\* UnregisterObserver(name): the row of the observer goes, not its mappings.
UnregisterObserver(n) ==
    LET s == observerSeq[n] IN
    /\ js = Idle
    /\ s \in Published
    /\ observerSeq' = [observerSeq EXCEPT ![n] = 0]
    /\ watchers' = [watchers EXCEPT ![s] = {}]
    /\ tasks' = Dropped(watchers[s])
    /\ UNCHANGED <<kinds, eventMap, mapping, lastSeq, seqOf, row, waited, batch, freed,
                   timerVars, js, delivered, clears>>

-------------------------------------------------------------------------------
(* The JavaScript thread: tasks, and the calls that clear.                   *)

\* onReceiveWork, first part: the callback is called with what the context holds
\* now; the writer may have put the next events there.
CallReceiver ==
    LET w == Head(tasks).watcher IN
    /\ js = Idle /\ tasks # << >> /\ Head(tasks).kind = "receive"
    /\ delivered' = [delivered EXCEPT ![w] = @ \cup batch[w]]
    /\ js' = [at |-> "unmap", watcher |-> w]
    /\ tasks' = Tail(tasks)
    /\ UNCHANGED <<storeVars, watcherVars, timerVars, clears>>

\* DeleteEventMappingSync: the context is read once more; DeleteEventMapping ...
UnmapEvents ==
    LET w == js.watcher IN
    /\ js.at = "unmap"
    /\ mapping' = mapping \ (batch[w] \X {seqOf[w]})
    /\ js' = [at |-> "delete", events |-> batch[w]]
    /\ UNCHANGED <<kinds, eventMap, observerSeq, lastSeq, watcherVars, timerVars, tasks,
                   delivered, clears>>

\* ... and DeleteEvent, whoever else the events are mapped to.
DeleteEvents ==
    /\ js.at = "delete"
    /\ eventMap' = eventMap \ js.events
    /\ js' = Idle
    /\ UNCHANGED <<kinds, mapping, observerSeq, lastSeq, watcherVars, timerVars, tasks,
                   delivered, clears>>

\* onTriggerWork: the callback gets the counts and the holder; it changes nothing here.
CallTrigger ==
    /\ js = Idle /\ tasks # << >> /\ Head(tasks).kind = "trigger"
    /\ tasks' = Tail(tasks)
    /\ UNCHANGED <<storeVars, watcherVars, timerVars, js, delivered, clears>>

\* The task of a destructor.
DestroyContext ==
    /\ js = Idle /\ tasks # << >> /\ Head(tasks).kind = "destroy"
    /\ freed' = freed \cup {Head(tasks).watcher}
    /\ tasks' = Tail(tasks)
    /\ UNCHANGED <<storeVars, watchers, seqOf, row, waited, batch, timerVars, js, delivered,
                   clears>>

\* ClearData: HandleClearUp restarts the counts of the watchers ...
HandleClearUp ==
    LET ws == UNION {watchers[s] : s \in Published} IN
    /\ js = Idle /\ clears < MaxClears
    /\ clears' = clears + 1
    /\ row' = [w \in Watchers |-> IF w \in ws THEN 0 ELSE row[w]]
    /\ waited' = [w \in Watchers |-> IF w \in ws THEN 0 ELSE waited[w]]
    /\ js' = [at |-> "clear"]
    /\ UNCHANGED <<storeVars, watchers, seqOf, batch, freed, timerVars, tasks, delivered>>

\* ... and ClearAllData empties the store; DeleteEventMapping, called without
\* events, deletes nothing.
ClearAllData ==
    /\ js.at = "clear"
    /\ eventMap' = {}
    /\ js' = Idle
    /\ UNCHANGED <<kinds, mapping, observerSeq, lastSeq, watcherVars, timerVars, tasks,
                   delivered, clears>>

RunTask == CallReceiver \/ UnmapEvents \/ DeleteEvents \/ CallTrigger \/ DestroyContext

JavaScript ==
    \/ \E w \in Watchers : InitWatcher(w)
    \/ PublishWatcher
    \/ \E n \in Names : UnregisterObserver(n)
    \/ RunTask
    \/ HandleClearUp
    \/ ClearAllData

Next ==
    \/ \E k \in Kinds : HandleEvents(k)
    \/ HandleTimeout
    \/ JavaScript

Spec == Init /\ [][Next]_vars

-------------------------------------------------------------------------------
(* Properties.                                                               *)

\* One timer serves all watchers: it runs exactly while the manager believes it
\* does, and never twice at once, however events, timeouts, removals and clears
\* follow each other.
OneTimer == timers = (IF hasHandleTimeout THEN 1 ELSE 0)

\* The manager, the store and the watcher agree on the row of each watcher that
\* is published, after any sequence of registrations under the same name and
\* removals.
EachNameOneRow ==
    \A s \in Published : \A w \in watchers[s] :
        /\ seqOf[w] = s
        /\ observerSeq[NameOf[w]] = s

\* The context of a watcher outlives the tasks that use it: its destruction is
\* sent after them, and nothing is sent for a watcher that is gone.
NoTaskAfterDestroy ==
    /\ \A i \in DOMAIN tasks : tasks[i].watcher \notin freed
    /\ \A i, j \in DOMAIN tasks :
        i < j /\ tasks[i].kind = "destroy" => tasks[j].watcher # tasks[i].watcher

\* What a watcher's context holds has been given to its callback or still has a
\* task that will: an event may be overwritten in the context by the next one,
\* but the last one gets through.
LastBatchDelivered ==
    \A w \in Receivers :
        \/ batch[w] \subseteq delivered[w]
        \/ \E i \in DOMAIN tasks : tasks[i] = Task("receive", w)

\* These together.
EventsSafe == OneTimer /\ EachNameOneRow /\ NoTaskAfterDestroy /\ LastBatchDelivered

\* As app_event_observer_mgr.cpp:141 has it, the store deletes "events not in
\* event mapping": an event that some observer has still to take is kept.
KeepsMappedEvents == \A m \in mapping : m[1] \in eventMap

\* A published watcher with a timeout that has counted an event is triggered, by
\* its rows or by the timer, or its counts are cleared, or it is removed; once
\* the timer runs.
TimeoutServed ==
    \A w \in {v \in Watchers : TimeoutOf[v] > 0} :
        (HasTimeoutCondition(w, row) /\ hasHandleTimeout /\ IsPublished(w))
            ~> (row[w] = 0 \/ ~IsPublished(w))

\* The timer's runner and the JavaScript thread go on.
FairSpec == Spec /\ WF_vars(HandleTimeout) /\ WF_vars(RunTask) /\ WF_vars(PublishWatcher)
================================================================================
