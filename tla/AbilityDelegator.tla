---------------------------- MODULE AbilityDelegator ----------------------------
(***************************************************************************)
(* The test framework's AbilityDelegator and its JavaScript binding: tests   *)
(* register monitors, wait for abilities and stages, and ask for the state   *)
(* of abilities (ability_delegator.cpp, js_ability_delegator.cpp).           *)
(*                                                                          *)
(* A call of JavaScript parses its arguments at once, on the JavaScript      *)
(* thread; the rest is an asynchronous task, whose Execute runs on a thread  *)
(* of a pool and whose Complete runs on the JavaScript thread, in whatever   *)
(* order the tasks leave the pool.  A wait keeps its thread of the pool.     *)
(***************************************************************************)
EXTENDS Naturals, FiniteSets, Sequences

CONSTANTS
    Abilities,    \* instances of abilities
    Stages,       \* ability stages
    Monitors,     \* monitor objects of JavaScript
    StageMonitors,
    Watches,      \* the abilities or stages whose name a monitor has
    PoolSize,     \* threads that execute tasks
    MaxCalls,     \* bounds the calls of JavaScript
    Awaited       \* a test awaits a call before it makes another for its monitor

Subjects == Abilities \cup Stages
Calls == 1..MaxCalls

\* A native monitor is named after the call that made it.
Natives == Calls

VARIABLES
    life,          \* lifecycle state of each ability and stage
    properties,    \* abilityProperties_: the state on record for each full name, or "none"
    registered,    \* abilityMonitors_, abilityStageMonitors_
    record,        \* g_monitorRecord, g_stageMonitorRecord: native monitors of each object
    jsOf,          \* the monitor object of each native monitor
    matched,       \* matchedAbility_, matchedAbilityStage_
    abilityRecord, \* g_abilityRecordInfo: abilities that JavaScript can ask about
    task           \* the asynchronous tasks, in the order of the calls; a call that is refused
                   \* has an entry too, for the number of its native monitor

appVars == <<life, properties>>
monitorVars == <<registered, record, jsOf, matched>>
vars == <<appVars, monitorVars, abilityRecord, task>>

LifecycleStates == {"none", "started", "foreground", "background", "stopped"}

\* Waits for a thread of the pool; is in WaitForAbility; has been executed; is
\* resolved or rejected.
TaskPlaces == {"queued", "waiting", "executed", "resolved", "rejected"}
Tasks ==
    [kind : {"add", "remove", "wait", "top", "refused"}, native : Natives, place : TaskPlaces,
     box : SUBSET Subjects]

\* Types.
TypeOK ==
    /\ life \in [Subjects -> LifecycleStates]
    /\ properties \in [Abilities -> LifecycleStates]
    /\ registered \subseteq Natives
    /\ record \in [Monitors -> SUBSET Natives]
    /\ jsOf \in [Natives -> SUBSET Monitors]
    /\ matched \in [Natives -> SUBSET Subjects]
    /\ \A n \in Natives : Cardinality(matched[n]) <= 1
    /\ \A m \in Monitors : Cardinality(record[m]) <= 1 /\ \A n \in record[m] : m \in jsOf[n]
    /\ abilityRecord \subseteq Abilities
    /\ task \in Seq(Tasks) /\ Len(task) <= MaxCalls

Init ==
    /\ life = [s \in Subjects |-> "none"]
    /\ properties = [a \in Abilities |-> "none"]
    /\ registered = {}
    /\ record = [m \in Monitors |-> {}]
    /\ jsOf = [n \in Natives |-> {}]
    /\ matched = [n \in Natives |-> {}]
    /\ abilityRecord = {}
    /\ task = << >>

Alive(s) == life[s] \notin {"none", "stopped"}

-------------------------------------------------------------------------------
(* Calls of JavaScript.  (The kind of a monitor decides which list and which *)
(* record are meant; the two work alike.)                                    *)

Pending(c) == task[c].place \in {"queued", "waiting", "executed"}

MayCall(m) ==
    /\ Len(task) < MaxCalls
    /\ Awaited => \A c \in DOMAIN task : Pending(c) => m \notin jsOf[task[c].native]

Schedule(kind, n, place) ==
    task' = Append(task, [kind |-> kind, native |-> n, place |-> place, box |-> {}])

NewNative == Len(task) + 1

\* ParseMonitorPara, ParseStageMonitorPara: n is the native monitor of m, the
\* one on record or a new one.
MonitorOf(m, n) ==
    \/ n \in record[m] /\ UNCHANGED jsOf
    \/ /\ record[m] = {}
       /\ n = NewNative
       /\ jsOf' = [jsOf EXCEPT ![n] = {m}]

CallWith(m, kind, place, recorded) ==
    /\ MayCall(m)
    /\ \E n \in Natives :
          /\ MonitorOf(m, n)
          /\ Schedule(kind, n, place)
          /\ record' = [record EXCEPT ![m] = IF recorded THEN {n} ELSE {}]
    /\ UNCHANGED <<appVars, registered, matched, abilityRecord>>

OnAddAbilityMonitor(m) == m \notin StageMonitors /\ CallWith(m, "add", "queued", TRUE)
OnAddAbilityStageMonitor(m) == m \in StageMonitors /\ CallWith(m, "add", "queued", TRUE)
OnWaitAbilityMonitor(m) == m \notin StageMonitors /\ CallWith(m, "wait", "queued", TRUE)
OnWaitAbilityStageMonitor(m) == m \in StageMonitors /\ CallWith(m, "wait", "queued", TRUE)

\* The record goes at once, the registration with the task.
OnRemoveAbilityMonitor(m) == m \notin StageMonitors /\ CallWith(m, "remove", "queued", FALSE)
OnRemoveAbilityStageMonitor(m) == m \in StageMonitors /\ CallWith(m, "remove", "queued", FALSE)

\* Any of the calls for a monitor of an ability, when its second argument is not what it should
\* be: ParseMonitorPara has recorded the monitor before ParseAbilityMonitorPara or
\* ParseWaitAbilityMonitorPara finds out, and nothing is scheduled.  (The monitor of a stage is
\* recorded after its arguments were parsed: such a call leaves nothing.)
CallIsRefused(m) == m \notin StageMonitors /\ CallWith(m, "refused", "rejected", TRUE)

\* getCurrentTopAbility, and like it the calls that only ask the platform.
OnGetCurrentTopAbility ==
    /\ Len(task) < MaxCalls
    /\ Schedule("top", NewNative, "queued")
    /\ UNCHANGED <<appVars, monitorVars, abilityRecord>>

-------------------------------------------------------------------------------
(* Tasks. *)

Move(c, place) == task' = [task EXCEPT ![c].place = place]

Busy == {c \in DOMAIN task : task[c].place = "waiting"}

\* A thread of the pool executes a task.  WaitAbilityMonitor registers the
\* monitor and waits; the other tasks do nothing there.
Execute(c) ==
    /\ task[c].place = "queued"
    /\ Cardinality(Busy) < PoolSize
    /\ \/ /\ task[c].kind = "wait"
          /\ registered' = registered \cup {task[c].native}
          /\ Move(c, "waiting")
       \/ /\ task[c].kind # "wait"
          /\ Move(c, "executed")
          /\ UNCHANGED registered
    /\ UNCHANGED <<appVars, record, jsOf, matched, abilityRecord>>

\* Mutant: WaitForAbility has no timeout.
WaitForMatch(c) ==
    /\ task[c].place = "waiting" /\ matched[task[c].native] # {}
    /\ LET found == matched[task[c].native]
       IN  /\ task' = [task EXCEPT ![c].place = "executed", ![c].box = found]
           /\ abilityRecord' = abilityRecord \cup (found \cap Abilities)
    /\ UNCHANGED <<appVars, monitorVars>>

\* WaitForAbility returns, because of a match, of this or an earlier one, or of
\* its timeout, and what it found is put on record, unless it has gone.
WaitEnds(c) ==
    /\ task[c].place = "waiting"
    /\ LET found == {s \in matched[task[c].native] : life[s] # "stopped"}
       IN  /\ task' = [task EXCEPT ![c].place = "executed", ![c].box = found]
           /\ abilityRecord' = abilityRecord \cup (found \cap Abilities)
    /\ UNCHANGED <<appVars, monitorVars>>

CompleteWait(c) ==
    /\ task[c].place = "executed" /\ task[c].kind = "wait"
    /\ Move(c, IF \E s \in task[c].box : Alive(s) THEN "resolved" ELSE "rejected")
    /\ UNCHANGED <<appVars, monitorVars, abilityRecord>>

\* Complete of addAbilityMonitor and of removeAbilityMonitor.
CompleteAdd(c) ==
    /\ task[c].place = "executed" /\ task[c].kind = "add"
    /\ registered' = registered \cup {task[c].native}
    /\ Move(c, "resolved")
    /\ UNCHANGED <<appVars, record, jsOf, matched, abilityRecord>>

CompleteRemove(c) ==
    /\ task[c].place = "executed" /\ task[c].kind = "remove"
    /\ registered' = registered \ {task[c].native}
    /\ Move(c, "resolved")
    /\ UNCHANGED <<appVars, record, jsOf, matched, abilityRecord>>

\* The platform names an ability or none; its property may be missing or may
\* outlive it.
CompleteTop(c) ==
    /\ task[c].place = "executed" /\ task[c].kind = "top"
    /\ \/ /\ \E a \in Abilities :
                /\ properties[a] # "none" /\ Alive(a)
                /\ abilityRecord' = abilityRecord \cup {a}
                /\ task' = [task EXCEPT ![c].place = "resolved", ![c].box = {a}]
       \/ Move(c, "rejected") /\ UNCHANGED abilityRecord
    /\ UNCHANGED <<appVars, monitorVars>>

-------------------------------------------------------------------------------
(* The lifecycle of abilities and stages, on the JavaScript thread. *)

\* Mutant: a property that exists is not updated.
RecordedOnce(a, state) == [properties EXCEPT ![a] = IF @ = "none" THEN state ELSE @]

\* ProcessAbilityProperties
Recorded(a, state) == [properties EXCEPT ![a] = state]

Matching(s) == {n \in registered : \E m \in jsOf[n] : s \in Watches[m]}

\* Match with notify set: each monitor that matches keeps the ability, for those
\* that wait for it and for those that will.
Match(s) == matched' = [n \in Natives |-> IF n \in Matching(s) THEN {s} ELSE matched[n]]

\* PostPerformStart
Start(a) ==
    /\ a \in Abilities /\ life[a] = "none"
    /\ life' = [life EXCEPT ![a] = "started"]
    /\ properties' = Recorded(a, "started")
    /\ Match(a)
    /\ UNCHANGED <<registered, record, jsOf, abilityRecord, task>>

\* PostPerformStageStart
StageStart(s) ==
    /\ s \in Stages /\ life[s] = "none"
    /\ life' = [life EXCEPT ![s] = "started"]
    /\ Match(s)
    /\ UNCHANGED <<properties, registered, record, jsOf, abilityRecord, task>>

\* PostPerformScenceCreated when a window stage is new, and PostPerformForeground.
Foreground(a) ==
    /\ a \in Abilities /\ life[a] \in {"started", "background"}
    /\ life' = [life EXCEPT ![a] = "foreground"]
    /\ properties' = Recorded(a, "foreground")
    /\ UNCHANGED <<monitorVars, abilityRecord, task>>

\* PostPerformBackground
Background(a) ==
    /\ a \in Abilities /\ life[a] = "foreground"
    /\ life' = [life EXCEPT ![a] = "background"]
    /\ properties' = Recorded(a, "background")
    /\ UNCHANGED <<monitorVars, abilityRecord, task>>

OfStages == {n \in Natives : jsOf[n] \subseteq StageMonitors}

\* PostPerformScenceDestroyed and PostPerformStop; then the ability object goes.
\* Without ability monitors the property and the record stay.
Stop(a) ==
    /\ a \in Abilities /\ Alive(a)
    /\ life' = [life EXCEPT ![a] = "stopped"]
    /\ \/ /\ registered \subseteq OfStages
          /\ properties' = Recorded(a, "stopped")
          /\ UNCHANGED abilityRecord
       \/ /\ ~(registered \subseteq OfStages)
          /\ properties' = Recorded(a, "none")
          /\ abilityRecord' = abilityRecord \ {a}
    /\ UNCHANGED <<monitorVars, task>>

-------------------------------------------------------------------------------
Next ==
    \/ \E m \in Monitors :
          \/ OnAddAbilityMonitor(m) \/ OnAddAbilityStageMonitor(m)
          \/ OnRemoveAbilityMonitor(m) \/ OnRemoveAbilityStageMonitor(m)
          \/ OnWaitAbilityMonitor(m) \/ OnWaitAbilityStageMonitor(m)
          \/ CallIsRefused(m)
    \/ OnGetCurrentTopAbility
    \/ \E c \in DOMAIN task :
          \/ Execute(c) \/ WaitEnds(c)
          \/ CompleteWait(c) \/ CompleteAdd(c) \/ CompleteRemove(c) \/ CompleteTop(c)
    \/ \E s \in Subjects :
          Start(s) \/ StageStart(s) \/ Foreground(s) \/ Background(s) \/ Stop(s)

Spec == Init /\ [][Next]_vars

\* A task that has a thread goes on, and the JavaScript thread completes it.
Progress(c) ==
    /\ c \in DOMAIN task
    /\ \/ Execute(c) \/ WaitEnds(c)
       \/ CompleteWait(c) \/ CompleteAdd(c) \/ CompleteRemove(c) \/ CompleteTop(c)

-------------------------------------------------------------------------------
(* What the delegator promises. *)

\* A native monitor was to be registered: by a call that was not refused.
Asked(n) == \E c \in DOMAIN task : task[c].native = n /\ task[c].kind \in {"add", "wait"}

\* When no call is under way for a monitor object, its native monitor is
\* registered if and only if it is on record and not just because calls were
\* refused, and no other is: it is told of each event once, and of none after
\* it was removed.  (Only for tests that await their calls: tasks leave the
\* pool in any order, and a wait registers its monitor from there.)
RegisteredAsRecorded ==
    \A m \in Monitors :
        (\A c \in DOMAIN task : m \in jsOf[task[c].native] => ~Pending(c)) =>
            {n \in registered : m \in jsOf[n]} = {n \in record[m] : Asked(n)}

\* The delegator answers with the state of the ability; what it keeps of one
\* that has stopped says so.
PropertiesAgree ==
    \A a \in Abilities :
        /\ properties[a] # "none" => properties[a] = life[a]
        /\ Alive(a) => properties[a] # "none"

\* Both.
DelegatorSafe == RegisteredAsRecorded /\ PropertiesAgree

\* Every call settles, although waits may keep every thread of the pool.
CallsSettle == \A c \in Calls : c \in DOMAIN task ~> (c \in DOMAIN task /\ ~Pending(c))
=============================================================================
