---------------------------- MODULE ContextListeners ----------------------------
(***************************************************************************)
(* The listeners that scripts register with the context of the application: *)
(* of the lifecycle of abilities, which on numbers and off removes with a   *)
(* task, and of the state of the application, which off removes at once.    *)
(* An event is not told where it happens: it leaves a work item with a copy *)
(* of the listeners there are, and the engine runs its work items in no     *)
(* particular order.  Nothing checks what scripts register: a listener may  *)
(* lack the method of an event, or throw.                                   *)
(***************************************************************************)
EXTENDS Naturals

CONSTANTS
    Functions,        \* the listeners that scripts have for the state of the application
    MaxRegistrations, \* bounds the registrations, far below the INT32_MAX of serialNumber_
    MaxEvents         \* bounds the events, of abilities and of the application

Registrations == 0 .. MaxRegistrations - 1
Events == 1 .. MaxEvents

VARIABLES
    serialNumber, \* serialNumber_; the references of the state's listeners are numbered too
    lifecycle,    \* callbacks_ of the JsAbilityLifecycleCallback
    object,       \* the current JsApplicationStateChangeCallback, by number; 0 if it is null
    objects,      \* how many there have been
    registered,   \* applicationStateCallback_ of the context, which has each of these once
    state,        \* callbacks_ of the current one: references to functions
    works,        \* the work items that have not run
    happened,     \* how many events there have been
    there,        \* per event: who was registered then
    removed,      \* who has been removed since
    told,         \* per event and registration: how often it was told
    failing       \* per event: listeners that could not be called or threw, and of which kind

vars == <<serialNumber, lifecycle, object, objects, registered, state, works, happened, there,
          removed, told, failing>>
listenerVars == <<serialNumber, lifecycle, object, objects, registered, state>>
eventVars == <<happened, there, told, failing>>

References == [number : Registrations, function : Functions]
Works ==
    [kind : {"ability"}, event : Events, to : SUBSET Registrations]
        \cup [kind : {"state"}, object : Nat, event : Events, to : SUBSET Registrations]
        \cup [kind : {"off"}, number : Registrations]
Failures == [kind : {"ability", "state"}, number : Registrations]

TypeOK ==
    /\ serialNumber \in 0 .. MaxRegistrations
    /\ lifecycle \in SUBSET Registrations
    /\ object \in 0 .. objects /\ objects \in Nat
    /\ registered \in SUBSET (1 .. objects)
    /\ state \in SUBSET References /\ (object = 0 => state = {})
    /\ works \in SUBSET Works
    /\ happened \in 0 .. MaxEvents
    /\ there \in [Events -> SUBSET Registrations]
    /\ removed \in SUBSET Registrations
    /\ told \in [Events \X Registrations -> Nat]
    /\ failing \in [Events -> SUBSET Failures]

Init ==
    /\ serialNumber = 0 /\ lifecycle = {}
    /\ object = 0 /\ objects = 0 /\ registered = {} /\ state = {}
    /\ works = {} /\ happened = 0
    /\ there = [e \in Events |-> {}] /\ removed = {}
    /\ told = [x \in Events \X Registrations |-> 0]
    /\ failing = [e \in Events |-> {}]

Numbers(refs) == {r.number : r \in refs}

-------------------------------------------------------------------------------
(* Scripts *)

\* OnOnAbilityLifecycle: Register.
OnAbilityLifecycle ==
    /\ serialNumber < MaxRegistrations
    /\ lifecycle' = lifecycle \cup {serialNumber}
    /\ serialNumber' = serialNumber + 1
    /\ UNCHANGED <<object, objects, registered, state, works, removed, eventVars>>

\* OnOffAbilityLifecycle leaves the removal to a work item.
OffAbilityLifecycle(n) ==
    /\ n < serialNumber
    /\ works' = works \cup {[kind |-> "off", number |-> n]}
    /\ UNCHANGED <<listenerVars, removed, eventVars>>

\* OnOnApplicationStateChange, with a new object if there is none.
OnApplicationStateChange(f) ==
    /\ serialNumber < MaxRegistrations
    /\ serialNumber' = serialNumber + 1
    /\ state' = state \cup {[number |-> serialNumber, function |-> f]}
    /\ IF object # 0 THEN UNCHANGED <<object, objects, registered>>
       ELSE /\ objects' = objects + 1 /\ object' = objects + 1
            /\ registered' = registered \cup {objects + 1}
    /\ UNCHANGED <<lifecycle, works, removed, eventVars>>

\* Mutant: the object is given up with the first listener.
GiveUpAlways(rest) == object' = 0 /\ registered' = registered \ {object} /\ state' = {}

\* The listeners that are left: without any, the object is unregistered and given up.
GiveUpIfEmpty(rest) ==
    /\ state' = rest
    /\ IF rest = {} THEN object' = 0 /\ registered' = registered \ {object}
       ELSE UNCHANGED <<object, registered>>

\* OnOffApplicationStateChange with a function: one of its references.
OffApplicationStateChange(f) ==
    /\ object # 0
    /\ \E r \in state :
        /\ r.function = f
        /\ GiveUpIfEmpty(state \ {r})
        /\ removed' = removed \cup {r.number}
    /\ UNCHANGED <<serialNumber, lifecycle, objects, works, eventVars>>

\* And without one.
OffAllApplicationStateChange ==
    /\ object # 0
    /\ GiveUpIfEmpty({})
    /\ removed' = removed \cup Numbers(state)
    /\ UNCHANGED <<serialNumber, lifecycle, objects, works, eventVars>>

-------------------------------------------------------------------------------
(* Events, and the work items they leave *)

\* DispatchOnAbilityCreate and the like, once scripts have asked for them.
DispatchOnAbility ==
    /\ happened < MaxEvents
    /\ happened' = happened + 1
    /\ there' = [there EXCEPT ![happened + 1] = lifecycle]
    /\ works' = works \cup {[kind |-> "ability", event |-> happened + 1, to |-> lifecycle]}
    /\ UNCHANGED <<listenerVars, removed, told, failing>>

\* NotifyApplicationForeground and NotifyApplicationBackground.
NotifyApplication ==
    /\ happened < MaxEvents
    /\ happened' = happened + 1
    /\ there' = [there EXCEPT ![happened + 1] = Numbers(state)]
    /\ works' = works \cup
        {[kind |-> "state", object |-> o, event |-> happened + 1,
          to |-> IF o = object THEN Numbers(state) ELSE {}] : o \in registered}
    /\ UNCHANGED <<listenerVars, removed, told, failing>>

\* CallJsMethodInnerCommon calls those of `reached`; `bad` are the reason for leaving out others.
Tell(w, reached, bad) ==
    /\ told' = [x \in DOMAIN told |->
                  IF x[1] = w.event /\ x[2] \in reached THEN told[x] + 1 ELSE told[x]]
    /\ failing' = [failing EXCEPT ![w.event] = @ \cup [kind : {w.kind}, number : bad]]

\* In the order of their numbers.  The loop returns at the first listener q that is no object or
\* lacks the method; if q throws, the engine refuses the calls that follow, if any.
RunAbilityWork(w) ==
    /\ w.kind = "ability"
    /\ \/ Tell(w, w.to, {})
       \/ \E q \in w.to : Tell(w, {n \in w.to : n < q}, {q})
       \/ \E q, next \in w.to : q < next /\ Tell(w, {n \in w.to : n <= q}, {q})
    /\ UNCHANGED <<listenerVars, removed, there, happened>>

\* The state's listeners are told if their object is still there: registered, or current.  They
\* come in the order of their addresses, and the loop goes on past one that cannot be called.
RunStateWork(w) ==
    /\ w.kind = "state"
    /\ IF w.object \in registered \cup {object}
       THEN \E reached \in SUBSET w.to :
               \/ Tell(w, reached, w.to \ reached)
               \/ reached # w.to /\ \E q \in reached : Tell(w, reached, {q})
       ELSE UNCHANGED <<told, failing>>
    /\ UNCHANGED <<listenerVars, removed, there, happened>>

\* UnRegister, if the number is still there.
RunOffWork(w) ==
    /\ w.kind = "off"
    /\ lifecycle' = lifecycle \ {w.number}
    /\ removed' = removed \cup ({w.number} \cap lifecycle)
    /\ UNCHANGED <<serialNumber, object, objects, registered, state, eventVars>>

RunWork ==
    \E w \in works :
        /\ works' = works \ {w}
        /\ RunAbilityWork(w) \/ RunStateWork(w) \/ RunOffWork(w)

Next ==
    \/ OnAbilityLifecycle
    \/ \E n \in Registrations : OffAbilityLifecycle(n)
    \/ \E f \in Functions : OnApplicationStateChange(f) \/ OffApplicationStateChange(f)
    \/ OffAllApplicationStateChange
    \/ DispatchOnAbility \/ NotifyApplication \/ RunWork

Spec == Init /\ [][Next]_vars

-------------------------------------------------------------------------------
\* A work item that will tell r of event e: it has an object that is still there.
WillTell(w, e, r) ==
    /\ w.kind # "off" /\ w.event = e /\ r \in w.to
    /\ w.kind = "state" => w.object \in registered \cup {object}

\* A listener of e that failed is why r is not told of it: it is r itself, or one of an ability's
\* event before r, or one of the state that was called and threw.
Silenced(e, r) ==
    \E x \in failing[e] :
        \/ x.number = r
        \/ x.kind = "ability" /\ x.number < r
        \/ x.kind = "state" /\ told[<<e, x.number>>] = 1

\* However listeners come and go while events are on their way to them, each is told of an
\* event at most once, and only of those that happened while it was registered; and unless it
\* was removed since, it has been told or will be, or a listener that could not be called or
\* threw has silenced it.  (One that was removed may still be told.)
ListenersTold ==
    \A e \in Events, r \in Registrations :
        /\ told[<<e, r>>] <= IF r \in there[e] THEN 1 ELSE 0
        /\ r \in there[e] \ removed =>
            told[<<e, r>>] = 1 \/ Silenced(e, r) \/ \E w \in works : WillTell(w, e, r)
================================================================================
