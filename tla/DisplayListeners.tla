--------------------------- MODULE DisplayListeners ----------------------------
(***************************************************************************)
(* Listeners of displays (js_display_manager.cpp, js_display_listener.cpp and *)
(* dm/src/display_manager.cpp).  The platform tells the display manager on a  *)
(* thread of its own, from a copy of the listeners; each leaves a task for     *)
(* the JavaScript thread, and keeps its lock while the script runs.           *)
(***************************************************************************)
EXTENDS Naturals, SequencesExt

CONSTANTS
    Types,          \* of listeners
    Functions,      \* of scripts
    MaxListeners,   \* bound on the listeners
    MaxEvents       \* bound on the events

Listeners == 1 .. MaxListeners
NoListener == 0

\* What DisplayManager keeps listeners for; it does nothing about those of display modes.
Kept == {"display", "fold"}
KindOf(t) ==
    CASE t \in {"add", "remove", "change"} -> "display"
      [] t = "foldStatusChange" -> "fold"
      [] OTHER -> "mode"

VARIABLES
    type,         \* per listener
    function,     \* per listener
    made,         \* listeners made so far
    jsCbMap,      \* the listeners on record
    callbacks,    \* listeners whose jsCallBack_ has the function
    listeners,    \* displayListeners_ and foldStatusListeners_
    agent,        \* external: what the platform has been asked to tell
    events,       \* events so far
    telling,      \* the copy that the platform's thread goes through, and the event
    tasks,        \* of the JavaScript thread
    calling,      \* the listener whose function runs: its mtx_ is held
    stuck,        \* the JavaScript thread waits for a lock that it holds
    due,          \* history: listeners and the events that happened while they were there
    told          \* history: listeners and the events they have told

vars ==
    <<type, function, made, jsCbMap, callbacks, listeners, agent, events, telling, tasks, calling,
      stuck, due, told>>

Notes == [listener : Listeners, event : 1 .. MaxEvents, type : Types]

TypeOK ==
    /\ type \in [Listeners -> Types] /\ function \in [Listeners -> Functions]
    /\ made \in 0 .. MaxListeners
    /\ jsCbMap \subseteq Listeners /\ callbacks \subseteq Listeners
    /\ listeners \in [Kept -> SUBSET Listeners] /\ agent \subseteq Kept
    /\ events \in 0 .. MaxEvents
    /\ telling \subseteq Notes /\ tasks \in Seq(Notes)
    /\ calling \in Listeners \cup {NoListener} /\ stuck \in BOOLEAN
    /\ due \subseteq Notes /\ told \subseteq Notes

Init ==
    /\ type = [l \in Listeners |-> CHOOSE t \in Types : TRUE]
    /\ function = [l \in Listeners |-> CHOOSE f \in Functions : TRUE]
    /\ made = 0 /\ jsCbMap = {} /\ callbacks = {}
    /\ listeners = [k \in Kept |-> {}] /\ agent = {}
    /\ events = 0 /\ telling = {} /\ tasks = << >>
    /\ calling = NoListener /\ stuck = FALSE /\ due = {} /\ told = {}

-------------------------------------------------------------------------------
(* Scripts, also from the function of a listener *)

Recorded(t, f) == {l \in jsCbMap : type[l] = t /\ function[l] = f}

\* RegisterDisplayListenerWithType, for a function that IsCallbackRegistered does not find.
On(t, f) ==
    /\ ~stuck /\ Recorded(t, f) = {} /\ made < MaxListeners
    /\ LET l == made + 1 IN
       /\ made' = l
       /\ type' = [type EXCEPT ![l] = t] /\ function' = [function EXCEPT ![l] = f]
       /\ listeners' = [k \in Kept |-> listeners[k] \cup {x \in {l} : KindOf(t) = k}]
       /\ agent' = agent \cup (Kept \cap {KindOf(t)})
       /\ callbacks' = callbacks \cup {l} /\ jsCbMap' = jsCbMap \cup {l}
    /\ UNCHANGED <<events, telling, tasks, calling, stuck, due, told>>

\* Mutant: the platform is asked to stop one listener too early.
UnregisterButLast(gone) ==
    /\ listeners' = [k \in Kept |-> listeners[k] \ gone]
    /\ agent' = {k \in agent : Cardinality(listeners'[k]) > 1}

\* UnregisterDisplayListener and UnregisterFoldStatusListener, for listeners in turn.
Unregister(gone) ==
    /\ listeners' = [k \in Kept |-> listeners[k] \ gone]
    /\ agent' = {k \in agent : listeners'[k] # {}}

\* A listener whose function runs has its lock: who removes it from there waits for ever.
GiveUp(gone) ==
    /\ stuck' = (calling \in gone)
    /\ LET done == gone \ {calling} IN
       /\ Unregister(done)
       /\ callbacks' = callbacks \ done /\ jsCbMap' = jsCbMap \ done
    /\ UNCHANGED <<type, function, made, events, telling, tasks, calling, due, told>>

\* UnRegisterDisplayListenerWithType.
Off(t, f) == ~stuck /\ Recorded(t, f) # {} /\ GiveUp(Recorded(t, f))

\* UnregisterAllDisplayListenerWithType: all of the type, or those before the one that it
\* waits for.
OffAll(t) ==
    /\ ~stuck
    /\ LET all == {l \in jsCbMap : type[l] = t} IN
       \E gone \in SUBSET all :
            /\ gone # {} /\ (gone = all \/ calling \in gone)
            /\ GiveUp(gone)

-------------------------------------------------------------------------------
(* The platform *)

\* NotifyDisplayListenerCallback and NotifyFoldStatusChangeCallback take a copy, for an event
\* of type t.
Notify(t) ==
    /\ KindOf(t) \in agent /\ telling = {} /\ events < MaxEvents
    /\ events' = events + 1
    /\ telling' = [listener : listeners[KindOf(t)], event : {events'}, type : {t}]
    /\ due' = due \cup {note \in telling' : type[note.listener] = t}
    /\ UNCHANGED <<type, function, made, jsCbMap, callbacks, listeners, agent, tasks, calling, stuck, told>>

\* DispatchDisplayEvent and OnFoldStatusChanged wait for the lock of the listener, and leave a
\* task if its function is for the type.  (A task left after the function was removed would
\* call nothing.)
Tell ==
    \E note \in telling :
        /\ note.listener # calling
        /\ telling' = telling \ {note}
        /\ tasks' = IF note.listener \in callbacks /\ type[note.listener] = note.type
                    THEN Append(tasks, note) ELSE tasks
        /\ UNCHANGED <<type, function, made, jsCbMap, callbacks, listeners, agent, events, calling,
                       stuck, due, told>>

-------------------------------------------------------------------------------
(* The JavaScript thread *)

\* A task holds its listener weakly; the platform's thread holds those of its copy.
Alive(l) ==
    \/ l \in jsCbMap
    \/ \E k \in Kept : l \in listeners[k]
    \/ \E note \in telling : note.listener = l

\* Mutant: a listener that is there is called.
MayCallIfAlive(l) == Alive(l)

\* CallJsMethod calls what is still in jsCallBack_.
MayCall(l) == Alive(l) /\ l \in callbacks

RunTask ==
    /\ calling = NoListener /\ tasks # << >>
    /\ tasks' = Tail(tasks)
    /\ LET note == Head(tasks) IN
       IF MayCall(note.listener)
       THEN calling' = note.listener /\ told' = told \cup {note}
       ELSE UNCHANGED <<calling, told>>
    /\ UNCHANGED <<type, function, made, jsCbMap, callbacks, listeners, agent, events, telling, stuck, due>>

Return ==
    /\ calling # NoListener /\ ~stuck /\ calling' = NoListener
    /\ UNCHANGED <<type, function, made, jsCbMap, callbacks, listeners, agent, events, telling, tasks,
                   stuck, due, told>>

Next ==
    \/ \E t \in Types :
        \/ \E f \in Functions : On(t, f) \/ Off(t, f)
        \/ OffAll(t) \/ Notify(t)
    \/ Tell \/ RunTask \/ Return

Spec == Init /\ [][Next]_vars

-------------------------------------------------------------------------------
\* The platform tells of displays as long as a function is on record for them, and the manager
\* keeps those listeners and no others.
PlatformTells ==
    \A k \in Kept :
        /\ listeners[k] = {l \in jsCbMap : KindOf(type[l]) = k}
        /\ k \in agent <=> listeners[k] # {}

\* A function that runs has not been removed, whatever was told before it was.
OnlyRegistered == calling # NoListener => calling \in jsCbMap

\* Nothing that happens while a function is on record passes it by.
NothingMissed ==
    \A note \in due \ told :
        note.listener \in jsCbMap => note \in telling \cup ToSet(tasks)

DisplaysHold == PlatformTells /\ OnlyRegistered /\ NothingMissed
================================================================================
