---------------------------- MODULE WindowListeners ----------------------------
(***************************************************************************)
(* Listeners of the events of windows (js_window_register_manager.cpp,        *)
(* js_window_listener.cpp).  A manager records the listeners of one JsWindow,  *)
(* but one manager is shared by the stages of all abilities                   *)
(* (g_listenerManager), and it tells listeners apart by their function alone.  *)
(* Windows are external: they keep the listeners and may refuse each call.     *)
(***************************************************************************)
EXTENDS Naturals, FiniteSets

CONSTANTS
    Windows,
    Managers,
    ManagerOf,      \* the manager that serves a window
    Functions,      \* of scripts
    MaxListeners,   \* bound on the listeners
    MaxEvents       \* bound on the events

Listeners == 1 .. MaxListeners
WindowEvents == {"foreground", "background"}

VARIABLES
    open,        \* external: the windows that are there
    windowOf,    \* per listener: the window it was made for
    function,    \* per listener
    made,        \* listeners made so far
    jsCbMap,     \* per manager: the listeners on record
    attached,    \* external: the listeners each window keeps
    state,       \* per listener: state_
    events,      \* events so far
    works,       \* work items that have not run
    asked,       \* history: per window, the functions that were registered and not removed
    mixed,       \* history: windows whose calls met those of another one in their manager
    strays       \* history: windows that have told a function not asked for

vars ==
    <<open, windowOf, function, made, jsCbMap, attached, state, events, works, asked, mixed, strays>>

TypeOK ==
    /\ open \subseteq Windows
    /\ windowOf \in [Listeners -> Windows] /\ function \in [Listeners -> Functions]
    /\ made \in 0 .. MaxListeners
    /\ jsCbMap \in [Managers -> SUBSET Listeners] /\ attached \in [Windows -> SUBSET Listeners]
    /\ state \in [Listeners -> {"initial", "shown", "hidden"}]
    /\ events \in 0 .. MaxEvents
    /\ works \subseteq [listener : Listeners, event : 1 .. MaxEvents]
    /\ asked \in [Windows -> SUBSET Functions]
    /\ mixed \subseteq Windows /\ strays \subseteq Windows

Init ==
    /\ open = Windows
    /\ windowOf = [l \in Listeners |-> CHOOSE w \in Windows : TRUE]
    /\ function = [l \in Listeners |-> CHOOSE f \in Functions : TRUE]
    /\ made = 0
    /\ jsCbMap = [m \in Managers |-> {}] /\ attached = [w \in Windows |-> {}]
    /\ state = [l \in Listeners |-> "initial"]
    /\ events = 0 /\ works = {}
    /\ asked = [w \in Windows |-> {}] /\ mixed = {} /\ strays = {}

-------------------------------------------------------------------------------
Recorded(w, f) == {l \in jsCbMap[ManagerOf[w]] : function[l] = f}

\* Mutant: a listener for every call.
NeverRegistered(w, f) == FALSE

\* IsCallbackRegistered: whichever window the function was registered for.
IsCallbackRegistered(w, f) == Recorded(w, f) # {}

\* RegisterListener.  A function on record is not registered again, and the script hears that
\* it was registered.
On(w, f) ==
    /\ w \in open /\ IsCallbackRegistered(w, f)
    /\ asked' = [asked EXCEPT ![w] = @ \cup {f}]
    /\ mixed' = mixed \cup {v \in {w} : \E l \in Recorded(w, f) : windowOf[l] # w}
    /\ UNCHANGED <<open, windowOf, function, made, jsCbMap, attached, state, events, works, strays>>

OnNew(w, f) ==
    /\ w \in open /\ ~IsCallbackRegistered(w, f) /\ made < MaxListeners
    /\ LET l == made + 1 IN
       /\ made' = l
       /\ windowOf' = [windowOf EXCEPT ![l] = w] /\ function' = [function EXCEPT ![l] = f]
       /\ \/ /\ attached' = [attached EXCEPT ![w] = @ \cup {l}]
             /\ jsCbMap' = [jsCbMap EXCEPT ![ManagerOf[w]] = @ \cup {l}]
             /\ asked' = [asked EXCEPT ![w] = @ \cup {f}]
          \/ UNCHANGED <<attached, jsCbMap, asked>>
    /\ UNCHANGED <<open, state, events, works, mixed, strays>>

\* A window that has not got the listener may call that a success or a failure.
Forget(w, gone) ==
    /\ attached' = [attached EXCEPT ![w] = @ \ gone]
    /\ jsCbMap' = [jsCbMap EXCEPT ![ManagerOf[w]] = @ \ gone]
    /\ asked' = [asked EXCEPT ![w] = @ \ {function[l] : l \in gone}]
    /\ mixed' = mixed \cup {windowOf[l] : l \in {k \in gone : windowOf[k] # w}}
    /\ UNCHANGED <<open, windowOf, function, made, state, events, works, strays>>

\* UnregisterListener with a function: its listener, unless the window refuses.
Off(w, f) ==
    /\ w \in open
    /\ \E l \in Recorded(w, f) : Forget(w, {l})

\* Without one: all listeners of the manager in turn, until the window refuses one.
OffAll(w) ==
    /\ w \in open
    /\ \E gone \in SUBSET jsCbMap[ManagerOf[w]] : gone # {} /\ Forget(w, gone)

-------------------------------------------------------------------------------
\* AfterForeground and AfterBackground: a listener is told of changes only.
StateAfter(e) == IF e = "foreground" THEN "shown" ELSE "hidden"

\* LifeCycleCallBack leaves a work item for each listener that this is news for.
Happen(w, e) ==
    /\ w \in open /\ events < MaxEvents
    /\ events' = events + 1
    /\ LET news == {l \in attached[w] : state[l] # StateAfter(e)} IN
       /\ state' = [l \in Listeners |-> IF l \in news THEN StateAfter(e) ELSE state[l]]
       /\ works' = works \cup {[listener |-> l, event |-> events'] : l \in news}
    /\ UNCHANGED <<open, windowOf, function, made, jsCbMap, attached, asked, mixed, strays>>

\* As long as a window or a manager has it.
Alive(l) == (\E w \in Windows : l \in attached[w]) \/ (\E m \in Managers : l \in jsCbMap[m])

\* A work item holds its listener weakly, and calls the function if it is there.
RunWork ==
    \E work \in works :
        LET l == work.listener IN
        /\ works' = works \ {work}
        /\ strays' = strays \cup
            {w \in {windowOf[l]} : w \in open /\ Alive(l) /\ function[l] \notin asked[w]}
        /\ UNCHANGED <<open, windowOf, function, made, jsCbMap, attached, state, events, asked, mixed>>

\* Without a call of its manager, which keeps its records.
Close(w) ==
    /\ w \in open /\ open' = open \ {w}
    /\ attached' = [attached EXCEPT ![w] = {}]
    /\ UNCHANGED <<windowOf, function, made, jsCbMap, state, events, works, asked, mixed, strays>>

Next ==
    \/ \E w \in Windows :
        \/ \E f \in Functions : On(w, f) \/ OnNew(w, f) \/ Off(w, f)
        \/ OffAll(w) \/ Close(w)
        \/ \E e \in WindowEvents : Happen(w, e)
    \/ RunWork

Spec == Init /\ [][Next]_vars

-------------------------------------------------------------------------------
\* A window has one listener for each function that scripts have registered and not removed,
\* and no other, whatever calls were refused; unless calls for it and for another window have met in
\* the manager of the stages.
AttachedAsAsked ==
    \A w \in open \ mixed :
        /\ {function[l] : l \in attached[w]} = asked[w]
        /\ Cardinality(attached[w]) = Cardinality(asked[w])

\* Once a function is removed, it is not told any more, of what happened before either.
NoStrays == strays \subseteq mixed
================================================================================
