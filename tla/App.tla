----------------------------------- MODULE App -----------------------------------
(***************************************************************************)
(* The lifecycle of abilities, and beside it what tells scripts of events:   *)
(* the listeners of the context, of windows and of displays, each with its   *)
(* own state and constants.                                                  *)
(***************************************************************************)
EXTENDS AppLifecycle

CONSTANTS
    StateFunctions, MaxRegistrations, MaxHappenings,           \* ContextListeners
    EventWindows, EventManagers, EventManagerOf,               \* WindowListeners
    WindowFunctions, MaxWindowListeners, MaxWindowEvents,
    DisplayTypes, DisplayFunctions, MaxDisplayListeners, MaxDisplayEvents

VARIABLES
    serialNumber, lifecycleListeners, object, objects, registered, stateListeners,
    works, happened, there, removed, told, failing,
    open, windowOf, windowFunction, windowListeners, windowCbMap, attached, state_, windowEvents,
    windowWorkItems, asked, mixed, strays,
    displayType, displayFunction, displayListeners, displayCbMap, callbacks, kept, agent,
    displayEvents, telling, displayTasks, displayCalling, stuck, due, displayTold

listenersVars ==
    <<serialNumber, lifecycleListeners, object, objects, registered, stateListeners,
      works, happened, there, removed, told, failing>>
eventVars ==
    <<open, windowOf, windowFunction, windowListeners, windowCbMap, attached, state_, windowEvents,
      windowWorkItems, asked, mixed, strays>>
displayVars ==
    <<displayType, displayFunction, displayListeners, displayCbMap, callbacks, kept, agent,
      displayEvents, telling, displayTasks, displayCalling, stuck, due, displayTold>>

Listeners == INSTANCE ContextListeners WITH
    Functions <- StateFunctions, MaxEvents <- MaxHappenings,
    lifecycle <- lifecycleListeners, state <- stateListeners

\* A window that is alone with its manager is the case where the other one does nothing.
WindowEvents == INSTANCE WindowListeners WITH
    Windows <- EventWindows, Managers <- EventManagers, ManagerOf <- EventManagerOf,
    Functions <- WindowFunctions, MaxListeners <- MaxWindowListeners, MaxEvents <- MaxWindowEvents,
    function <- windowFunction, made <- windowListeners, jsCbMap <- windowCbMap, state <- state_,
    events <- windowEvents, works <- windowWorkItems

Displays == INSTANCE DisplayListeners WITH
    Types <- DisplayTypes, Functions <- DisplayFunctions,
    MaxListeners <- MaxDisplayListeners, MaxEvents <- MaxDisplayEvents,
    type <- displayType, function <- displayFunction, made <- displayListeners,
    jsCbMap <- displayCbMap, listeners <- kept, events <- displayEvents, tasks <- displayTasks,
    calling <- displayCalling, told <- displayTold

\* Whoever is registered when an event of the application happens is told of it, once, unless a
\* listener that could not be called or threw silences it; windows and displays tell the
\* functions that are registered, and no others.
ListenersTold ==
    /\ Listeners!TypeOK /\ Listeners!ListenersTold
    /\ WindowEvents!TypeOK /\ WindowEvents!AttachedAsAsked /\ WindowEvents!NoStrays
    /\ Displays!TypeOK /\ Displays!DisplaysHold
=================================================================================
