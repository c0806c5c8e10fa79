------------------------------- MODULE JsWindows -------------------------------
(***************************************************************************)
(* The JavaScript objects of windows (js_window.cpp, js_window_manager.cpp,   *)
(* js_window_stage.cpp).  g_jsWindowMap finds the object of a window by the   *)
(* name of the window, so that there is one; what a script asks of a window   *)
(* is done by a work item, which holds the window weakly.  Windows are        *)
(* external, and so are the engine's work items and its garbage collector.    *)
(***************************************************************************)
EXTENDS Naturals, FiniteSets, Functions

CONSTANTS
    Names,        \* of windows; those that are open have names of their own
    MaxWindows,   \* bound on the windows
    MaxObjects,   \* bound on the objects
    MaxCalls      \* bound on the calls that leave a work item

Windows == 1 .. MaxWindows
Objects == 1 .. MaxObjects
NoWindow == 0
NoObject == 0

VARIABLES
    window,       \* external, per window: "none", "open" or "closed"
    name,         \* external, per window
    listening,    \* external: windows that tell when they are destroyed
    object,       \* per object: "none", "live" or "freed"
    windowToken,  \* per object: windowToken_
    jsWindowMap,  \* g_jsWindowMap: per name, the object it refers to
    held,         \* external: objects that scripts still refer to
    calls,        \* calls so far
    works,        \* the work items that have not run
    detached,     \* history: windows that have lost their entry of the map and stayed open
    dangling      \* history: windows whose object was written to after its end

vars ==
    <<window, name, listening, object, windowToken, jsWindowMap, held, calls, works, detached, dangling>>

Works == [call : 1 .. MaxCalls, kind : {"change", "destroy"}, this : Objects, weak : Windows \cup {NoWindow}]

TypeOK ==
    /\ window \in [Windows -> {"none", "open", "closed"}] /\ name \in [Windows -> Names]
    /\ listening \subseteq Windows
    /\ object \in [Objects -> {"none", "live", "freed"}]
    /\ windowToken \in [Objects -> Windows \cup {NoWindow}]
    /\ jsWindowMap \in [Names -> Objects \cup {NoObject}]
    /\ held \subseteq Objects
    /\ calls \in 0 .. MaxCalls /\ works \subseteq Works
    /\ detached \subseteq Windows /\ dangling \subseteq Windows

Init ==
    /\ window = [w \in Windows |-> "none"] /\ name \in [Windows -> Names]
    /\ listening = {}
    /\ object = [o \in Objects |-> "none"] /\ windowToken = [o \in Objects |-> NoWindow]
    /\ jsWindowMap = [n \in Names |-> NoObject] /\ held = {}
    /\ calls = 0 /\ works = {} /\ detached = {} /\ dangling = {}

-------------------------------------------------------------------------------
ObjectsOf(w) == {o \in Objects : object[o] = "live" /\ windowToken[o] = w}

\* RemoveJsWindowObject: the entry goes, whichever window of the name it is for.
RemoveJsWindowObject(n) ==
    /\ jsWindowMap' = [jsWindowMap EXCEPT ![n] = NoObject]
    /\ detached' = detached \cup
        {w \in Windows : window'[w] = "open" /\ jsWindowMap[n] \in ObjectsOf(w)}

\* Mutant: an object for every call.
NeverFind(n) == NoObject

FindJsWindowObject(n) == jsWindowMap[n]

\* CreateJsWindowObject, for getMainWindow, getLastWindow, findWindow and createSubWindow: the
\* object of the name, or a new one.
GetWindow(w) ==
    /\ window[w] = "open"
    /\ LET found == FindJsWindowObject(name[w]) IN
       IF found # NoObject
       THEN held' = held \cup {found} /\ UNCHANGED <<listening, object, windowToken, jsWindowMap>>
       ELSE \E o \in Objects :
                /\ o = Cardinality({p \in Objects : object[p] # "none"}) + 1
                /\ object' = [object EXCEPT ![o] = "live"]
                /\ windowToken' = [windowToken EXCEPT ![o] = w]
                /\ listening' = listening \cup {w}
                /\ jsWindowMap' = [jsWindowMap EXCEPT ![name[w]] = o]
                /\ held' = held \cup {o}
    /\ UNCHANGED <<window, name, calls, works, detached, dangling>>

Leave(kind, o) ==
    /\ o \in held /\ calls < MaxCalls
    /\ calls' = calls + 1
    /\ works' = works \cup {[call |-> calls + 1, kind |-> kind, this |-> o, weak |-> windowToken[o]]}
    /\ UNCHANGED <<window, name, listening, object, windowToken, jsWindowMap, held, detached, dangling>>

\* OnSetWindowBrightness and all others that change a property of the window.
Change(o) == Leave("change", o)

\* OnDestroyWindow.
DestroyWindow(o) == Leave("destroy", o)

\* The weak reference gives a window as long as it is open or an object still has it.
Locked(w) == w # NoWindow /\ (window[w] = "open" \/ ObjectsOf(w) # {})

\* The window is changed, or the promise rejected.
RunChange(work) ==
    /\ work.kind = "change"
    /\ UNCHANGED <<window, windowToken, jsWindowMap, detached, dangling>>

\* The promise is rejected: there is no window any more.
RunDestroyTooLate(work) ==
    /\ work.kind = "destroy" /\ ~Locked(work.weak)
    /\ UNCHANGED <<window, windowToken, jsWindowMap, detached, dangling>>

\* Destroy fails, after the entry of the window has been removed.
RunDestroyFails(work) ==
    /\ work.kind = "destroy" /\ Locked(work.weak)
    /\ UNCHANGED <<window, windowToken, dangling>>
    /\ RemoveJsWindowObject(name[work.weak])

\* The object gives the window up.  The work item has nothing but its bare address.
RunDestroy(work) ==
    /\ work.kind = "destroy" /\ Locked(work.weak)
    /\ window' = [window EXCEPT ![work.weak] = "closed"]
    /\ RemoveJsWindowObject(name[work.weak])
    /\ windowToken' = [windowToken EXCEPT ![work.this] = NoWindow]
    /\ dangling' = dangling \cup IF object[work.this] = "freed" THEN {work.weak} ELSE {}

RunWork ==
    \E work \in works :
        /\ works' = works \ {work}
        /\ RunChange(work) \/ RunDestroyTooLate(work) \/ RunDestroyFails(work) \/ RunDestroy(work)
        /\ UNCHANGED <<name, listening, object, held, calls>>

-------------------------------------------------------------------------------
(* The platform and the engine *)

OpenWindow(w) ==
    /\ window[w] = "none" /\ \A v \in Windows : v < w => window[v] # "none"
    /\ \A v \in Windows : window[v] = "open" => name[v] # name[w]
    /\ window' = [window EXCEPT ![w] = "open"]
    /\ UNCHANGED <<name, listening, object, windowToken, jsWindowMap, held, calls, works, detached, dangling>>

\* With its listener, which CreateJsWindowObject has registered.
CloseWindow(w) ==
    /\ window[w] = "open"
    /\ window' = [window EXCEPT ![w] = "closed"]
    /\ IF w \in listening THEN RemoveJsWindowObject(name[w]) ELSE UNCHANGED <<jsWindowMap, detached>>
    /\ UNCHANGED <<name, listening, object, windowToken, held, calls, works, dangling>>

\* A script gives up what it has referred to.
Drop(o) ==
    /\ o \in held /\ held' = held \ {o}
    /\ UNCHANGED <<window, name, listening, object, windowToken, jsWindowMap, calls, works, detached, dangling>>

\* Finalizer, once nothing refers to the object: it removes the entry of its name.
Collect(o) ==
    /\ object[o] = "live" /\ o \notin held \cup Range(jsWindowMap)
    /\ object' = [object EXCEPT ![o] = "freed"]
    /\ UNCHANGED <<window, name, listening, held, calls, works, dangling>>
    /\ windowToken' = [windowToken EXCEPT ![o] = NoWindow]
    /\ IF windowToken[o] = NoWindow THEN UNCHANGED <<jsWindowMap, detached>>
       ELSE RemoveJsWindowObject(name[windowToken[o]])

Next ==
    \/ \E w \in Windows : OpenWindow(w) \/ CloseWindow(w) \/ GetWindow(w)
    \/ \E o \in Objects : Change(o) \/ DestroyWindow(o) \/ Drop(o) \/ Collect(o)
    \/ RunWork

Spec == Init /\ [][Next]_vars

-------------------------------------------------------------------------------
\* An entry of the map is for the open window of its name, and its object is there.
EntriesAreCurrent ==
    \A n \in Names : jsWindowMap[n] # NoObject =>
        \E w \in Windows : window[w] = "open" /\ name[w] = n /\ jsWindowMap[n] \in ObjectsOf(w)

\* An open window has one object, which the map finds, however often a script has asked for
\* it; unless its entry was removed while it was open: by a destroyWindow that failed, or with
\* the name of a window that was closed before.
OneObject ==
    \A w \in Windows \ detached :
        /\ Cardinality(ObjectsOf(w)) <= 1
        /\ window[w] = "open" => ObjectsOf(w) \subseteq {jsWindowMap[name[w]]}

\* The object that destroyWindow was called on is there when its work item runs, although that
\* does not hold it; with the same exception.
ObjectsOutliveCalls == dangling \subseteq detached

\* One object for each window, as long as anybody may use it.
WindowsHold == EntriesAreCurrent /\ OneObject /\ ObjectsOutliveCalls
================================================================================
