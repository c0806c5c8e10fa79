--------------------------------- MODULE MCApp ---------------------------------
(***************************************************************************)
(* What runs on the main thread: the lifecycle of abilities, the             *)
(* configuration, the listeners of the context, the results of abilities, the *)
(* timers, windows, displays and resources of scripts and the web components. *)
(* They share no state: `part' says which of them a behaviour is about.       *)
(***************************************************************************)
EXTENDS App, TLC

\* Two abilities of one packaged module, one that the module does not declare, and one of a
\* dynamic module.
CONSTANTS a1, a2, undeclared, b, k1, k2, k3, entry, feature, w1, w2

MCInstances == {a1, a2, undeclared, b}
MCModules == {entry, feature}
MCKeys == {k1, k2, k3}
MCModuleOf == a1 :> entry @@ a2 :> entry @@ undeclared :> entry @@ b :> feature
MCKeyOf == a1 :> k1 @@ a2 :> k2 @@ undeclared :> k3 @@ b :> k1

MCPackaged == {entry}
MCDynamic == {feature}
MCDeclared == {a1, a2, b}
MCBuilds == {"android", "ios"}
MCOneWant == {w1}
MCTwoWants == {w1, w2}

\* The main windows of two stages.
MCEventWindows == {"w1", "w2"}
MCManagerOf == [w \in MCEventWindows |-> "stages"]
\* A type of each kind.
MCDisplayTypes == {"change", "foldStatusChange", "foldDisplayModeChange"}

VARIABLES
    part,
    configuration, colorModeVal, colorModeSetLevel, fontSizeSetLevel, languageSetLevel,
    configured, abilities, creating, resColor, updates, behind,
    pattern, delegate, id, atomicId, webCreating, intercepts, events, urlLoaded, property, tasks,
    owner, numbered, applied, prompt, webObjects, request, webUpdates,
    now, timerTasks, callbackId, interval, status, calling, uvTimers, starts, lastTimeStamp,
    haveTimerTask, runtime, missed,
    made, curRequestCode, codeOf, resultCallbacks, started, resultTasks, handling, outcome, alive,
    shared,
    window, name, listening, windowObjects, windowToken, jsWindowMap, held, calls, windowWorks,
    detached, dangling,
    world, descriptors, resCalls, changes

configurationVars ==
    <<configuration, colorModeVal, colorModeSetLevel, fontSizeSetLevel, languageSetLevel,
      configured, abilities, creating, resColor, updates, behind>>
webVars ==
    <<pattern, delegate, id, atomicId, webCreating, intercepts, events, urlLoaded, property, tasks,
      owner, numbered, applied, prompt, webObjects, request, webUpdates>>
timerVars ==
    <<now, timerTasks, callbackId, interval, status, calling, uvTimers, starts, lastTimeStamp,
      haveTimerTask, runtime, missed>>
resultVars ==
    <<made, curRequestCode, codeOf, resultCallbacks, started, resultTasks, handling, outcome, alive,
      shared>>
windowVars ==
    <<window, name, listening, windowObjects, windowToken, jsWindowMap, held, calls, windowWorks,
      detached, dangling>>
resourceVars == <<world, descriptors, resCalls, changes>>

\* Color modes, font sizes and languages do not depend on each other in the code: one instance
\* for the modes, where updates overtake each other, and one for the others.
Color == INSTANCE AppConfiguration WITH
    Modules <- {"m1", "m2"}, stages <- configured,
    ColorModes <- {"light", "dark", "auto"}, FontScales <- {}, Languages <- {},
    FontConfig <- [m \in {"main", "m1", "m2"} |-> ""], MaxNested <- 2

Fonts == INSTANCE AppConfiguration WITH
    Modules <- {"m1", "m2"}, stages <- configured,
    ColorModes <- {}, FontScales <- {"1.5", "2"}, Languages <- {"en", "zh"},
    FontConfig <- [main |-> "nonFollowSystem", m1 |-> "followSystem", m2 |-> ""], MaxNested <- 1

\* One web with settings, prompts and a response that may be late, and two webs whose
\* creation, requests and ends meet.  They share their variables.
OneWeb == INSTANCE WebDelegate WITH
    Webs <- {"w1", "w2"}, Shown <- {"w1"}, Values <- {1, 2}, Deadline <- 2, Interval <- 2,
    MaxUpdates <- 1, Asking <- {"w1"},
    creating <- webCreating, objects <- webObjects, updates <- webUpdates

TwoWebs == INSTANCE WebDelegate WITH
    Webs <- {"w1", "w2"}, Shown <- {"w1", "w2"}, Values <- {1}, Deadline <- 0, Interval <- 1,
    MaxUpdates <- 0, Asking <- {},
    creating <- webCreating, objects <- webObjects, updates <- webUpdates

\* Two timers of scripts; two of the loop, and each is for now or a moment later.
Scripts == INSTANCE JsTimers WITH
    Delays <- {0, 1}, MaxTimers <- 2, MaxTime <- 3, MaxStarts <- 2, tasks <- timerTasks

\* Two objects of one context, and codes that start again within four calls.
Results == INSTANCE AbilityResults WITH
    Contexts <- {"c1", "c2"}, INT_MAX <- 2, MaxCalls <- 4, tasks <- resultTasks

\* Two windows of one name and three objects.
ScriptWindows == INSTANCE JsWindows WITH
    Names <- {"n"}, MaxWindows <- 2, MaxObjects <- 3, MaxCalls <- 2,
    object <- windowObjects, works <- windowWorks

\* One call of each kind while what it depends on changes, and three that open and close.
Asking(addon, what, by, first, second, third, sync) ==
    [addon |-> addon, op |-> [what |-> what, by |-> by], sync |-> sync,
     args |-> [first |-> first, second |-> second, third |-> third]]
Argument(type, number, string, module, whole) ==
    [type |-> type, id |-> number, name |-> string, module |-> module, whole |-> whole]
OfNumber(n) == Argument("number", n, "", "", TRUE)
OfName(s) == Argument("string", 0, s, "", TRUE)
OfObject(module) == Argument("object", 1, "", module, TRUE)
AskedOfDescriptors ==
    {Asking("own", what, "path", OfName("r"), "none", "none", sync) :
        what \in {"descriptor", "close"}, sync \in BOOLEAN} \cup
    {Asking("own", "close", "path", OfName("r"), "function", "none", FALSE)}
AskedOfResources ==
    AskedOfDescriptors \cup
    {Asking(addon, "media", "id", first, "number", third, FALSE) :
        addon \in {"own", "override", "system"}, first \in {OfNumber(1), OfObject("lib")},
        third \in {"none", "function"}} \cup
    {Asking("own", "plural", "id", Argument("object", 1, "", "entry", FALSE), "number", "none", FALSE),
     Asking("own", "color", "name", OfName("r"), "function", "none", FALSE),
     Asking("own", "color", "name", OfName("r"), "none", "none", FALSE),
     Asking("own", "color", "id", OfObject("entry"), "string", "none", FALSE),
     Asking("own", "array", "id", OfObject("entry"), "function", "none", FALSE),
     Asking("override", "base64", "id", OfObject("entry"), "none", "none", FALSE),
     Asking("own", "string", "id", OfNumber(2), "function", "none", FALSE),
     Asking("own", "config", "none", Argument("undefined", 0, "", "", TRUE), "none", "none", FALSE),
     Asking("own", "device", "none", Argument("function", 0, "", "", TRUE), "none", "none", FALSE)}
OneCall == INSTANCE ResourceCalls WITH
    Asked <- AskedOfResources, MaxCalls <- 1, MaxChanges <- 2
Descriptors == INSTANCE ResourceCalls WITH
    Asked <- AskedOfDescriptors, MaxCalls <- 3, MaxChanges <- 0

AppInit ==
    /\ part \in {"lifecycle", "color", "fonts", "listeners", "web", "webs", "timers", "results", "windows", "events",
               "displays", "resources", "descriptors"}
    /\ Init /\ Color!Init /\ Listeners!Init /\ OneWeb!Init
    /\ Scripts!Init /\ Results!Init /\ ScriptWindows!Init
    /\ WindowEvents!Init /\ Displays!Init /\ OneCall!Init
    /\ part # "lifecycle" => build = "android"

LifecycleStep ==
    /\ part = "lifecycle" /\ Next
    /\ UNCHANGED <<part, configurationVars, listenersVars, webVars, timerVars, resultVars, windowVars,
                   eventVars, displayVars, resourceVars>>
ColorStep ==
    /\ part = "color" /\ Color!Next
    /\ UNCHANGED <<part, vars, listenersVars, webVars, timerVars, resultVars, windowVars,
                   eventVars, displayVars, resourceVars>>
FontsStep ==
    /\ part = "fonts" /\ Fonts!Next
    /\ UNCHANGED <<part, vars, listenersVars, webVars, timerVars, resultVars, windowVars,
                   eventVars, displayVars, resourceVars>>
ListenersStep ==
    /\ part = "listeners" /\ Listeners!Next
    /\ UNCHANGED <<part, vars, configurationVars, webVars, timerVars, resultVars, windowVars,
                   eventVars, displayVars, resourceVars>>
WebStep ==
    /\ \/ part = "web" /\ OneWeb!Next
       \/ part = "webs" /\ TwoWebs!Next
    /\ UNCHANGED <<part, vars, configurationVars, listenersVars, timerVars, resultVars, windowVars,
                   eventVars, displayVars, resourceVars>>
TimersStep ==
    /\ part = "timers" /\ Scripts!Next
    /\ UNCHANGED <<part, vars, configurationVars, listenersVars, webVars, resultVars, windowVars,
                   eventVars, displayVars, resourceVars>>
ResultsStep ==
    /\ part = "results" /\ Results!Next
    /\ UNCHANGED <<part, vars, configurationVars, listenersVars, webVars, timerVars, windowVars,
                   eventVars, displayVars, resourceVars>>
WindowsStep ==
    /\ part = "windows" /\ ScriptWindows!Next
    /\ UNCHANGED <<part, vars, configurationVars, listenersVars, webVars, timerVars, resultVars,
                   eventVars, displayVars, resourceVars>>
EventsStep ==
    /\ part = "events" /\ WindowEvents!Next
    /\ UNCHANGED <<part, vars, configurationVars, listenersVars, webVars, timerVars, resultVars,
                   windowVars, displayVars, resourceVars>>
DisplaysStep ==
    /\ part = "displays" /\ Displays!Next
    /\ UNCHANGED <<part, vars, configurationVars, listenersVars, webVars, timerVars, resultVars,
                   windowVars, eventVars, resourceVars>>
ResourcesStep ==
    /\ \/ part = "resources" /\ OneCall!Next
       \/ part = "descriptors" /\ Descriptors!Next
    /\ UNCHANGED <<part, vars, configurationVars, listenersVars, webVars, timerVars, resultVars,
                   windowVars, eventVars, displayVars>>

AppNext ==
    \/ LifecycleStep \/ ColorStep \/ FontsStep \/ ListenersStep
    \/ WebStep \/ TimersStep \/ ResultsStep \/ WindowsStep
    \/ EventsStep \/ DisplaysStep \/ ResourcesStep

\* Tasks are run, web views made, and threads of pages go on.
WebRunTask ==
    \/ part = "web" /\ OneWeb!RunTask
    \/ part = "webs" /\ TwoWebs!RunTask
WebCreation(w) ==
    \/ part = "web" /\ OneWeb!Creation(w)
    \/ part = "webs" /\ TwoWebs!Creation(w)
WebWait(i) ==
    \/ part = "web" /\ OneWeb!Wait(i)
    \/ part = "webs" /\ TwoWebs!Wait(i)

WebGoesOn ==
    /\ WF_webVars(WebRunTask)
    /\ \A w \in {"w1", "w2"} : WF_webVars(WebCreation(w))
    /\ \A i \in {1, 2} : WF_webVars(WebWait(i))

\* The pool works, and the main thread completes.
ResourceUpdate == part = "resources" /\ OneCall!UpdateManager
ResourceWork(i) == part \in {"resources", "descriptors"} /\ OneCall!ExecuteOf(i)
ResourceCompletion(i) == part \in {"resources", "descriptors"} /\ OneCall!CompleteOf(i)
CallsGoOn ==
    /\ WF_resourceVars(ResourceUpdate)
    /\ \A i \in 1 .. 3 : WF_resourceVars(ResourceWork(i)) /\ WF_resourceVars(ResourceCompletion(i))

\* The lifecycle alone, for the other bounds and builds of its runs.
LifecycleSpec ==
    /\ part = "lifecycle" /\ AppInit
    /\ [][LifecycleStep]_<<part, vars, configurationVars, listenersVars, webVars, timerVars,
                           resultVars, windowVars, eventVars, displayVars, resourceVars>>

AppSpec ==
    /\ AppInit
    /\ [][AppNext]_<<part, vars, configurationVars, listenersVars, webVars, timerVars, resultVars,
                    windowVars, eventVars, displayVars, resourceVars>>
    /\ WebGoesOn /\ CallsGoOn

-------------------------------------------------------------------------------
\* Color modes follow the levels, and reach the resources; what the application has set, the
\* system does not change.
ConfigurationHolds ==
    /\ [](part = "color" => Color!TypeOK /\ Color!ColorOfHighest /\ Color!ResourcesAgree)
    /\ [](part = "fonts" => Fonts!TypeOK)
    /\ [][part = "color" => Color!ApplicationPrevails]_configurationVars
    /\ [][part = "fonts" => Fonts!ApplicationPrevails]_configurationVars

\* Pages, scripts and web views of a web agree, from its creation to its end.
WebHolds ==
    /\ part = "web" => OneWeb!TypeOK /\ OneWeb!WebHolds
    /\ part = "webs" => TwoWebs!TypeOK /\ TwoWebs!WebHolds

\* Every request of a page is answered, and every call for a resource settled: again and again
\* nothing is out.
WebSettles == []<>(TwoWebs!AllAnswered /\ OneCall!AllSettled)

\* A timer is called if and only if it is set, the loop is not forgotten, and who starts an
\* ability for a result gets its own, a window has one object, and who asks for a resource
\* gets it, once.
ScriptsHold ==
    /\ part = "timers" => Scripts!TypeOK /\ Scripts!TimersHold
    /\ part = "results" => Results!TypeOK /\ Results!ResultsHold
    /\ part = "windows" => ScriptWindows!TypeOK /\ ScriptWindows!WindowsHold
    /\ part = "resources" => OneCall!TypeOK /\ OneCall!ResourcesHold
    /\ part = "descriptors" => Descriptors!TypeOK /\ Descriptors!ResourcesHold
================================================================================
