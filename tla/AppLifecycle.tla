------------------------------ MODULE AppLifecycle ------------------------------
(***************************************************************************)
(* How the requests of the platform (an Android activity, an iOS view      *)
(* controller) reach the abilities of an app: AppMain posts them to the    *)
(* event runner of the main thread, Application finds the stage of the     *)
(* module, AbilityStage the ability, and the ability its lifecycle state.  *)
(*                                                                         *)
(* Create, NewWant and Foreground are PostTask, Background and Destroy are *)
(* PostSyncTask: called on the runner's own thread, those two are handled  *)
(* at once and pass what is posted; called elsewhere, they queue up and    *)
(* the caller waits.  OnRunnerThread says which of the two it is.          *)
(***************************************************************************)
EXTENDS Integers, Sequences, SequencesExt

CONSTANTS
    Instances,       \* instance names: bundle, module, ability name and id
    Modules,
    Keys,            \* ability name and id, put together without a separator
    Wants,           \* what a want carries besides the instance name
    ModuleOf, KeyOf, \* of an instance
    Packaged,        \* modules whose module.json is an asset of the app
    Dynamic,         \* modules in the app data directory
    Declared,        \* instances whose ability the module.json declares
    Builds,          \* the platforms the app is built for
    OnRunnerThread,  \* the platform calls AppMain on the runner's thread
    MaxPosted        \* bound: requests posted and not yet handled

ASSUME InstancesAssumption ==
    /\ ModuleOf \in [Instances -> Modules]
    /\ KeyOf \in [Instances -> Keys]
    /\ Declared \subseteq Instances
ASSUME ModulesAssumption == Packaged \subseteq Modules /\ Dynamic \subseteq Modules
ASSUME BuildsAssumption == Builds \subseteq {"android", "ios"}
ASSUME ThreadAssumption == OnRunnerThread \in BOOLEAN /\ MaxPosted \in Nat

\* Where an ability lives: the stage of its module and its key there.
Slots == Modules \X Keys
Slot(i) == <<ModuleOf[i], KeyOf[i]>>

\* AbilityLifecycleExecutor's states, and no ability at all.
States == {"none", "STARTED_NEW", "FOREGROUND_NEW", "BACKGROUND_NEW"}

Requests ==
    [op : {"Create", "NewWant"}, inst : Instances, want : Wants]
        \cup [op : {"Foreground", "Background", "Destroy"}, inst : Instances]
Launch == [op |-> "Launch"]

VARIABLES
    build,      \* ANDROID_PLATFORM or IOS_PLATFORM
    process,    \* application_ is null, application_ is there, or it crashed
    loaded,     \* modules in bundleContainer_; the runtime exists if there is one
    stages,     \* the keys of abilityStages_
    state,      \* abilities_ of all stages, with the state of each ability
    windowDue,  \* abilities whose isDispatchOnWindowStageCreated_ is set
    want,       \* want_ of each ability
    posted,     \* the tasks in the event queue
    shown       \* the last request the platform made for an instance

appVars == <<process, loaded, stages, state, windowDue, want>>
vars == <<build, appVars, posted, shown>>

\* Types; and a window stage is due until the first time in the foreground.
TypeOK ==
    /\ build \in Builds
    /\ process \in {"starting", "running", "dead"}
    /\ loaded \in SUBSET Modules
    /\ stages \in SUBSET Modules
    /\ state \in [Slots -> States]
    /\ windowDue \in SUBSET Slots
    /\ \A s \in windowDue : state[s] \in {"STARTED_NEW", "BACKGROUND_NEW"}
    /\ want \in [Slots -> Wants]
    /\ posted \in Seq(Requests \cup {Launch})
    /\ shown \in [Instances -> States]

-------------------------------------------------------------------------------
(* The handlers, each of them one task of the runner's thread. *)

\* FindAbilityStage and FindAbility.
Found(s) == s[1] \in stages /\ state[s] # "none"

\* A request that finds no application, no stage or no ability is dropped.
Drop == UNCHANGED appVars

\* ScheduleLaunchApplication.  Creating the runtime does not fail once there
\* is a module.
LaunchApplication ==
    /\ process' = "running"
    /\ loaded' = Packaged
    /\ UNCHANGED <<stages, state, windowDue, want>>

\* What HandleDispatchOnCreate does to find module m, and whether it ends with
\* hapModuleInfo: a module of the app data directory is loaded, again if it has
\* been updated there, but looked up again only if there was no runtime yet.
FindModule(m, found) ==
    \/ m \in loaded /\ found /\ loaded' = loaded
    \/ m \in Dynamic /\ found = (loaded = {}) /\ loaded' = loaded \cup Packaged \cup {m}
    \/ m \notin loaded \cup Dynamic /\ ~found /\ loaded' = loaded

\* AbilityStage::LaunchAbility, in the stage of i's module.
LaunchAbility(i, w) ==
    IF state[Slot(i)] = "none" /\ i \in Declared
    THEN /\ state' = [state EXCEPT ![Slot(i)] = "STARTED_NEW"]
         /\ windowDue' = windowDue \cup {Slot(i)}
         /\ want' = [want EXCEPT ![Slot(i)] = w]
    ELSE UNCHANGED <<state, windowDue, want>>

\* Application::HandleAbilityStage: a new stage stays even if it cannot launch
\* the ability.
HandleAbilityStage(i, w) ==
    IF ModuleOf[i] \in loaded'
    THEN stages' = stages \cup {ModuleOf[i]} /\ LaunchAbility(i, w)
    ELSE UNCHANGED <<stages, state, windowDue, want>>

\* On Android the handler goes through hapModuleInfo, null or not; a null one
\* may end the process.
HandleDispatchOnCreate(i, w) ==
    IF process = "starting" THEN Drop
    ELSE \E found \in BOOLEAN :
           /\ FindModule(ModuleOf[i], found)
           /\ \/ UNCHANGED process /\ HandleAbilityStage(i, w)
              \/ /\ build = "android" /\ ~found
                 /\ process' = "dead"
                 /\ UNCHANGED <<stages, state, windowDue, want>>

\* The want JsAbility::OnNewWant is called with: that of its creation.
WantPassed(i) == want[Slot(i)]

\* Mutant: the window stage stays due.
ForegroundStillDue(i) ==
    IF Found(Slot(i))
    THEN /\ state' = [state EXCEPT ![Slot(i)] = "FOREGROUND_NEW"]
         /\ UNCHANGED <<process, loaded, stages, windowDue, want>>
    ELSE Drop

\* OnForeground, after OnWindowStageCreated if that is due.
HandleDispatchOnForeground(i) ==
    IF Found(Slot(i))
    THEN /\ state' = [state EXCEPT ![Slot(i)] = "FOREGROUND_NEW"]
         /\ windowDue' = windowDue \ {Slot(i)}
         /\ UNCHANGED <<process, loaded, stages, want>>
    ELSE Drop

HandleDispatchOnBackground(i) ==
    IF Found(Slot(i))
    THEN /\ state' = [state EXCEPT ![Slot(i)] = "BACKGROUND_NEW"]
         /\ UNCHANGED <<process, loaded, stages, windowDue, want>>
    ELSE Drop

\* Mutant: a stage is given up with its first ability.
DestroyWithStage(i) ==
    IF ModuleOf[i] \in stages
    THEN /\ state' = [state EXCEPT ![Slot(i)] = "none"]
         /\ windowDue' = windowDue \ {Slot(i)}
         /\ stages' = stages \ {ModuleOf[i]}
         /\ UNCHANGED <<process, loaded, want>>
    ELSE Drop

\* Mutant: nothing more is done when the ability is not found.
DestroyFoundOnly(i) ==
    IF Found(Slot(i))
    THEN /\ state' = [state EXCEPT ![Slot(i)] = "none"]
         /\ windowDue' = windowDue \ {Slot(i)}
         /\ stages' = IF \A k \in Keys : state'[<<ModuleOf[i], k>>] = "none"
                      THEN stages \ {ModuleOf[i]} ELSE stages
         /\ UNCHANGED <<process, loaded, want>>
    ELSE Drop

\* OnWindowStageDestroy and OnDestory, if the ability is found; a stage without
\* abilities goes, whether it is found or not.
HandleDispatchOnDestroy(i) ==
    IF ModuleOf[i] \in stages
    THEN /\ state' = [state EXCEPT ![Slot(i)] = "none"]
         /\ windowDue' = windowDue \ {Slot(i)}
         /\ stages' = IF \A k \in Keys : state'[<<ModuleOf[i], k>>] = "none"
                      THEN stages \ {ModuleOf[i]} ELSE stages
         /\ UNCHANGED <<process, loaded, want>>
    ELSE Drop

Handle(r) ==
    \/ r.op = "Launch" /\ LaunchApplication
    \/ r.op = "Create" /\ HandleDispatchOnCreate(r.inst, r.want)
    \/ r.op = "NewWant" /\ Drop
    \/ r.op = "Foreground" /\ HandleDispatchOnForeground(r.inst)
    \/ r.op = "Background" /\ HandleDispatchOnBackground(r.inst)
    \/ r.op = "Destroy" /\ HandleDispatchOnDestroy(r.inst)

-------------------------------------------------------------------------------
(* The event queue of the runner. *)

\* Mutant: a task goes in front of those already posted.
PostTaskFirst(r) ==
    /\ Len(posted) < MaxPosted
    /\ posted' = <<r>> \o posted
    /\ UNCHANGED appVars

\* Events of equal priority sent one after the other stay in order.
PostTask(r) ==
    /\ Len(posted) < MaxPosted
    /\ posted' = Append(posted, r)
    /\ UNCHANGED appVars

\* SendSyncEvent: on the thread of the runner the task is not queued.
PostSyncTask(r) ==
    IF OnRunnerThread THEN Handle(r) /\ UNCHANGED posted ELSE PostTask(r)

\* The caller of PostSyncTask waits until its task, the last one, is done.
CallerWaits == posted # <<>> /\ Last(posted).op \in {"Background", "Destroy"}

RunTask ==
    /\ process # "dead"
    /\ posted # <<>>
    /\ posted' = Tail(posted)
    /\ Handle(Head(posted))
    /\ UNCHANGED <<build, shown>>

-------------------------------------------------------------------------------
(* The platform: it creates an instance, shows and hides it in turns, and *)
(* destroys it when it is not shown; it may then create it again.         *)

Ask(op, i) == [op |-> op, inst |-> i]
AskWith(op, i, w) == [op |-> op, inst |-> i, want |-> w]

\* A request for i that leaves it as the platform has it in state s.
PlatformAsks(i, s) ==
    /\ process # "dead" /\ ~CallerWaits
    /\ shown' = [shown EXCEPT ![i] = s]
    /\ UNCHANGED build

DispatchOnCreate(i, w) ==
    /\ shown[i] = "none"
    /\ PlatformAsks(i, "STARTED_NEW")
    /\ PostTask(AskWith("Create", i, w))

DispatchOnNewWant(i, w) ==
    /\ shown[i] # "none"
    /\ PlatformAsks(i, shown[i])
    /\ PostTask(AskWith("NewWant", i, w))

DispatchOnForeground(i) ==
    /\ shown[i] \in {"STARTED_NEW", "BACKGROUND_NEW"}
    /\ PlatformAsks(i, "FOREGROUND_NEW")
    /\ PostTask(Ask("Foreground", i))

DispatchOnBackground(i) ==
    /\ shown[i] = "FOREGROUND_NEW"
    /\ PlatformAsks(i, "BACKGROUND_NEW")
    /\ PostSyncTask(Ask("Background", i))

DispatchOnDestroy(i) ==
    /\ shown[i] \in {"STARTED_NEW", "BACKGROUND_NEW"}
    /\ PlatformAsks(i, "none")
    /\ PostSyncTask(Ask("Destroy", i))

-------------------------------------------------------------------------------
\* LaunchApplication has been posted before anything else.
Init ==
    /\ build \in Builds
    /\ process = "starting"
    /\ loaded = {} /\ stages = {}
    /\ state = [s \in Slots |-> "none"]
    /\ windowDue = {}
    /\ want \in [Slots -> Wants]
    /\ posted = <<Launch>>
    /\ shown = [i \in Instances |-> "none"]

Next ==
    \/ RunTask
    \/ \E i \in Instances :
         \/ \E w \in Wants : DispatchOnCreate(i, w) \/ DispatchOnNewWant(i, w)
         \/ DispatchOnForeground(i)
         \/ DispatchOnBackground(i)
         \/ DispatchOnDestroy(i)

Spec == Init /\ [][Next]_vars

-------------------------------------------------------------------------------
(* What holds when the requests come from another thread than the runner's, *)
(* and no two instances of a module have the same key.                      *)

\* The abilities that the app can launch.
Launchable == {i \in Declared : ModuleOf[i] \in Packaged \cup Dynamic}

\* An ability that has been created and not destroyed has its stage, through
\* which alone requests reach it.
AbilitiesHaveStage == \A s \in Slots : state[s] # "none" => s[1] \in stages

\* Once every task is handled, each ability is in the state that the platform
\* asked for last, however the requests for several abilities were mixed.
AgreesWithPlatform ==
    process = "running" /\ posted = <<>> =>
        \A i \in Launchable : state[Slot(i)] = shown[i]

\* And nothing is left of an instance the platform has destroyed: a stage is
\* kept for an instance that still exists only, even if an ability of the
\* module could not be launched.
NothingLeftBehind ==
    process = "running" /\ posted = <<>> =>
        \A m \in stages : \E i \in Instances : ModuleOf[i] = m /\ shown[i] # "none"

\* The callbacks an ability sees come in the order of its lifecycle: created,
\* then in the foreground and the background by turns, destroyed when it is
\* not in the foreground, and no callback twice.
LegalSteps ==
    {<<"none", "STARTED_NEW">>, <<"STARTED_NEW", "FOREGROUND_NEW">>,
     <<"FOREGROUND_NEW", "BACKGROUND_NEW">>, <<"BACKGROUND_NEW", "FOREGROUND_NEW">>,
     <<"STARTED_NEW", "none">>, <<"BACKGROUND_NEW", "none">>}

LegalLifecycle ==
    [][\A s \in Slots :
         state'[s] # state[s] => <<state[s], state'[s]>> \in LegalSteps]_vars

-------------------------------------------------------------------------------
(* What the comments of ability.h say, and the code does not always do. *)

\* "The ability in the STATE_FOREGROUND state is visible", at least once there
\* is nothing left to handle.
ForegroundIsVisible ==
    process = "running" /\ posted = <<>> =>
        \A i \in Launchable :
            state[Slot(i)] = "FOREGROUND_NEW" => shown[i] = "FOREGROUND_NEW"

\* The request op for i is the one just handled.
Handled(op, i) ==
    posted # <<>> /\ posted' = Tail(posted) /\ Head(posted).op = op /\ Head(posted).inst = i

\* OnNewWant, "want indicates the new Want": an ability is told the want that
\* the platform sent.
NewWantIsNew ==
    [][\A i \in Launchable :
         Handled("NewWant", i) /\ Found(Slot(i)) => WantPassed(i) = Head(posted).want]_vars
=============================================================================
