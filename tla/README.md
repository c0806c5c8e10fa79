# Verification of the ArkUI-X app framework

This directory holds TLA+ specifications of the parts of the app framework whose
behaviour depends on order, timing and threads: the event queue that everything
of an app runs on, the loops that serve it, the way from a request of the
platform to the callbacks of an ability, and the services around them, from
synchronous sending to the surfaces that frames are drawn on. TLC checks each of them on small
instances, and TLAPS proves some of the results for every value of the
constants. The code is the reference: where a comment and the code disagree, the
modules follow the code and a run shows the disagreement.

Paths below are relative to
`src/ability/ability_runtime/cross_platform/frameworks/native`, called `native`.

## 1. The system and its parts

| Part | State | Operations | Hard because |
| --- | --- | --- | --- |
| Event queue (`base/event_handler/src/event_queue.cpp`) | four sorted sub queues, the idle list, turns taken by each list, `wakeUpTime_`, idle mode | `Insert`, `Remove*`, `GetEvent`, `GetExpiredEvent`, `Prepare`, `Finish`, listeners of file descriptors | many senders, one consumer; a notification is only sent if a time read earlier says so |
| Event loop (`event_runner.cpp`, `none_io_waiter.cpp`, `epoll_io_waiter.cpp`) | the thread, `running_`, `owner_`, the waiter and its signal | `Run`, `Stop`, the end of a runner, wait and notify | the waiter is replaced or fails while a thread waits on it; `Stop` races the start |
| Thread collector (`event_runner.cpp`) | deposits, threads to reclaim, the daemon | `Deposit`, `ReclaimCurrentThread`, `Stop` | gives up its lock to join; the exit, the daemon and the threads that end wait for each other |
| Platform event runner (`src/platform/*/platform_event_runner.cpp`) | a timer of the platform's looper | `Run` on expiry, `SetTimer`, `NotifyAll` | the looper never waits in the queue; the timer is the only signal |
| Event handler, inner events (`event_handler.cpp`, `inner_event.cpp`) | owner, waiter and pool of events | `SendEvent`, `SendSyncEvent`, `DistributeEvent` | sync events block their sender; weak owners end under the lock of the queue |
| App lifecycle (`app/app_main.cpp`, `application.cpp`, `ability_stage.cpp`, `ability/*`) | modules, stages, abilities and their states | launch, create, new want, foreground, background, destroy, configuration | some requests are posted, others are handled at once |
| Configuration (`application.cpp`, `ability/application_configuration_manager.cpp`) | level and value of each item, the resource manager | update by the system or the app | precedence of levels; scripts set the configuration while they are told of it |
| Ability delegator (`ability_delegator/*`) | monitors, properties of abilities | wait for a monitor, report of each callback | waits with timeouts against callbacks of another thread |
| Application context, callbacks (`application_context.cpp`, `*_callback.cpp`) | registered listeners, work items | register, unregister, dispatch | events are told later, from copies of the list; some removals are work items too |
| JS runtime (`jsruntime/src/js_timer.cpp`, `js_runtime.cpp`) | timers of scripts, the task that runs the uv loop; workers | set, clear, call; run the loop | an interval and its function undo each other; one task stands for all timers of the loop |
| Results of abilities (`ability/ability_context_impl.cpp`, `js_ability_context.cpp`) | request codes, callbacks | start for a result, answer | codes are counted per object and come again |
| Windows and displays (`src/window_manager/interfaces/kits/napi`, `dm/src/display_manager.cpp`) | objects of windows by name, listeners | get, change, destroy, `on`, `off`, tell | work items outlive what they are about; one manager for all stages; a thread of the platform |
| Web component (`src/arkui/core/components_ng/pattern/web`) | pattern and delegate of a node, registered events, settings, objects for answers | create, set, lay out, ask, intercept, detach | the page asks before the web view has a number, and waits for a script with a deadline |
| Error manager (`js_error_manager.cpp`) | pending rejections, observers | reject, handle, observe, notify | observers change both containers while they are iterated |
| App events (`src/hiviewdfx/hiappevent`) | events, watchers and mappings in memory, custom parameters, a timer | write, watch, trigger, clear | three threads; one timer for all; contexts shared by tasks |
| Graphics backend (`src/graphic_2d`) | swapchain, semaphores, surfaces per image; the device and the contexts of threads; images of external textures | request, flush, recreate a frame; replace the device; take a frame, upload it; clean up | no fences; every call may fail; the main thread of iOS may be late; threads draw while the device or the context goes |
| Bundle container, routers (`base/bundle_parser`, `appfwk/bundle_manager`) | modules, abilities and skills in maps with spliced keys; routes of all modules | load, update, remove, find; merge | modules come and change while the app runs; an order on versions decides what is kept |
| Parameters of wants (`napi_common_want_params.cpp`, `want_params.cpp`, the wrappers of base types) | values with a type each, nested | make from an object of a script, copy, print, parse, make an object | each way keeps other types; what one conversion changes the next one meets |
| Resource manager of scripts (`src/resource_management/interfaces/js`) | calls under way with their arguments, callbacks and buffers | get by number, name, object or path, at once or by way of the pool; overlays, overriding | some sixty functions written one by one; what they read changes while they wait |
| Assets | plain data, or state kept by code that is not in the repository | parse, convert, forward | little of it depends on order |

How they interact: every thread of the framework that runs handlers owns an
`EventRunner`. An `EventHandler` stamps an event with the time and inserts it
into the queue of its runner; `Insert` notifies the waiter; the loop takes the
event out and calls `DistributeEvent` of its handler. The main thread has the
platform's own looper, so its runner is a `PlatformEventRunner`, and `AppMain`
posts every request of the platform to it. The scripts it calls are the ones
that set the configuration and register listeners; a test's scripts call the
delegator, which the lifecycle reports to, and also set timers, hold windows and answer
the pages of web components; all of that runs as tasks of the main thread. Application
events, surfaces, displays and the pages have threads of their own.

What makes each part correct: the queue keeps events of one priority in order,
lets nobody starve and never sleeps past an event; the loop keeps that promise
with both waiters and ends when it is told to; the platform runner keeps it with
nothing but a timer; the app leaves each ability in the state the platform asked
for last, with its callbacks in a legal order. The services keep what is
registered, on record and on its way together: who is registered is told once,
who waits is answered, what ends is joined, what is drawn on is there.

## 2. Modules

| Module | Models | Uses |
| --- | --- | --- |
| `EventQueue` | the queue; its consumer is only asleep or awake | |
| `EventQueuePasses` | the queue with a history variable that counts how often a list is passed over | `EventQueue` |
| `EventQueueProofs` | theorems about both | `EventQueuePasses` |
| `MCEventQueue` | instance for TLC | `EventQueuePasses` |
| `EventLoop` | the thread of `EventRunnerImpl`, `NoneIoWaiter`, `EpollIoWaiter`, `Run`, `Stop`, the end of a runner | instance `Q` of `EventQueue` |
| `EventLoopProofs` | theorems about it | `EventLoop`, `EventQueueProofs` |
| `MCEventLoop` | instances for TLC | `EventLoop` |
| `PlatformRunner` | `PlatformEventRunner` of Android and iOS | instance `Q` of `EventQueue` |
| `PlatformRunnerProofs` | theorems about it | `PlatformRunner`, `EventQueueProofs` |
| `AppLifecycle` | from the requests of the platform to the states of the abilities | |
| `AppConfiguration` | color mode, font size and language, and the resource manager | |
| `ContextListeners` | listeners of the application context and their work items | |
| `JsTimers` | timers of scripts and the handler of the uv loop | |
| `AbilityResults` | `startAbilityForResult`, its codes and answers | |
| `JsWindows` | the JavaScript objects of windows and their work items | |
| `WindowListeners`, `DisplayListeners` | listeners of windows and stages, and of displays | |
| `App` | the lifecycle, and what the runs check of the three kinds of listeners | `AppLifecycle`, and instances of the three |
| `AppProofs` | theorems about `AppLifecycle` and the listeners | `App` |
| `WebDelegate` | web components, from their pattern to the web view and its pages | |
| `ResourceCalls` | what scripts ask of their resource managers, and how they are answered | |
| `MCApp` | instances for TLC of all that runs on the main thread; of `AppLifecycle` alone with `LifecycleSpec` | `App`, and instances of the six other components |
| `ThreadCollector` | the threads of deposited runners, from their creation to their join | |
| `ThreadCollectorProofs` | theorems about it | `ThreadCollector` |
| `SyncSend` | `SendSyncEvent`, waiters, the pool of events | |
| `AbilityDelegator` | monitors, waits and properties, and the tasks of the binding | |
| `AppEvents`, `EventParams` | events, watchers and the timer; custom parameters | |
| `AppEventsProofs` | theorems about `AppEvents` | `AppEvents` |
| `SwapChain` | a swapchain, the presentation engine and the queue of the GPU | |
| `AndroidSurface`, `IOSSurface` | the render thread of each platform, and the main thread of iOS | `SwapChain` |
| `VulkanContext` | the Vulkan device, its queues, and the contexts of threads | |
| `TextureUpload`, `TextureFrames` | the pixels of external textures, and the frames they come in | |
| `GLContext` | the OpenGL context that surfaces share | |
| `NestedScroll` | a web page that scrolls inside other containers | |
| `MCPlatform` | instances for TLC of what is written once for each platform | `PlatformRunner` and the eight above |
| `RejectionManager` | unhandled rejections and their observers | |
| `RejectionManagerProofs` | theorems about it | `RejectionManager` |
| `BundleContents`, `RouterMap` | the descriptions of modules, and the routes they bring | |
| `WantParams` | what becomes of the parameters of a want on its ways | |
| `Services` | what the runs check of the collector, synchronous sending, the delegator, application events, parameters and rejections | `SyncSend`, and instances of the five others |
| `ServicesProofs` | theorems about `SyncSend`, `EventParams` and `AbilityDelegator`, and those of the instances | `Services` |
| `MCServices` | instances for TLC of all services; of `AppEvents` alone with `EventsSpec` | `Services`, and instances of the three above |

`EventQueue` is both a model of the code and the abstract specification of what
a loop may assume. `EventLoop` and `PlatformRunner` have no variable `asleep`;
they define it (`Asleep`) from where their thread is and from what can wake it,
and the property `QueueContract == Q!Spec` says that each of them implements
`EventQueue` under that mapping. Both use the critical sections of `EventQueue`
(`InsertLocked`, `PickEventLocked`, ...) for what happens to the lists, and add
what their own waiter, timer and thread do.

### EventQueue

`list[p]` is `subEventQueues_[p].queue`, and `idleEvents_` for `p = IDLE`; the
other variables have the names of the members. Each action is one critical
section of `queueLock_`: `Insert` (with the clock read before the lock was
taken, at most `MaxLag` earlier), `RemoveEvents`, and the three outcomes of
`GetExpiredEventLocked`: `PickEvent`, `PickIdleEvent`, `FindNothing`. The scan
of `PickEventLocked` is stated by what it finds: a list is a `Candidate` if its
front is due and earlier than the fronts of all more urgent lists; the scan
`Stops` at a candidate that no other follows, or that has turns left
(`handledCount`). `TimeOut` and `Interrupt` are what an `IoWaiter` may do.

`FindNothing` leaves open whether the consumer sleeps: a waiter may still hold a
notification. A notification of a consumer that is awake has no effect, which is
what the two waiters do with it.

### EventLoop

`pc` is the place of the thread: `starting` before `Prepare`, `prepared` before
the check of `owner_`, `get` before the lock of `GetEvent`, `wait`, `failed`
after a failed `epoll_wait`, `locked` when the condition variable has handed over
the lock, `dispatch` in a handler, `leaving` past the loop. `waiter` is
`ioWaiter_`, `holder` the waiter that `WaitUntilLocked` holds on to; `signal` is
`pred_` of the one and the readable `awakenFd_` of the other. `deposit` runners
have a thread from their creation and end with `~EventRunner` or with the
collector (`ReleaseRunner`, `ExitThread`); the others are run by `Run` and ended
by `Stop` (`StopRunning`). Each is followed by `Finish` as a step of its own.

### PlatformRunner

`timer` is the time `timerFd_` (or the timer of the iOS message loop) expires;
setting it to a time that has come makes it expire at once. `Run` is the steps
`TimerExpires`, `GetExpiredEvent` and `Dispatched` in turns, `EndRun`. The
constant `OtherThreads` tells whether threads other than the looper's use the
queue.

### AppLifecycle

`posted` is the queue of the main thread's runner: all requests have the same
priority and no delay, and by `KeepsOrder` of `EventQueue` such events stay in
order, so a sequence is enough. `RunTask` handles the first one, with everything
that `AppMain`, `Application`, `AbilityStage` and `Ability` do in it.
`PostSyncTask` is `SendSyncEvent`: on the runner's own thread (`OnRunnerThread`)
it handles the request at once, elsewhere it posts it and the caller waits.
`stages` are the keys of `abilityStages_`, `state[<<module, key>>]` the ability
of that key in that stage with its lifecycle state, `windowDue` the abilities
whose `isDispatchOnWindowStageCreated_` is set, `loaded` the modules the bundle
container knows. `shown` is what the platform, which is external, has asked for:
it creates an instance, shows and hides it in turns, and destroys it while it is
not shown. A `hapModuleInfo` that is null on Android is undefined behaviour, so
the process may die or go on.

### AppConfiguration

`configuration` is `configuration_` (empty while the pointer is null),
`colorModeVal` and the three levels are the members of
`ApplicationConfigurationManager`. `OnConfigurationUpdate` is the method of
`Application` up to its loop: what `IsUpdateColorNeeded`, `IsUpdateFontSizeNeeded`
and `IsUpdateLanguageNeeded` leave of an update (`Told`) is merged into the
configuration. The loop over the stages is `TellStage`, one step per stage, because
a stage calls scripts, and these may set the configuration in turn: `updates` is
the stack of the updates under way. `resColor` is the color of the resource
manager, which every new stage takes from the one before, so that all share it.

The resource manager follows the configuration only if everyone is told in order.
Two cases of the code break that, and `behind`, a history variable, marks them: an
update that finds no ability to tell (a script that calls `setColorMode` while the
first ability is created, when it is not in its stage yet), and a nested update
that tells all stages before the outer one goes on and overwrites it.
`ResourcesAgree` claims that there is no other.

### ContextListeners

A lifecycle event or a change of the application's state is not told where it
happens: `DispatchOnAbility` and `NotifyApplication` leave a work item with a copy
of the listeners, and `RunWork` runs the items in any order, as the engine's pool of
threads may. Listeners of the lifecycle live in `lifecycle` under their serial
numbers and are removed by work items; those of the state live in the current
`JsApplicationStateChangeCallback` (`object`), which is given up with its last
listener, and whose work items do nothing once it is gone.

Registration does not look at what it is given. The loop that tells of an ability
(`CallJsMethodInnerCommon`) returns at the first listener that is no object or lacks the
method, so those registered after it are not told; the one that tells of the application's
state goes on past it. `failing` remembers such listeners, and those that threw, for each
event, and `Silenced` says whom they explain. What the engine does after an exception is
outside of the repository: the model has it refuse the calls that follow in the same work item.
It records one listener that threw, and only where others come after it.

### JsTimers

`tasks` are those of the runtime's event handler: a timer of a script has a task named
by its `callbackId`, all timers of the uv loop share `TIMER_TASK`. `OnTriggered` is
stated by its three outcomes; the loop itself is external and may run, stop and start
any timers that are due. `OnTriggered` keeps the task it believes to be posted when the
first timer is due at `lastTimeStamp_`, although that task may have run or been removed:
`missed` marks it, and `LoopCovered` claims that the loop is waited for in all other
cases.

### AbilityResults

An ability may have several JavaScript objects of its one context, each with a
`curRequestCode_`; the callbacks are kept by the context. `shared` marks the calls that
had one code while both waited: `ResultsHold` claims that every other call gets its own
answer, once. Promises that still wait when the ability is destroyed are never settled.

### JsWindows

`jsWindowMap` is `g_jsWindowMap`, `windowToken` the strong reference of an object, and
`works` the work items, each with the weak reference and, for `destroyWindow`, the bare
address it was made with. An entry is removed by name from three sides: by
`destroyWindow` before `Destroy` may fail, by the window when it ends, and by the
finalizer. `detached` marks windows that lost their entry and stayed open; the object
of such a window may be collected while its `destroyWindow` waits, and the work item
then writes to it (`dangling`). `WindowsHold` claims that this is the only way.

### WindowListeners and DisplayListeners

A `JsWindowRegisterManager` belongs to one `JsWindow`, but `g_listenerManager` to all
window stages, and it compares functions only. With two stages an `on` of the second is
taken for done, and an `off` of the one removes listeners of the other: `mixed` marks
the windows this happens to. `strays` are functions that were told although they had
been removed. The windows are external: they may refuse a call, and the manager then
keeps what it has.

Displays tell a copy of the listeners from a thread of the platform (`telling`); each
listener takes its `mtx_`, and leaves a task. `CallJsMethod` keeps `mtx_` while the
function runs, so that a function which removes itself waits for ever: `stuck` marks
it, and the thread of the scripts ends there. Listeners of display modes are accepted
and kept on record, but the display manager does nothing about them.

### WebDelegate

`pattern`, `delegate` and `id` are per node; `intercepts` and `events` are the entries of
`WebObjectEventManager` by the number of the web view. `Guess` takes the number the next
web view is about to get and registers `OnInterceptRequest` for it before the platform is
asked (`CreateResource`); `Created` registers the rest under the number it returned. The
JS and PLATFORM tasks of the main thread are one sequence, as its looper is one. Three
settings stand for all: one that is sent with a new delegate, one that is not (haptic
feedback set before the delegate never reaches the web view, and nothing is claimed of
it), and the rich text, which waits for the first layout. A `request` is the thread of a
page: it waits for its task, and then looks at the response and at the time in turns. It
holds the delegate, which therefore goes with the last request when its node has gone.
A response that comes between the last look at it and the last look at the time is
dropped (`late`). The registry of events has no lock, so a page that asks while the main
thread registers may find nothing and load the resource itself (`Registering`). That the
platform numbers every request for a web view is assumed.

### NestedScroll

`axis`, `direction`, `mode` and `place` are what the pattern knows of the scroll under way
and of the page; `parents` are the axes on which a parent that scrolls can be found, and
`known` those that have been (`parentsMap_`). The pan gesture, the finger and the web view's
events are tasks of the main thread in any order. On Android each movement of the finger is
given to the page, a parent or both (`last`); on iOS the page has all movements, and is
`locked` while a parent is to go first. `place` is whatever an event says, as the page may
change under the finger. `begun` and `dragEnds` are what parents have been told; `turned` says
that the axis was changed while a scroll was under way, after which another parent is told
of its end.

### ResourceCalls

`world` is what an answer depends on: the configuration of the application and that of the
ability's manager, which follows it in a second step (`UpdateConfiguration`,
`UpdateManager`: a thread of the pool may work between the two), overlays, the overriding
configuration, the modules that are there, the theme. The functions that answer at once
are operators of it (`SyncAnswer`); the others take their arguments into a context
(`Prepare`), leave it to the pool (`GetResult`, which drops it without a word if it cannot
be queued), are worked on there (`Execute`) and completed on the main thread (`Complete`),
where each step of making the value may fail. `FunctionsFollowRule` compares all of them,
for all arguments, with one rule of a few lines; where they differ is part of the rule: the
old `getPluralString` also takes a name, the other old ones do not, an empty directory can
only be listed by way of the pool, an icon of the theme has a substitute by number only.

A `Resource` object is looked up in a new context of its module, which has the
application's configuration and no overlays; an override manager and that of the system
use their own. If the module is not there, the call succeeds with nothing: a callback is
called without an answer, and a promise stays open, as it does for a color that could not
be made. `owners` are those who will delete the data of a buffer: if the array of a buffer
cannot be made, both the buffer and the context (`CreateJsUint8Array`). `ToldOnce` claims
that there are no other such cases.

### ThreadCollector and SyncSend

`ThreadCollector` has three kinds of threads: those of deposited runners, the
daemon that joins, and the exit of the process. A step is a critical section of
`collectorLock_`; `threadLock_`, which the exit keeps while it joins the daemon, is
a variable. `SyncSend` has runners and a thread without one; `stack[t]` are the
events a thread is handling, so that a handler may itself send and wait. The queue
of a runner is a set here: which event comes next is the matter of `EventQueue`.
Events come from the pool (`Get`, `Drop`, `Put`) and go back to it, with the waiter
that must be told and cleared.

### AbilityDelegator

A call parses its arguments at once and leaves a task with an `Execute` on a thread
of a pool and a `Complete` on the JavaScript thread. A wait keeps its thread of the
pool until the monitor matches or its time is over. `Awaited` restricts the scripts
to tests that await a call before the next one for the same monitor; without it
`RegisteredAsRecorded` does not hold, because the tasks of two calls leave the pool in any
order. The record of a monitor is made while the arguments are parsed: a call whose second
argument is refused (`CallIsRefused`, error 401) has recorded a native monitor already, and
registers nothing. So `RegisteredAsRecorded` is about the records that a call that was not
refused has asked for (`Asked`). The monitors of stages have one argument, and no such call.

### AppEvents and EventParams

Three threads write events, serve the timer and run JavaScript. `eventMap`,
`mapping` and `observerSeq` are the tables of `AppEventStore`, `watchers` those of the
manager, `row` and `waited` what a watcher has counted towards its trigger, `batch`
the context that all tasks of a watcher share. Registering is two steps, because the
row and the old events of a watcher are fetched before `observerMutex_` is taken.
`EventParams` is the table of custom parameters with `FindOldParamkeys` as it is: it
stops at the first row of a name, so a key may have several rows.

### SwapChain, AndroidSurface, IOSSurface

The render thread acquires an image with the semaphore of the current frame, submits
what was drawn and presents the image; nothing waits for the GPU (`gpu` is its
queue). `SwapChain` is what both platforms share. `AndroidSurface` adds the surfaces
kept per image, colour spaces, recreation, and the failure of every call;
`undrained` marks that a frame was given up with its image and semaphore still taken
(no Skia surface could be made, or a present failed otherwise than by being out of
date). `IOSSurface` adds the main thread: a block is dispatched to the main queue,
and given up after a timeout; a generation counter keeps a block that starts too
late from doing anything. `overrun` marks that a block was running when it was given
up: it then works on the swapchain together with the render thread.

### VulkanContext

`device` counts the devices that were made, and everything that belongs to one has its
number. The constructor makes one before there is a surface. If the graphics family cannot
present to the first surface, `RecreateDeviceForPresentFamily` makes another, in the steps
`ReleaseDrawingContextMap`, `DestroyDevice`, `CreateDevice`, `CreateSkiaBackendContext`:
only the map of contexts has a lock, so other threads get and build contexts in between. Those
that do may keep one of a device that has gone; `raced` marks it, and nothing is claimed of
them. `life` tells the threads apart that have had one identifier.

`kept` is what is drawn with beside the map: `drGPUContext_` of the render context and, on
iOS, `mSkContext_` of the surface. `SetupGrContext` sets each once, before the frame asks for
its Vulkan surface, and nothing refreshes them when the device is replaced: `outdated` marks
who keeps a context of a device that has gone, without any race. `KeptOfDevice` says that
these and no others do: who sets up afterwards, such as the next surface of iOS, is on the
device that is there. One surface exists at a time; on Android the context of the surface is
a member of its base class, which code outside of the repository sets, and is left out.

### TextureUpload and TextureFrames

`TextureUpload` is `RSSurfaceTextureIOS` (a video) and `RSSurfacePlatformTextureIOS` (a video,
a platform view or a texture of the platform), which were written one after the other.
`UpdateVkImageFromPixelBuffer` is a function of the members (`vk`) and of the call that
fails; `vk.live` counts the objects the device has, so that one without a handle shows. A
drawing claims the size of the last pixels for the image, which has that of the last upload
that came so far.

In `TextureFrames` the producer marks a frame (`MarkUiFrameAvailable`), and the render thread
takes the latest. With Vulkan on Android each hardware buffer has an image; those of a
producer with new buffers go from `infoMap` by way of `oldMap` to `clearMap`, from drawing to
drawing, and are destroyed with the next but one.

### GLContext

`count` is `surface_count_` and `gpu` the context `drGPUContext_` was built on. The clean-up
is two steps, as another surface may come between the look at the count and the release.
`RequestFrame`, `AcquireSurface` and `FlushFrame` each make again what they miss, and go on
if that fails: `broken` marks it.

### RejectionManager

`promiseAt` and `observerAt` are the iterators of the two nested loops. While an
observer is called, any script may run. An observer that handles the promise it is
told of, or removes itself, erases the element an iterator points to: what follows is
undefined, `dangling` marks it, and the model ends there. If an observer throws
(`ObserverThrows`), `NAPI_CALL` returns from the loop: the observers after it are never told,
and the promise is erased all the same. Whether the exception is then still pending in the
engine, which calls nobody as long as it is (`CallIsRefused`), is outside of the repository:
`refusing` is either, until the check ends. `cut` remembers both, and `RejectionsTold` says
that nothing else keeps an observer from being told.

### BundleContents

`bundleInfo` is the `InnerBundleInfo` of the bundle container: `modules`, `abilities` and
`skills` are its maps, `mainEntry` its member. The keys of the last two are spliced from
the bundle, the module and the ability; a key is a sequence of parts here, and
`FindHapModuleInfo` looks for the module's name as a part anywhere in it, as `find` does in
the code (a bundle with a module's name inside its own would be given the abilities of all
modules; that is excluded). `latest` and `ready` are history variables: what was read
last of each module, and for which request. The provider of assets, which is external,
tells what the app has come with (`packaged`), which modules lie in its data directory
(`installed`), and which of them have changed since it was last asked (`changed`). A request
for an ability in a module (`HandleDispatchOnCreate`) reads everything the app has come with
once more, and the module last; an import by a script (`ParseHspModuleJson`) reads the module
alone. The former brings the packaged version of any other module back, and with it of one
that was updated: `BundleSafe` says that the maps always agree with what was read last, not
that this is the newest. `GetApplicationInfoV9` adds the permissions of the modules only if
it is asked for them, and `GetBundleInfoV9` does not ask: they are in its `reqPermissions`, not
in its `applicationInfo` (`AsksForItsOwn` is about both ways to get them). The main entry is cleared when its module is read again, and never
set a second time.

### RouterMap

`files` are the files of routers, one for each module; `routerArray` is what
`ProcessBundleRouterMap` makes of them. An identifier of a version is a number, a word or
other text; `Versions` lists versions by the precedence semantic versions have, and
`RoutersMerged` compares what the code's comparisons of pairs choose with the best of that
list. A file that cannot be parsed leaves the bundle without routes, whatever the others
hold. Identifiers with a hyphen compare as greater both ways, so the order of the map is not
an order for them: the instance has none. A route without a version comes before any other.

### WantParams

A value is a tree: a kind, a number or text, and the parts of a compound one. `params` are
the `WantParams` of a want; `object` is what the script gave that it was made of (or
`given` is what native code had set). The want goes any of three ways, up to three times:
`Copy`, `Cross` (printed, carried by the platform, parsed) and `PassOn` (to a script,
and back from the object the script was given). Each is a function of the code:

- From an object (`UnwrapWantParams`): of an array only one kind is kept, objects before
  strings, ints, booleans and doubles; the ints become doubles as soon as one number is not
  an int32. `NaN` is different from nothing and becomes the int 0. An array in an array is
  an object with indices as names. An object that stands for a remote object is left out,
  one that stands for a file keeps the integral part of its number.
- Copies (`NewParams`) have no empty arrays.
- As a text, each value has the number of its type (`ToJson`). The printer's numbering and
  the reader's differ by one from float to string, so `double` is read back only because 9
  with a number is taken for it, and no type but boolean, int, double, string, parameters and
  array is read (`ParseElement`). Arrays have no types in the text: their first element
  decides, and ints come back as longs. One infinite number or unprintable character makes
  the whole text unreadable.

A number is a count of fractions, so that some numbers are not whole and some have more
digits than `std::to_string` prints. The platform only carries the text. Texts that the
platform makes itself are not modelled, and neither are the names in a want, which are
copied as they are, nor that copies of a `Want` share their parameters.

## 3. Runs

| Run | Shows |
| --- | --- |
| `queue` | types; lists sorted whatever the order of inserts (`ListsSorted`); events due at the same time stay in order (`KeepsOrder`); nothing passes a more urgent event out of turn (`PassesOnlyInTurn`), and an event that competes is passed over a bounded number of times (`BoundedPasses`) |
| `queue_fair` | nobody sleeps past an event (`SleepCoversQueue`); idle events yield to all others (`IdleYields`); no event of a sub queue starves (`NoStarvation`); an idle event is handled if other events come and go (`IdleServed`) |
| `loop` | the loop and its waiters implement `EventQueue` (`QueueContract`); no sleep on a finished queue (`NoSleepAfterFinish`); no event after `Finish` (`SilentAfterFinish`) |
| `loop_fair` | a finished loop ends (`FinishEndsLoop`); a loop that is not finished serves its queue (`LoopServes`) |
| `platform` | used from its own thread, the platform runner implements `EventQueue` (`QueueContract`), its timer covers every event (`TimerCoversQueue`) and every event is handled (`Served`). Semaphores are clear when they are used again, and surfaces belong to the swapchain that is there; contexts in the map and queues are those of the Vulkan device that is there, contexts kept beside it too unless the device was replaced since, and it can present; an image of a texture has memory and is drawn with the pixels and the size that are its own, no object of the device is lost; no frame is missed and no image destroyed that is in flight; a canvas draws on the OpenGL context there is; a movement of the finger goes to the page or a parent, to both only in turn, the page of iOS is locked only for a parent that goes first, and parents are told of starts and ends in pairs (all `PlatformSafe`). A request for a frame returns, the render thread of iOS never depends on the main thread, and a frame of OpenGL is presented to its own layer (`FramesReturn`) |
| `lifecycle` | requests from another thread: every ability has its stage (`AbilitiesHaveStage`); it ends up as the platform wants (`AgreesWithPlatform`) by legal steps (`LegalLifecycle`); nothing is left of destroyed instances (`NothingLeftBehind`). The color mode in force is that of the highest level, resources have it, and the system does not change what the application has set (`ConfigurationHolds`). A listener of the application is told once of what happened while it was registered, unless one that cannot be called or throws silences it, and of nothing else; windows keep a listener for each function asked for, and displays tell the functions on record, miss nothing, and no function is told after its removal (`ListenersTold`). Timers have one task each and none after they are cleared, the uv loop is waited for, who starts an ability gets its own answer, and a window has one object as long as anyone may use it; every function of a resource manager follows one rule, a call gets what was right at some time while it was under way, is answered once, leaves no reference behind, and descriptors are those scripts know of (all `ScriptsHold`). Calls of a page reach its own web, settings arrive, a response in time is used, web views go with their nodes, and objects are kept exactly as long as somebody may answer (`WebHolds`); every request of a page is answered, and every call for a resource settled (`WebSettles`) |
| `services` | types of all parts (`TypesOK`). Every thread belongs to one party and is joined once, nothing outlives the exit (`CollectorSafe`), and threads that end and the exit are not held up (`ThreadsGoOn`). A waiter is on the event it waits for and on no other (`WaitsAreAnswered`), and the call returns unless its runner was stopped or the waits go round in a circle (`ThreadsGoOn`). Monitors are registered as recorded, but for refused calls, and properties are those of the ability (`DelegatorSafe`); every call settles (`AnswersCome`). One timer, one row for a name, no task after the destruction of its context, the last batch delivered, parameters up to date (`EventsSafe`); a watcher with a timeout is triggered (`AnswersCome` too). No rejection is lost, told twice, or told after it was handled, and an observer is passed over only after one that threw (`RejectionsTold`). What the bundle says of a module is what was last read of it and of no other, its dependencies are found though modules need each other, the home screen is that of an entry; each name has one route, the one to be preferred; a script gets the parameters that another script has given, whatever way they went, native code reads what was set, a copy is equal unless something was empty, and what is lost is lost at once (`DataHolds`) |

`platform`, `lifecycle` and `services` put components that share no state into one run: `part`
chooses one of them in the initial state, and the others stay where they are.

Runs that find a disagreement between the code and what a comment says of it:

| Run | The code | The comment |
| --- | --- | --- |
| `loop_stop` | a `Stop` before `Prepare` is forgotten, the loop runs for ever | `event_runner.h:126`, `event_queue.h:143` |
| `platform_threads` | the end of `Run` overwrites the timer another thread has just set; the event waits | `platform_event_runner.cpp:359` (Android): the timer is triggered at once |
| `lifecycle_sync` | on the runner's thread Background passes Foreground, and a hidden ability stays in the foreground | `ability.h:88`: an ability in the foreground is visible |
| `lifecycle_want` | `OnNewWant` gets the want of the creation | `ability.h:80`: the new want |
| `events_shared` | an event that two watchers are to get is deleted when the first has had it | `app_event_observer_mgr.cpp:141`: events not in the event mapping are deleted |

Seen in the code as well, and not the subject of a run: VIP events take five
turns at most while a less urgent event is due earlier, although
`event_queue.h:47` says they are distributed until all are done
(`PassesOnlyInTurn` says what holds); `IsIdle` is true while events wait
(`event_queue.h:188`); two instances of a module whose ability name and id are the
same when put together share one ability (`ability_stage.cpp:86`); the window
stage of an ability is destroyed whether or not it was created
(`js_ability.cpp:244`). Once the app has set a font size, the next update of the
system or the launch of a module whose font configuration says `nonFollowSystem`
brings that item back (`AddConfigurationData`), and the app's next font size is
ignored. `COLORMODE_IS_SET_BY_APP` is never removed from the configuration. A
listener that was removed may still be told of an event that happened before, and the
work items of several events run in no particular order. One listener of the lifecycle without
a method keeps those registered after it from being told (`ability_lifecycle_callback.cpp:64`),
and one observer of rejections that throws the others (`js_error_manager.cpp:122`). A call of
the delegator that is refused leaves the record of its monitor behind
(`js_ability_delegator.cpp:763`). A receiver of application
events gets the last batch only, if two come before its task runs. The iOS surface
gives an image back that could not be drawn on; the Android one keeps it.
`CreateSubWindowTask` with the id of a parent that is not there never settles its promise
(`js_window_manager.cpp:44`). A stage's `on` and `off`, and a window's `off`, drop what the
register manager returns: a script is not told that it was refused. `off` of
`foldDisplayModeChange` without a function removes all of them and throws nevertheless.
`WebDelegateCross::Release` leaves the web view where it is if the context of its pipeline
has gone.

Of nested scrolling: on Android the mode stays that of an axis with a parent, so that with
`PARENT_FIRST` a movement on an axis without one reaches nobody (`web_pattern.cpp:1291`).
A pan that starts during a scroll may change its axis, and the parent on the other one is told
of the end. `OnActionEnd` returns with `webPanActive_` still true if there is no parent. iOS
locks the page at its border even if no parent is there to move. `direction_` has no initial
value, and a context of zeros counts as at both borders.

Of the graphics backend: a thread that looks up or builds its context while the Vulkan device
is replaced builds on the one that goes (`rs_vulkan_context.cpp:520`), the render context and
the surface of iOS keep drawing with the context they were set up with before, although the
map is released "to avoid dangling handles" (`rs_vulkan_context.cpp:534`), Android does not try
again once a new device could not be made, and iOS makes one for every such surface. The
texture of a video on iOS keeps a staging buffer that got no memory together with the size of
the one before (`rs_surface_texture_ios.mm:234`), so that a smaller upload then uses it; the
texture of the platform undoes it. After an upload that failed early both draw the image of
the one before with the size of the new pixels. A texture with OpenGL on Android clears its
flag after it has taken a frame, so that one marked in between is lost. `emplace` into the
map of old images drops an image if one of its buffer is there. A window surface of OpenGL
that cannot be made leaves no context current, and the frame goes on; `Init` on iOS, after a
`setCurrentContext` that failed, is taken for done although there are no buffers.

### Bounds, and why they are enough

- `MaxTime` stops the clock. The queue only compares times; two ticks and a
  delay of one let the fronts of three lists be due at three different times.
  `queue_fair` has delays of up to two: only then do lists in which nothing is due
  have fronts of different times, of which the wake-up time must be the least.
- `MaxHandled` is 1 where the code has 5: what matters is whether turns are left
  and that they are reset; `BoundedPasses` is stated for any limit. The proofs hold
  for any value.
- Three events, so that two can compete while a third passes or arrives; one of
  the two middle priorities stands for both in `queue`, which leaves three lists
  that compete. The loop and the platform runner, with the steps of their
  threads between the critical sections, use two events of a sub queue and the
  idle list, and one in `loop_fair`.
- `MaxLag` is 1 in `queue` and `queue_fair`: an insert that is late by one tick is
  already out of order. The lag is 0 in the other runs, where order is not the
  question. The clock stops at `MaxTime`, so liveness of the queue is claimed for
  events due before the time (less the lag) at which it does.
- `queue_fair` has two events of three priorities, `IDLE` one of them, and three
  ticks.
- Two stoppers: the second `Finish` may come while the first is under way.
- `MaxPosted` is 3 in `lifecycle`: create, foreground and background of an
  instance, or requests for three instances, can be on their way together.
- Two abilities in one module (a stage outlives the first of them), one that its
  module does not declare, one in a module of the app data directory.

- `AppConfiguration` is instantiated twice, once for color modes with updates nested
  two deep and once for font sizes and languages with no nesting: the three settings
  do not depend on each other in the code, and only the color reaches the resource
  manager. Two modules, so that one is told before and one after a nested update.
- Two timers of scripts, two of the loop, delays of zero and one and three ticks: a timer
  can be due at the time of the one before it. Two objects of a context, codes from 0 to 2
  and four calls: codes start again while the first call still waits.
- Two windows of one name, one after the other, with three objects and two calls: a window
  can be closed and opened again while a work item waits. Two windows that share a manager,
  two functions, two listeners and two events; a manager of one window is the case where
  the other window does nothing. One type of display listener of each kind.
- `WebDelegate` is instantiated twice: one web with two values of a setting, prompts, and a
  response that may be late (the deadline is one interval, so that a thread looks twice),
  and two webs with a deadline that is over at once, whose creation, requests and ends meet.
- `ResourceCalls` is instantiated twice: one call of each kind of manager, argument and
  outcome while two changes happen, as calls share nothing but descriptors; and three that
  open and close a descriptor. The rule of the functions is checked in every state of the
  world that comes about, for all combinations of twelve first, five second and three
  third arguments: a number, name, object or path that is there and one that is not.
- Three registrations and two events of listeners: one before, one between and one
  after them. Serial numbers stay far below `INT32_MAX`, where the code starts again.
- Two deposited threads, so that one is joined while the other comes, ends or is
  refused; two runners and a client that send three events with three objects and a
  pool of one, so that an object is used again while another waits; one thread in the
  pool of tasks, which a wait can hold up; two watchers of one name and three events,
  one of them after the first has been replaced; two keys and two names of parameters.
- Three ways an app may come: an entry and a feature, the same with a feature that cannot
  be parsed, and nothing that can; five descriptions that may be installed later, among them
  one that cannot be parsed and a shared module, with and without an ability. The modules
  need each other and themselves. Routes are of three modules, of which the one in the
  middle is one of the app, and of six versions (three prereleases, a release, one that
  differs from it by its build, none); three routes, two of one name and one of another.
- Objects with every kind of value, all pairs of kinds in an array, all of that one level
  deeper and beside a second property; natively, every type and array of it. One is four
  fractions, of which two are printed, and 48 fractions are too many for an int. Three ways:
  what is lost shows after one, that nothing more is lost after two.
- As many images as frames in flight, two. With more images than semaphores
  `SemaphoreReady` would not hold; the code asks for as many, but never compares with
  what the driver gives. Generations are counted modulo a number larger than that of
  the swapchains that blocks or surfaces can remember.
- Three Vulkan devices, so that one that was made for a surface is replaced once more on iOS,
  two threads and an identifier that comes again; pixels of two sizes; two hardware buffers
  and three frames, so that a buffer comes again; two surfaces of OpenGL and two clean-ups.
- A parent on the vertical axis and none on the horizontal one, a mode of its own for each
  direction, and a page that is at both of its ends, at neither, or (iOS) beyond one.
- What the code leaves undefined or unclaimed is cut off by a variable that says so
  (`behind`, `undrained`, `overrun`, `dangling`, `detached`, `mixed`, `missed`, `shared`,
  `stuck`, `raced`, `turned`, `failed`, `unbuilt`, `broken`), and each property names the one it depends on: nothing else may go wrong.

Events, and stoppers, are symmetric; symmetry is used in the runs `queue` and
`loop` only, which check no liveness.

`CHECK_DEADLOCK FALSE` is set where the system may really stop: a runner that is
stopped for good with no thread to send to it (`loop*`), a platform runner at
the end of the clock with no event left that could still be sent
(`platform_threads`), a process that has crashed (`lifecycle*`), and components that
have done everything that their bounds allow (`platform`, `lifecycle`, `services`,
`events_shared`).

### Fairness, and why the code justifies it

- `EventQueue`: the consumer keeps calling `GetEvent` (`EventRunnerImpl::Run` is a
  loop), a wait ends when its time comes, time passes. Nothing is assumed of the
  senders.
- `ResourceCalls`: weak fairness of the pool for each call (`Execute`), which is queued with the
  class `napi_qos_user_initiated`, of the main thread's completions, and of an update of the
  configuration, which is one task of it.
- `EventLoop`: weak fairness of the thread of the loop, which covers its handlers
  returning and the waits ending when they are signalled or time out. Strong
  fairness of `Finish`: a thread that wants `queueLock_` gets it in the end,
  although the loop holds it again and again. Nothing makes epoll fail or be
  interrupted, and nothing makes anyone stop the loop.
- `PlatformRunner`: the looper polls and its callbacks return.
- `AppLifecycle`, `AppConfiguration`, `ContextListeners`, `RejectionManager`,
  `BundleContents`, `RouterMap`, `WantParams`, the timers, results, windows and their listeners claim no liveness.
- `WebDelegate`: the main thread runs its tasks and ends what it has begun to create, and
  the threads of pages go on; nothing makes a script answer.
- `ThreadCollector`: threads, the daemon and the exit go on, as threads do; nothing
  makes a runner end.
- `SyncSend`: a thread goes on unless it sleeps, and handles what is in its queue.
  Spurious wake-ups may happen or not.
- `AbilityDelegator`: the pool takes up tasks, waits time out, completions run.
- `AppEvents`: the timer's runner and the JavaScript thread go on, and a registration
  that was begun ends.
- Surfaces: the GPU executes what was submitted, and an acquire returns if an image is
  free (Android); a timeout ends each wait and the render thread goes on after it (iOS).
  The main thread of iOS is not assumed to do anything. `VulkanContext`, `TextureUpload`,
  `TextureFrames`, `GLContext` and `NestedScroll` claim no liveness.

In `IdleServed` the premise that the queue is idle again and again, and busy
again and again, is part of the property and not assumed of the system: an idle
event that is sent while the queue is idle waits until other events have come and
gone, by design of the time stamp.

## 4. Proofs

Eight modules hold theorems. All invariants and action properties of the runs that are about
the queue, the loop, the platform runner, the lifecycle and the listeners of scripts, and of
the services about the thread collector, synchronous sending, the delegator, application events and their parameters,
and the rejections, are proved for all values of the constants.

### EventQueueProofs

For every set of events, all bounds and any limit of turns: `TypeCorrect`, `AlwaysSorted`,
`NoLostWakeUp` (for `SleepCoversQueue`), `IdleWaitsForAll` (for `IdleYields`),
`PassingIsInTurn` (for `PassesOnlyInTurn`) and `OrderIsKept` (for `KeepsOrder`). The constants
need no more than `BoundsAssumption`, `SendableAssumption` and `FiltersAssumption`: bounds are
naturals, priorities and filters are what their names say.

The inductive invariant is `IInv`: the types, the order of each list, and
`SleepCoversQueue`. Order is needed for wake-ups, because a scan looks at the
fronts only: that no event is due before `EarliestTime` follows from the fronts
by the order of the lists. It is also needed for itself, since `UpperBound` finds
the place of an event only in a sorted list. The lemmas go from sequences (what
an insert and a filter do to a sorted list; removal is a recursive function, and
its facts are proved by induction on the length) to the critical sections, to the
actions. Whether a scan finds something does not depend on how it is written:
`IdleWaitsForAll` rests on the lemma that if no list is a `Candidate` then no
front is due, and `PassingIsInTurn` on the first list that is due being one. Both
are statements about a step and follow from the invariant of the state before it.

`OrderIsKept` says where elements go: `InsertPlaces` that an insert leaves the places
before it and moves those behind it by one, `RemovePlaces` that what a filter leaves comes
from rising places of the old list, `TailOrder` the same of a pick. From each, two events that
were in a list before and after a step stand in the same order. An event that is inserted was
in no list (`NotQueued`), so it is neither of the two.

`PassesAreBounded` (for `BoundedPasses`) is about `EventQueuePasses`, whose variable `passes`
only counts. The counts of turns of the lists before `p` are read as the digits of a number
`Used`, whose digits weigh the product of the turns of the lists before them (`Weight`): a pick
from a list before `p` raises the number, because it takes one turn of its list and
may only reset lists before that one, and the number never exceeds the product of all turns.
So `passes[p]` is covered by the number, or, once a list after `p` was granted a pick
and `p`'s own count started again, by the number and one more round of it
(`PassesCovered`). `UnusedIdle`, that lists nobody sends to take no turns, makes the bound
that of the lists in use. The theorem assumes `MaxHandled > 0`; in the code it is
`DEFAULT_MAX_HANDLED_EVENT_COUNT`, which is 5 (`event_queue.h:224`). Without turns no list
would have to grant a pick.
The loop and the platform runner, which have no such counts, instantiate the module with
`passes <- << >>`; the theorems they use are those about `EventQueue`, which never mention it.

### EventLoopProofs and PlatformRunnerProofs

They prove that the detailed modules implement `EventQueue` (`ContractKept`, for
`QueueContract`), for every set of events, of stoppers and any bounds. Both instantiate
`EventQueueProofs` as `Q` under the mapping of `asleep`, so that the lemmas about critical
sections are used and not proved again; each step of the detailed module is shown to be a step
of the abstract one or to leave it as it is. The assumptions of the constants are those of
`EventQueue`.

The inductive invariant of the loop is `WaiterOK`: besides types, that a thread which
waits holds on to the waiter of the moment, or to one that was signalled when it was
replaced. Without it a thread could be left on a waiter that nobody signals any more,
and `Asleep` would not follow the abstract consumer. `StepRefines` maps every step under
it; `NoSleepAfterFinish` is inductive together with it. From these follow `TypeCorrect`,
`FinishWakes` (for `NoSleepAfterFinish`) and `FinishSilences` (for `SilentAfterFinish`).
The platform runner needs no invariant of its own for `ContractKept`; `TypeOK` and
`SleepCoversQueue` of the queue then hold of it, by the theorems of `EventQueueProofs`,
and `TimerOK`, its own part, says what the timer is set to; `TypeCorrect` and
`TimerIsSet` (for `TimerCoversQueue`) follow from the three. All theorems of
`PlatformRunnerProofs` assume `OtherThreads = FALSE`: with other threads the contract
does not hold, which `platform_threads` shows.

### AppProofs

*AppLifecycle*: `TypeCorrect` and `StageOfEveryAbility` hold for all instances, modules and keys, whether they
collide or not, and on whatever thread the requests come. The invariant `IInv` is the two
together; `HandleOK` shows that each handler keeps it and `PostOK` that this is so whether the
request is posted or handled at once.

`PlatformObeyed` (for `AgreesWithPlatform`), `NothingStays` (for `NothingLeftBehind`) and
`LivesAreLegal` (for `LegalLifecycle`) say more: what the app does with the requests that
are still posted ends where the platform already has its instances. Their
invariant is `Orderly`. `Courses(i)` are the functions that give the life of instance `i` now
and after each posted request, by legal steps (`Moves`), up to what the platform shows;
`AbilitiesOnCourse` says that each ability is where a course of its instance begins,
`StagesInUse` that every instance has a course and every stage one that does not begin with
an instance that is gone (a stage may have no ability, if the ability could not be launched).
`LaunchedFirst` says that the launch is handled before anything else, and which modules are
loaded by then. A request that is posted makes the courses longer (`CourseGrows`), one that is
handled takes their first step (`CourseGoesOn`, `HandlerFollows`), and with nothing posted
a course is one point, the state the platform shows.

These three assume `OnRunnerThread = FALSE` and `DistinctSlots`. On the thread of the runner
`Background` and `Destroy` pass the requests that are posted, and none of the three holds
(`lifecycle_sync` shows where that leads). Instances that share a slot share one ability,
which cannot be where each of them is: the key of an ability is its name and the id of the
instance without a separator, so an ability whose name ends in a digit may meet another one
there. That is the only way instances collide, and the theorems leave it out.

*The listeners*: `ListenersAreTold` (for `ListenersTold`), from one invariant for each component.

`ContextTells` is for any number of registrations and events. What is told is decided when
an event happens, by the copy in its work item, and the work items run in any order while
listeners come and go. `ListenersInv` counts both: a registration was told of an event, or one
work item that tells it is on its way, and never two of these (`TellingOK`, `WorksOK`), or a
listener that failed is why not, which stays so because what was told stays told. A work
item of the state says nothing if its object has gone; that loses nobody, because an object
goes with the last of its listeners, so that whoever such a work item is for was removed.

`WindowsAttach` is for any windows, functions and any number of managers that
serve several windows each. `Agrees(w)`: window `w` keeps exactly those of its
manager's listeners that were made for it, and they have the functions that were asked for. It holds
as long as the manager did not take a listener of one window for that of another, in a
registration or a removal (`mixed`), and with `OneForEach`, that
a manager has one listener for a function, it gives `AttachedAsAsked`; `NoStrays` needs it too,
as the work items keep neither window nor function.

`DisplaysHold` is proved (`DisplaysTold`) for any types and functions, whatever the platform's thread is
going through meanwhile. `OnRecord` says that a listener on record has its function, which is what the
platform's thread asks before it leaves a task; `DueOK` that what is due to a
listener is of its type, since the platform tells all listeners of a kind.

### ThreadCollectorProofs

`TypeCorrect`, and `CollectorIsSafe` (for `CollectorSafe`), for any number of threads. `Owners`
says who owns a thread in terms of the creator's place: from `Deposit` on it is in exactly one
of the map, the daemon's joins, the exit's joins and the joined. `Progressed` says that the
daemon only takes threads that are past `ReclaimCurrentThread`, and that a joined thread is
gone. `ReclaimsFresh` strengthens `NoStaleId`: an id in `reclaims_` is not
one that the daemon is joining either, since that one is joined next. `ExitOrder` has
the order in which the exit goes on: a thread is refused only once the exit has begun, there is
no daemon once `needCreateThread_` is cleared, and the map is empty when the exit is done.

### AppEventsProofs

`TypeCorrect` and `EventsAreSafe` (for the four parts of `AppEvents!EventsSafe`), under
`EventsAssumption`: watchers are finitely many, receivers are among them, thresholds and bounds
are naturals. The invariant is `IInv`. `RowsAgree` says where a watcher is: in the table, at the
number that both its name and `seqOf` give, or between the two steps of its registration,
during which the table may have its number but not yet the watcher, or dropped, and then it is
never published again. `PublishAgrees` says the same of the registration under way, `UnusedIsNew` that a watcher
which was never registered has neither number, count nor batch, so that the numbers that were
given out are no more than the watchers that were used. `LastBatchDelivered` needs to know
what becomes of a list of tasks: that of all watchers a pass triggers is the concatenation of
one list per watcher, and `FlattenHolds` says by induction on the prefixes of the order, with
`NatClosed` for the induction, what is in it. `AddTasks`, `TakeTask` and `AfterTake` then say
that the tasks of a watcher leave the queue in the order in which they came, the destruction
of its context last.

### ServicesProofs

*SyncSend*: `TypeCorrect`, and `WaitsEndWithEvents` (for `WaitsAreAnswered`), for any runners, at least
one, any clients and events, and any size of the pool. That a waiter goes with
its event is not inductive: an event object that is in two places, or in the pool
while it is in use, would be reset under its waiter. `OnePlace` says that an object is in one
queue, at one place of one stack of handlers, or held by one sender; `PoolCounts` that the pool
holds none of these and that `usingCount` is their number, which is what `GetFromPool` and `Drop`
decide by; `HeldIsCreated` that a sender holds an event only until it is inserted.

*EventParams*: `ParamsTypes` and `ParamsAreLatest`. The invariant `LatestIsLast` says that the
last row of a name and key has the value it was last given. It has to be the last one: since
`FindOldParamkeys` finds one key of a name only, another key gets a second row, and the
first keeps an old value. That an event gets the latest value follows from the greatest row
that `FindParams` finds being the last one of its name, or of no name.

*AbilityDelegator*: `DelegatorTypes` and `DelegatorHolds`, for any abilities, stages, monitors, any
size of the pool and number of calls. `DelegatorAssumption` has natural bounds; `Awaited` is that
a test awaits its calls, so that no two of them are under way for one object. Without it the
binding takes the record of a monitor before the task that registers it has run, and the two may
come apart: the property says nothing of that case. `OneEach` is that an object has one native monitor and
a native monitor one object and one match; natives whose number is past the calls made so far
are unknown to everyone; and for an object with a call under way the invariant says what the
record and the registration will be when the task is done, by the kind of the call and the place of
its task (`Registers`, `Moved`).

*The instances*: `CollectorIsSafe`, `DelegatorIsSafe`, `EventsAreSafe` and `EveryoneIsTold` state the
properties of `Services` for the instances, and `TypesAreRight` their types together; each
follows from the theorem of the component and the definition of the property.

### RejectionManagerProofs

`TypeCorrect`, and `EveryoneIsTold` (for `RejectionsTold`), for any promises and
functions. Insertion and removal move the iterators with their elements (`InsertMoves`,
`EraseMoves`); the invariant says what an iterator means. `ToldSoFar`: of the observers that
are due for the promise of the moment, those before the iterator were told once, those after
it not at all, and none has left the set. `Counted` adds that nobody was told of a
promise before its turn and everybody who is still due afterwards; `Kept` is the
bookkeeping of the map. A promise whose loop was cut short has lost those who come after. Like the
property, it says nothing once an observer has erased
the element it is called from.

### Only model-checked

All liveness, which TLAPS cannot prove here. Of the safety properties, those of the other
components that meet in `MCApp` (`WebHolds`, `ScriptsHold` and the temporal
`ConfigurationHolds`), of `MCPlatform` (`PlatformSafe`), and `DataHolds` of `MCServices`: the
configuration, the timers of scripts, results, windows and calls for resources, the web
component, the graphics backend, bundles, routes and wants. What `RouterMap`, `BundleContents` and `WantParams` compute by
recursion over descriptions of modules and values of scripts would need an induction over data,
which is out of reach. The five properties that are expected to be violated have no theorem, of course;
`KeepsMappedEvents` is one of them, though the rest of `AppEvents` is proved.

## 5. Not modelled, and the plan

Left out of the modules above: the queries of the queue (`HasInnerEvent`,
`IsQueueEmpty`, `Dump`), logging, naming of threads, `usable_` (false only once
the queue is being destroyed), the listeners of file descriptors (a ready
descriptor ends a wait, no more), preloading and loading of modules, the foreground state of the whole application.

`AppConfiguration` leaves out direction, density, device type and the font, which have
no levels; `AbilityDelegator` the start of abilities and the end of a test;
`AppEvents` the text and checks of events; `JsTimers` the workers and the loading of
modules; `JsWindows` the getters; `WebDelegate` the events that only tell something
(touch, progress) and the platform's view; the graphics backend protected and recyclable
contexts and the vsync clients; `RejectionManager` the observers of other threads, and an observer
that takes itself away and then throws; `AppEvents` a watcher's task that the engine does not
take (`napi_send_event` fails: `napi_app_event_watcher.cpp:100` deletes the context at once,
and at `:236` the events are not received);
`TextureFrames` an older hardware buffer than the latest when it asks for one; `TextureUpload`
what the callback of `attachCallback` decides, so a source of OpenGL becomes active without one too;
`BundleContents` how descriptions are read from JSON, and most of their members;
`ResourceCalls` the overriding configuration as scripts read and write it, and the drawables;
`RouterMap` the same as `BundleContents`, and numbers in versions that `atoi` cannot hold; `WantParams` the
bindings of native code that sets bytes and characters of scripts (`CreateJsWant`). Two hazards are out of
reach of the modules: a removal filter that locks the last reference to the owner of an
event under the lock of the queue (`event_queue.cpp:213`), and global observers of errors
whose references are used on two threads (`js_error_manager.cpp:281`).

Not modelled at all, and why: assets are parsed and
converted, without state that steps could disagree about; the binding of the JavaScript
engine, which is not in the repository, and the workers it starts are a matter of the
engine's lifetime rules; most methods of the web component and of the windows forward a
property or an event between a toolkit and the platform, neither of them in the
repository, each in the same way as those that stand for them in the modules. These are
most of the lines of the repository, and a model of them would repeat the code.

What could come next:

1. Listeners of file descriptors on top of `EventLoop`, and the lock of the queue
   against `~EventHandler`.
2. The global observers of errors, with the loops of the threads they belong to.
3. The delegator composed with `AppLifecycle` rather than with any order of callbacks.
4. Proofs: the swapchain with the surfaces that use it, then the timers and windows of
   scripts, whose tasks and work items are like those of the listeners.
