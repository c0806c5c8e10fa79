----------------------------- MODULE VulkanContext -----------------------------
(***************************************************************************)
(* The Vulkan device of the process and the contexts that threads draw with    *)
(* (RsVulkanInterface and RsVulkanContext of Android and of iOS).  The device  *)
(* is made before there is a surface; when the first surface turns out to need *)
(* another queue family for presenting, the device is destroyed and made anew, *)
(* while other threads may be getting a context.  The render context and the   *)
(* surface keep the context they draw with, beside that of the thread.         *)
(***************************************************************************)
EXTENDS Naturals

CONSTANTS
    Android,      \* TRUE for Android, FALSE for iOS
    Threads,      \* that draw
    Renderer,     \* the thread of them that makes the surfaces
    MaxDevices,   \* bound: devices that are made
    MaxLives      \* bound: threads that have come to have one thread's identifier

\* Queue families of the GPU; the first one that draws is the graphics family.
Graphics == "graphics"
Present == "present"
NoFamily == "none"
Families == {Graphics, Present}

NoDevice == 0
Queues == [device : 1 .. MaxDevices, family : Families]
NoQueue == [device |-> NoDevice, family |-> NoFamily]
Contexts == [device : 1 .. MaxDevices, life : 1 .. MaxLives]
NoContext == [device |-> NoDevice, life |-> 0]

\* Who keeps a context: RenderContextVK, and on iOS the surface.
Holders == {"render", "surface"}
Keepers == IF Android THEN {"render"} ELSE Holders

VARIABLES
    supports,      \* external: the families that can present to the windows of this system
    device,        \* device_, by number
    made,          \* devices made so far
    families,      \* those the device was made with
    queueCount,    \* queueCount_, of Android
    graphicsQueue, presentQueue,
    pending,       \* pendingPresentQueueFamilyIndex_
    backend,       \* the device that backendContext_ names
    contexts,      \* drawingContextMap_: per thread
    life,          \* threads that have had this identifier
    at,            \* per thread: where it is
    built,         \* per thread: the context it is about to save
    kept,          \* drGPUContext_ of the render context, mSkContext_ of the surface
    outdated,      \* whose device has been replaced since
    surface,       \* the last request for a surface: "none", "asked", "made" or "failed"
    raced          \* a thread was getting a context while a device was replaced

vars ==
    <<supports, device, made, families, queueCount, graphicsQueue, presentQueue, pending, backend,
      contexts, life, at, built, kept, outdated, surface, raced>>

keptVars == <<kept, outdated>>
deviceVars == <<supports, device, made, families, queueCount, graphicsQueue, presentQueue, pending>>

TypeOK ==
    /\ supports \subseteq Families /\ families \subseteq Families
    /\ {device, backend} \subseteq 0 .. MaxDevices /\ made \in 1 .. MaxDevices
    /\ queueCount \in 1 .. 2
    /\ {graphicsQueue, presentQueue} \subseteq Queues \cup {NoQueue}
    /\ pending \in Families \cup {NoFamily}
    /\ {contexts, built} \subseteq [Threads -> Contexts \cup {NoContext}]
    /\ life \in [Threads -> 1 .. MaxLives]
    /\ at \in [Threads -> {"idle", "create", "save", "release", "destroy", "device", "backend"}]
    /\ kept \in [Holders -> Contexts \cup {NoContext}] /\ outdated \subseteq Holders
    /\ surface \in {"none", "asked", "made", "failed"}
    /\ raced \in BOOLEAN

\* The constructor has made a device and a context for the thread it ran on.
Init ==
    /\ supports \in SUBSET Families
    /\ device = 1 /\ made = 1 /\ families = {Graphics} /\ queueCount = 1 /\ backend = 1
    /\ graphicsQueue = [device |-> 1, family |-> Graphics] /\ presentQueue = graphicsQueue
    /\ pending = NoFamily
    /\ life = [t \in Threads |-> 1]
    /\ contexts = [t \in Threads |-> IF t = Renderer THEN [device |-> 1, life |-> 1] ELSE NoContext]
    /\ at = [t \in Threads |-> "idle"] /\ built = [t \in Threads |-> NoContext]
    /\ kept = [h \in Holders |-> NoContext] /\ outdated = {}
    /\ surface = "none" /\ raced = FALSE

-------------------------------------------------------------------------------
(* The contexts of threads *)

Goes(t, place) == at' = [at EXCEPT ![t] = place]

\* GetDrawingContext of a thread that has none in the map; one that has takes it.
GetDrawingContext(t) ==
    /\ at[t] = "idle" /\ contexts[t] = NoContext
    /\ Goes(t, "create")
    /\ UNCHANGED <<deviceVars, backend, contexts, life, built, keptVars, surface, raced>>

\* DoCreateDrawingContext: Android builds on what the backend names, even if that device is
\* gone; iOS looks for a device first, whichever it is.
AndroidMayBuild == TRUE
IOSMayBuild == device # NoDevice

DoCreateDrawingContext(t) ==
    /\ at[t] = "create"
    /\ IF IF Android THEN AndroidMayBuild ELSE IOSMayBuild
       THEN /\ built' = [built EXCEPT ![t] = [device |-> backend, life |-> life[t]]]
            /\ raced' = (raced \/ backend # device)
            /\ Goes(t, "save")
       ELSE /\ Goes(t, "idle")
            /\ UNCHANGED <<built, raced>>
    /\ UNCHANGED <<deviceVars, backend, contexts, life, keptVars, surface>>

SaveNewDrawingContext(t) ==
    /\ at[t] = "save"
    /\ contexts' = [contexts EXCEPT ![t] = built[t]]
    /\ built' = [built EXCEPT ![t] = NoContext]
    /\ Goes(t, "idle")
    /\ UNCHANGED <<deviceVars, backend, life, keptVars, surface, raced>>

\* A thread ends, and another gets its identifier.  On Android the holder of the thread
\* releases its context; on iOS the context stays under a hash of the identifier.
ReleaseDrawingContextForThread(t) == contexts' = [contexts EXCEPT ![t] = NoContext]

ThreadEnds(t) ==
    /\ t # Renderer /\ at[t] = "idle" /\ life[t] < MaxLives
    /\ life' = [life EXCEPT ![t] = @ + 1]
    /\ IF Android THEN ReleaseDrawingContextForThread(t) ELSE UNCHANGED contexts
    /\ UNCHANGED <<deviceVars, backend, at, built, keptVars, surface, raced>>

-------------------------------------------------------------------------------
(* Surfaces, what they draw with, and the device they need *)

\* SetupGrContext, with SetUpGpuContext: who keeps no context yet takes that of the thread, and
\* never looks again.
SetupGrContext ==
    /\ at[Renderer] = "idle" /\ contexts[Renderer] # NoContext
    /\ \E h \in Keepers : kept[h] = NoContext
    /\ kept' = [h \in Holders |->
                  IF h \in Keepers /\ kept[h] = NoContext THEN contexts[Renderer] ELSE kept[h]]
    /\ UNCHANGED <<deviceVars, backend, contexts, life, at, built, outdated, surface, raced>>

\* Another surface object, which keeps nothing yet; the render context is the same.
NewSurface ==
    /\ at[Renderer] = "idle" /\ kept["surface"] # NoContext
    /\ kept' = [kept EXCEPT !["surface"] = NoContext]
    /\ outdated' = outdated \ {"surface"}
    /\ surface' = "none"
    /\ UNCHANGED <<deviceVars, backend, contexts, life, at, built, raced>>

\* FindQueueFamilies: if the graphics family can present, Android presents on its queue.
AndroidFindQueueFamilies ==
    presentQueue' = IF Graphics \in supports THEN graphicsQueue ELSE presentQueue
IOSFindQueueFamilies == UNCHANGED presentQueue

\* Mutant: a device with one queue is good for every surface.
NeverApart == FALSE

\* CreateAndroidSurface makes a device with a present queue once, CreateMetalSurface every time;
\* a frame of iOS asks for its surface only once it has a context to draw with.
AndroidNeedsDevice == Graphics \notin supports /\ queueCount <= 1
IOSNeedsDevice == Graphics \notin supports

CreateSurface ==
    /\ at[Renderer] = "idle" /\ made < MaxDevices
    /\ "surface" \in Keepers => kept["surface"] # NoContext
    /\ IF Android THEN AndroidFindQueueFamilies ELSE IOSFindQueueFamilies
    /\ IF supports = {} THEN surface' = "failed" /\ UNCHANGED at
       ELSE IF IF Android THEN AndroidNeedsDevice ELSE IOSNeedsDevice
       THEN surface' = "asked" /\ Goes(Renderer, "release")
       ELSE surface' = "made" /\ UNCHANGED at
    /\ UNCHANGED <<supports, device, made, families, queueCount, graphicsQueue, pending, backend,
                   contexts, life, built, keptVars, raced>>

\* Mutant of ReleaseDrawingContextMap: the contexts of the old device are kept.
KeepDrawingContextMap ==
    /\ at[Renderer] = "release"
    /\ pending' = Present
    /\ Goes(Renderer, "destroy")
    /\ UNCHANGED <<supports, device, made, families, queueCount, graphicsQueue, presentQueue, backend,
                   contexts, life, built, keptVars, surface, raced>>

\* RecreateDeviceForPresentFamily: the map is released first ...
ReleaseDrawingContextMap ==
    /\ at[Renderer] = "release"
    /\ pending' = Present
    /\ contexts' = [t \in Threads |-> NoContext]
    /\ Goes(Renderer, "destroy")
    /\ UNCHANGED <<supports, device, made, families, queueCount, graphicsQueue, presentQueue, backend,
                   life, built, keptVars, surface, raced>>

\* ... then the device is destroyed, for which nobody holds a lock ...
DestroyDevice ==
    /\ at[Renderer] = "destroy"
    /\ device' = NoDevice /\ graphicsQueue' = NoQueue /\ presentQueue' = NoQueue
    /\ families' = {}
    /\ raced' = (raced \/ \E t \in Threads : at[t] \in {"create", "save"} \/ contexts[t] # NoContext)
    /\ outdated' = {h \in Holders : kept[h] # NoContext}
    /\ Goes(Renderer, "device")
    /\ UNCHANGED <<supports, made, queueCount, pending, backend, contexts, life, built, kept, surface>>

\* ... and made anew, with both families.  Should that fail, Android has counted its queues
\* already.
AndroidCountsQueues == queueCount' = 2
IOSCountsQueues == UNCHANGED queueCount
CountsQueues == IF Android THEN AndroidCountsQueues ELSE IOSCountsQueues

AndroidFamilies == {Graphics, pending}
IOSFamilies == {Graphics, pending}

CreateDevice ==
    /\ at[Renderer] = "device"
    /\ device' = made + 1 /\ made' = made + 1
    /\ families' = IF Android THEN AndroidFamilies ELSE IOSFamilies
    /\ graphicsQueue' = [device |-> device', family |-> Graphics]
    /\ presentQueue' = [device |-> device', family |-> pending]
    /\ CountsQueues
    /\ Goes(Renderer, "backend")
    /\ UNCHANGED <<supports, pending, backend, contexts, life, built, keptVars, surface, raced>>

\* A device that lacks a function counts as none.
CreateDeviceFails ==
    /\ at[Renderer] = "device"
    /\ CountsQueues
    /\ pending' = NoFamily
    /\ surface' = "failed"
    /\ Goes(Renderer, "idle")
    /\ UNCHANGED <<supports, device, made, families, graphicsQueue, presentQueue, backend, contexts,
                   life, built, keptVars, raced>>

\* Contexts are built on the new device once CreateSkiaBackendContext has named it; Android
\* then still calls the present family pending.
AndroidPending == pending
IOSPending == NoFamily

CreateSkiaBackendContext ==
    /\ at[Renderer] = "backend"
    /\ backend' = device
    /\ pending' = IF Android THEN AndroidPending ELSE IOSPending
    /\ surface' = "made"
    /\ Goes(Renderer, "idle")
    /\ UNCHANGED <<supports, device, made, families, queueCount, graphicsQueue, presentQueue,
                   contexts, life, built, keptVars, raced>>

Next ==
    \/ \E t \in Threads :
        \/ GetDrawingContext(t) \/ DoCreateDrawingContext(t) \/ SaveNewDrawingContext(t)
        \/ ThreadEnds(t)
    \/ SetupGrContext \/ NewSurface
    \/ CreateSurface \/ ReleaseDrawingContextMap \/ DestroyDevice
    \/ CreateDevice \/ CreateDeviceFails \/ CreateSkiaBackendContext

Spec == Init /\ [][Next]_vars

-------------------------------------------------------------------------------
\* Android goes on without a device once one could not be made.
HasDevice == Android => device # NoDevice

\* A surface that was made can be presented to on the queue that is used for it, whichever
\* family that takes and however often surfaces are made.
CanPresent ==
    surface = "made" /\ HasDevice =>
        presentQueue.device = device /\ presentQueue.family \in supports \cap families

\* Queues are those of the device that is there.
QueuesOfDevice ==
    \A q \in {graphicsQueue, presentQueue} \ {NoQueue} : q.device = device /\ q.family \in families

\* What the thread that makes surfaces finds in the map is on the device that is there; the
\* others have a context of an older one only if they were getting it while that was replaced.
ContextsOfDevice ==
    /\ at[Renderer] = "idle" /\ contexts[Renderer] # NoContext /\ HasDevice =>
            contexts[Renderer].device = device
    /\ ~raced => \A t \in Threads : contexts[t].device \in {NoDevice, device}

\* What is drawn with is kept beside the map, and not refreshed with it: it is on the device that
\* is there exactly as long as no device has been made in the place of the one it was set up on.
KeptOfDevice ==
    at[Renderer] = "idle" /\ HasDevice =>
        \A h \in Holders : kept[h] # NoContext => (kept[h].device = device <=> h \notin outdated)

\* On Android no thread draws with the context of one that has ended.
OwnContexts == Android => \A t \in Threads : contexts[t].life \in {0, life[t]}

VulkanSafe == CanPresent /\ QueuesOfDevice /\ ContextsOfDevice /\ KeptOfDevice /\ OwnContexts
================================================================================
