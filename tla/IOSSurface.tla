------------------------------- MODULE IOSSurface -------------------------------
(***************************************************************************)
(* The Vulkan surface of iOS (RSSurfaceIOSVulkan).  Its swapchain is created *)
(* and presented by the main thread: the render thread dispatches a block to *)
(* the main queue and waits for it, but not for ever; a generation counter    *)
(* tells a block that starts too late that nobody waits for it any more.      *)
(* The path of iOS 18, where every change of the layer is dispatched.         *)
(***************************************************************************)
EXTENDS SwapChain

CONSTANT MaxStale  \* bounds the blocks in the main queue when a frame is requested

VARIABLES
    at,            \* the render thread: idle, acquire, draw, or what it waits for
    currentSize, currentFrame, skiaSurfaces, frame,
    mainQueue,     \* blocks for the main thread; stale if g_mainDispatchGeneration has
                   \* changed since they were dispatched
    running,       \* the block the main thread is in, if any
    outcome,       \* what the block has come to
    overrun        \* the render thread has given up on a block that was running

renderVars == <<at, currentSize, currentFrame, skiaSurfaces, frame>>
mainVars == <<mainQueue, running, outcome, overrun>>
vars == <<swapVars, renderVars, mainVars>>

Waiting == {"layer", "flush", "create", "present", "drain"}
Blocks == [work : Waiting, stale : BOOLEAN, swapchain : 0 .. Generations - 1]
NoBlock == [work |-> "none"]
SkiaSurfaces == [generation : 0 .. Generations - 1, size : MinExtent .. MaxExtent]
NoSurface == [size |-> 0]
NoFrame == [image |-> "none"]

TypeOK ==
    /\ SwapTypeOK
    /\ at \in {"idle", "acquire", "draw"} \cup Waiting
    /\ currentSize \in {0} \cup Sizes /\ currentFrame \in Frames
    /\ skiaSurfaces \in [Images -> SkiaSurfaces \cup {NoSurface}]
    /\ at \in {"draw", "present", "drain"} <=> frame # NoFrame
    /\ frame # NoFrame => frame \in [image : Images, surface : SkiaSurfaces \cup {NoSurface}]
    /\ mainQueue \in Seq(Blocks) /\ Len(mainQueue) <= MaxStale + 3
    /\ running \in Blocks \cup {NoBlock}
    /\ outcome \in {"none", "done", "failed"}
    /\ overrun \in BOOLEAN

MainInit == mainQueue = << >> /\ running = NoBlock /\ outcome = "none" /\ overrun = FALSE

Init ==
    /\ SwapInit
    /\ at = "idle" /\ currentSize = 0 /\ currentFrame = 0
    /\ skiaSurfaces = [i \in Images |-> NoSurface] /\ frame = NoFrame
    /\ MainInit

-------------------------------------------------------------------------------
\* DispatchOnMainWithTimeout: the block goes to the main queue and the render thread waits.
Dispatch(work) ==
    /\ at' = work
    /\ mainQueue' = Append(mainQueue,
            [work |-> work, stale |-> FALSE, swapchain |-> generation'])
    /\ outcome' = "none"
    /\ UNCHANGED <<running, overrun>>

\* The main thread starts a block, unless it was given up.
BeginBlock ==
    /\ running = NoBlock /\ mainQueue # << >> /\ ~overrun
    /\ mainQueue' = Tail(mainQueue)
    /\ \/ /\ ~Head(mainQueue).stale
          /\ running' = Head(mainQueue) /\ UNCHANGED outcome
       \/ /\ Head(mainQueue).stale
          /\ outcome' = IF Tail(mainQueue) = << >> /\ at \in Waiting THEN "failed" ELSE outcome
          /\ UNCHANGED running
    /\ UNCHANGED <<swapVars, renderVars, overrun>>

\* The running block ends, and signals the semaphore the render thread waits for.
EndBlock(work, result) ==
    /\ running.work = work /\ ~overrun
    /\ running' = NoBlock
    /\ outcome' = result
    /\ UNCHANGED <<mainQueue, overrun>>

\* The blocks that change the layer.
RunLayer ==
    /\ EndBlock("layer", "done") \/ EndBlock("flush", "done")
    /\ UNCHANGED <<swapVars, renderVars>>

\* CreateImpl.
RunCreate ==
    /\ Create(IF pendingSize = 0 THEN currentSize ELSE pendingSize)
    /\ EndBlock("create", IF live' THEN "done" ELSE "failed")
    /\ UNCHANGED <<generation, needRecreate, pendingSize, imageState, available, rendered, gpu>>
    /\ UNCHANGED renderVars

\* PresentImpl, if the swapchain is that of the dispatch; or any failure.
RunPresent(work, semaphore) ==
    /\ \/ /\ EndBlock(work, "done")
          /\ running.swapchain = generation
          /\ gpu' = Append(gpu, Present(semaphore, currentFrame, frame.image))
          /\ imageState' = [imageState EXCEPT ![frame.image] = "queued"]
       \/ EndBlock(work, "failed") /\ UNCHANGED <<gpu, imageState>>
    /\ UNCHANGED <<live, generation, extent, needRecreate, pendingSize, available, rendered>>
    /\ UNCHANGED renderVars

MainThread ==
    \/ BeginBlock \/ RunLayer \/ RunCreate
    \/ RunPresent("present", "rendered") \/ RunPresent("drain", "available")

\* Mutant of Discard: the generation is left as it is.
DiscardNothing == UNCHANGED mainQueue

\* A timeout increments g_mainDispatchGeneration: what is still in the queue is stale.
Discard == mainQueue' = [i \in DOMAIN mainQueue |-> [mainQueue[i] EXCEPT !.stale = TRUE]]

\* A call of another surface times out: the counter is one for all of them.
OtherTimeout ==
    /\ Discard
    /\ mainQueue' # mainQueue
    /\ UNCHANGED <<swapVars, renderVars, running, outcome, overrun>>

\* Mutant of MayTimeOut: the swapchain is created however long it takes.
MayTimeOutUnlessCreating == at \in Waiting \ {"create"}

MayTimeOut == at \in Waiting

\* The wait of DispatchOnMainWithTimeout ends without its block.
Timeout ==
    /\ MayTimeOut /\ outcome = "none"
    /\ outcome' = "failed"
    /\ Discard
    /\ overrun' = (overrun \/ running # NoBlock)
    /\ UNCHANGED <<swapVars, renderVars, running>>

-------------------------------------------------------------------------------
\* RequestFrame with another size: the layer is resized
\* on the main thread first, whatever comes of it.
Resize(s) ==
    /\ needRecreate' = TRUE /\ pendingSize' = s /\ currentSize' = s
    /\ UNCHANGED generation
    /\ Dispatch("layer")
    /\ UNCHANGED <<live, extent, imageState, available, rendered, gpu,
                   currentFrame, skiaSurfaces, frame>>

\* RecreateSwapchainIfNeeded up to FlushMetalLayerDrawableOnMain in Recreate: the GPU is
\* idle and the handles are set aside.
StartRecreate ==
    /\ skiaSurfaces' = [i \in Images |-> NoSurface]
    /\ needRecreate' = FALSE
    /\ generation' = (generation + 1) % Generations
    /\ live' = FALSE
    /\ Destroyed
    /\ Dispatch("flush")
    /\ UNCHANGED <<extent, pendingSize, currentSize, currentFrame, frame>>

Outdated == ~live \/ needRecreate

\* RequestFrame.
RequestFrame(s) ==
    /\ at = "idle" /\ ~overrun /\ Len(mainQueue) <= MaxStale
    /\ \/ s # currentSize /\ Resize(s)
       \/ s = currentSize /\ Outdated /\ StartRecreate
       \/ /\ s = currentSize /\ ~Outdated
          /\ at' = "acquire"
          /\ UNCHANGED <<swapVars, currentSize, currentFrame, skiaSurfaces, frame, mainVars>>

\* After RecreateSwapchainIfNeeded, which does not look at the result of Recreate.
Recreated(next) ==
    /\ pendingSize' = 0 /\ currentFrame' = 0 /\ at' = next
    /\ UNCHANGED <<extent, imageState, available, rendered, gpu, currentSize, skiaSurfaces, frame>>

\* A wait has ended, with its block or without.
Waited == at \in Waiting /\ outcome # "none" /\ (running = NoBlock \/ overrun)

\* What the render thread does then.
Continue(ok) ==
    \/ at = "layer" /\ StartRecreate
    \/ /\ at = "flush"  \* CreateMetalSurface, then Create
       /\ \/ /\ UNCHANGED <<swapVars, currentSize, currentFrame, skiaSurfaces, frame>>
             /\ Dispatch("create")
          \/ /\ Recreated("idle") /\ needRecreate' = TRUE
             /\ UNCHANGED <<live, generation, mainQueue, running, outcome, overrun>>
    \/ /\ at = "create"
       /\ IF ok
          THEN /\ generation' = (generation + 1) % Generations
               /\ Recreated("acquire") /\ UNCHANGED needRecreate
          ELSE /\ UNCHANGED generation
               /\ Recreated("idle") /\ needRecreate' = TRUE  \* MarkRecreateFailed
       /\ UNCHANGED <<live, mainVars>>
    \/ /\ at \in {"present", "drain"}
       /\ currentFrame' = IF ok THEN (currentFrame + 1) % MaxFramesInFlight ELSE currentFrame
       /\ needRecreate' = IF ok THEN needRecreate ELSE TRUE
       /\ frame' = NoFrame /\ at' = "idle"
       /\ UNCHANGED <<live, generation, extent, pendingSize, imageState, available, rendered, gpu>>
       /\ UNCHANGED <<currentSize, skiaSurfaces, mainVars>>

-------------------------------------------------------------------------------
AcquireReturns == at = "acquire" /\ UNCHANGED <<currentSize, currentFrame, mainVars>>

\* AcquireSwapchainImage without an image: an error, or out of date or timed out.
AcquireFails ==
    /\ AcquireReturns
    /\ needRecreate' \in {TRUE, needRecreate}
    /\ at' = "idle"
    /\ UNCHANGED <<live, generation, extent, pendingSize, imageState, available, rendered, gpu,
                   skiaSurfaces, frame>>

\* AcquireSwapchainImage with VK_SUBOPTIMAL_KHR: the image is acquired and not used.
AcquireSuboptimal(i) ==
    /\ AcquireReturns
    /\ AcquireNextImage(i, currentFrame)
    /\ needRecreate' = TRUE
    /\ at' = "idle"
    /\ UNCHANGED <<live, generation, extent, pendingSize, rendered, gpu, skiaSurfaces, frame>>

\* GetOrCreateSkiaSurface: the surface of the image, if it has the right size, or a new one.
SkiaSurfaceOf(i) ==
    IF skiaSurfaces[i].size = extent THEN skiaSurfaces[i]
    ELSE [generation |-> generation, size |-> extent]

\* The client gets its frame.
AcquireImage(i) ==
    /\ AcquireReturns
    /\ AcquireNextImage(i, currentFrame)
    /\ skiaSurfaces' = [skiaSurfaces EXCEPT ![i] = SkiaSurfaceOf(i)]
    /\ frame' = [image |-> i, surface |-> SkiaSurfaceOf(i)]
    /\ at' = "draw"
    /\ UNCHANGED <<live, generation, extent, needRecreate, pendingSize, rendered, gpu>>

\* ReleaseAcquiredSwapchainImage presents the image as it is, once it is acquired.
ReleaseAcquiredSwapchainImage(i) ==
    /\ frame' = [image |-> i, surface |-> NoSurface]
    /\ Dispatch("drain")

\* No surface can be made: the image is given back before RequestFrame returns.
NoSkiaSurface(i) ==
    /\ at = "acquire" /\ skiaSurfaces[i].size # extent
    /\ AcquireNextImage(i, currentFrame)
    /\ skiaSurfaces' = [skiaSurfaces EXCEPT ![i] = NoSurface]
    /\ UNCHANGED <<live, generation, extent, needRecreate, pendingSize, rendered, gpu>>
    /\ ReleaseAcquiredSwapchainImage(i)
    /\ UNCHANGED <<currentSize, currentFrame>>

\* FlushFrame: the drawing is submitted, then presented; if Skia submits nothing, the
\* image is presented as it is.  Nothing asks for another swapchain in the meantime.
FlushFrame ==
    /\ at = "draw"
    /\ UNCHANGED <<live, generation, extent, needRecreate, pendingSize, imageState, available, rendered>>
    /\ UNCHANGED <<currentSize, currentFrame, skiaSurfaces, frame>>
    /\ \/ gpu' = Append(gpu, Submit(currentFrame)) /\ Dispatch("present")
       \/ UNCHANGED gpu /\ Dispatch("drain")

\* SetColorSpace gives up the surfaces with the old colours.
SetColorSpace ==
    /\ at \in {"idle", "draw"}
    /\ skiaSurfaces' = [i \in Images |-> NoSurface]
    /\ UNCHANGED <<swapVars, at, currentSize, currentFrame, frame, mainVars>>

GoOn == Waited /\ Continue(outcome = "done")

AcquireEnds == \E i \in Images : AcquireImage(i) \/ AcquireSuboptimal(i) \/ NoSkiaSurface(i)

GpuStep == Gpu /\ UNCHANGED <<renderVars, mainVars>>

Next ==
    \/ \E s \in Sizes : RequestFrame(s)
    \/ GoOn \/ Timeout
    \/ AcquireFails \/ AcquireEnds
    \/ FlushFrame \/ SetColorSpace
    \/ MainThread \/ OtherTimeout
    \/ GpuStep

\* Only the waits of the render thread are fair: the main thread need not run at all.
Spec == Init /\ [][Next]_vars /\ WF_vars(Timeout) /\ WF_vars(GoOn)

-------------------------------------------------------------------------------
\* The main thread is in a block of this surface only while the render thread waits for
\* that very block: neither touches the swapchain while the other does.
Exclusive ==
    running # NoBlock => at \in Waiting /\ at = running.work /\ mainQueue = << >>

\* An image is acquired with a semaphore that nothing signals or waits for any more.
SemaphoreReady == at = "acquire" /\ Free # {} => currentFrame \notin available

\* Surfaces draw on the swapchain that is there, and a frame has the size asked for.
SurfacesCurrent ==
    /\ \A i \in Images : skiaSurfaces[i] # NoSurface => skiaSurfaces[i].generation = generation
    /\ at = "draw" =>
        /\ live
        /\ frame.surface.generation = generation
        /\ frame.surface.size = ChooseSwapExtent(currentSize)

\* Whatever fails and however late the main thread is, as long as it does not stay in a
\* block beyond the timeout: it works on the swapchain alone, and every frame gets a clear
\* semaphore and a surface of the swapchain that is there.
SurfaceSafe == ~overrun => Exclusive /\ SemaphoreReady /\ SurfacesCurrent

\* The render thread is never kept waiting, even by a main thread that waits for it.
NeverStuck == at \in Waiting ~> at \notin Waiting
================================================================================
