----------------------------- MODULE AndroidSurface -----------------------------
(***************************************************************************)
(* The Vulkan surface of Android (RSSurfaceAndroidVulkan): the render thread *)
(* requests a frame, draws and flushes it, while the GPU works off what was  *)
(* submitted before.  Every call to Vulkan or Skia may fail.                 *)
(***************************************************************************)
EXTENDS SwapChain

CONSTANT Colors  \* colour spaces, with SRGB

SRGB == "srgb"

VARIABLES
    at,            \* the render thread: idle, acquire, draw
    currentSize,   \* currentWidth_ and currentHeight_
    currentFrame,  \* currentFrame_
    skiaSurfaces,  \* skiaSurfaces_, per image
    frame,         \* the frame the client draws
    color,         \* colorSpace_
    undrained      \* some frame was given up with its image and semaphore still taken

surfaceVars == <<at, currentSize, currentFrame, skiaSurfaces, frame, color, undrained>>
vars == <<swapVars, surfaceVars>>

SkiaSurfaces == [generation : 0 .. Generations - 1, size : MinExtent .. MaxExtent, color : Colors]
NoSurface == [size |-> 0]
NoFrame == [image |-> "none"]

TypeOK ==
    /\ SwapTypeOK
    /\ at \in {"idle", "acquire", "draw"}
    /\ currentSize \in {0} \cup Sizes /\ currentFrame \in Frames
    /\ skiaSurfaces \in [Images -> SkiaSurfaces \cup {NoSurface}]
    /\ at = "draw" <=> frame # NoFrame
    /\ frame # NoFrame => frame \in [image : Images, surface : SkiaSurfaces]
    /\ color \in Colors /\ undrained \in BOOLEAN

Init ==
    /\ SwapInit
    /\ at = "idle" /\ currentSize = 0 /\ currentFrame = 0
    /\ skiaSurfaces = [i \in Images |-> NoSurface] /\ frame = NoFrame
    /\ color = SRGB /\ undrained = FALSE

-------------------------------------------------------------------------------
\* SetNativeWindowInfo: a new size asks for a new swapchain, and is noted unless one
\* was asked for already.
Resized(s) == s # currentSize

NotedSize(s) == IF Resized(s) /\ ~needRecreate THEN s ELSE pendingSize

\* RequestFrame with a swapchain that is still good.  A surface that has left an image
\* undrained is not followed any further.
RequestFrame(s) ==
    /\ at = "idle" /\ ~undrained /\ live /\ ~needRecreate /\ ~Resized(s)
    /\ at' = "acquire"
    /\ UNCHANGED <<swapVars, currentSize, currentFrame, skiaSurfaces, frame, color, undrained>>

\* RequestFrame that recreates the swapchain; the result of Recreate is not looked at,
\* but without a swapchain there is no frame.
RequestFrameRecreating(s) ==
    /\ at = "idle" /\ ~undrained /\ (~live \/ needRecreate \/ Resized(s))
    /\ currentSize' = s
    /\ skiaSurfaces' = [i \in Images |-> NoSurface]
    /\ needRecreate' = FALSE
    /\ generation' = (generation + 1) % Generations
    /\ Destroyed
    /\ Create(IF NotedSize(s) = 0 THEN s ELSE NotedSize(s))
    /\ pendingSize' = 0
    /\ currentFrame' = 0
    /\ at' = IF live' THEN "acquire" ELSE "idle"
    /\ UNCHANGED <<frame, color, undrained>>

\* AcquireSwapchainImage without an image: out of date, or an error that changes nothing.
AcquireFails ==
    /\ at = "acquire"
    /\ needRecreate' \in {TRUE, needRecreate}
    /\ at' = "idle"
    /\ UNCHANGED <<live, generation, extent, pendingSize, imageState, available, rendered, gpu,
                   currentSize, currentFrame, skiaSurfaces, frame, color, undrained>>

\* AcquireSwapchainImage with VK_SUBOPTIMAL_KHR: the image is acquired and not used.
AcquireSuboptimal(i) ==
    /\ at = "acquire"
    /\ AcquireNextImage(i, currentFrame)
    /\ needRecreate' = TRUE
    /\ at' = "idle"
    /\ UNCHANGED <<live, generation, extent, pendingSize, rendered, gpu,
                   currentSize, currentFrame, skiaSurfaces, frame, color, undrained>>

\* GetOrCreateSkiaSurface: the surface of the image, if it has the right size, or a new one.
SkiaSurfaceOf(i) ==
    IF skiaSurfaces[i].size = extent THEN skiaSurfaces[i]
    ELSE [generation |-> generation, size |-> extent, color |-> color]

\* AcquireSwapchainImage and GetOrCreateSkiaSurface: the client gets its frame.
AcquireImage(i) ==
    /\ at = "acquire"
    /\ AcquireNextImage(i, currentFrame)
    /\ skiaSurfaces' = [skiaSurfaces EXCEPT ![i] = SkiaSurfaceOf(i)]
    /\ frame' = [image |-> i, surface |-> SkiaSurfaceOf(i)]
    /\ at' = "draw"
    /\ UNCHANGED <<live, generation, extent, needRecreate, pendingSize, rendered, gpu,
                   currentSize, currentFrame, color, undrained>>

\* No surface can be made: RequestFrame returns without a frame, and keeps the image.
NoSkiaSurface(i) ==
    /\ at = "acquire" /\ skiaSurfaces[i].size # extent
    /\ AcquireNextImage(i, currentFrame)
    /\ skiaSurfaces' = [skiaSurfaces EXCEPT ![i] = NoSurface]
    /\ undrained' = TRUE
    /\ at' = "idle"
    /\ UNCHANGED <<live, generation, extent, needRecreate, pendingSize, rendered, gpu,
                   currentSize, currentFrame, frame, color>>

-------------------------------------------------------------------------------
\* Mutant of NextFrame: one semaphore fewer than images.
NextOfFewer == currentFrame' = (currentFrame + 1) % (MaxFramesInFlight - 1)

NextFrame == currentFrame' = (currentFrame + 1) % MaxFramesInFlight

\* PresentSwapchainImage, after what was submitted: the image is on its way; the swapchain
\* is out of date; or another error, after which nothing is done.
PresentSwapchainImage(submitted, semaphore) ==
    /\ at = "draw" /\ ~needRecreate
    /\ LET done == gpu \o submitted IN
        \/ /\ gpu' = Append(done, Present(semaphore, currentFrame, frame.image))
           /\ imageState' = [imageState EXCEPT ![frame.image] = "queued"]
           /\ NextFrame
           /\ UNCHANGED <<needRecreate, undrained>>
        \/ /\ gpu' = done
           /\ needRecreate' = TRUE
           /\ UNCHANGED <<imageState, currentFrame, undrained>>
        \/ /\ gpu' = done
           /\ undrained' = TRUE
           /\ UNCHANGED <<imageState, needRecreate, currentFrame>>
    /\ frame' = NoFrame /\ at' = "idle"
    /\ UNCHANGED <<live, generation, extent, pendingSize, available, rendered,
                   currentSize, skiaSurfaces, color>>

\* FlushFrame.
FlushFrame == PresentSwapchainImage(<<Submit(currentFrame)>>, "rendered")

\* Mutant of FlushFails: the frame is dropped.
FlushFailsDropped ==
    /\ at = "draw" /\ frame' = NoFrame /\ at' = "idle"
    /\ UNCHANGED <<swapVars, currentSize, currentFrame, skiaSurfaces, color, undrained>>

\* FlushFrame when Skia submits nothing: the image is presented as it is, once acquired.
FlushFails == PresentSwapchainImage(<< >>, "available")

\* SetColorSpace: surfaces with the old colours are given up; a frame keeps its own.
SetColorSpace(c) ==
    /\ c # color
    /\ at # "acquire"
    /\ color' = c
    /\ skiaSurfaces' = [i \in Images |-> NoSurface]
    /\ UNCHANGED <<swapVars, at, currentSize, currentFrame, frame, undrained>>

AcquireEnds == \E i \in Images : AcquireImage(i) \/ AcquireSuboptimal(i) \/ NoSkiaSurface(i)

GpuStep == Gpu /\ UNCHANGED surfaceVars

Next ==
    \/ \E s \in Sizes : RequestFrame(s) \/ RequestFrameRecreating(s)
    \/ AcquireFails \/ AcquireEnds
    \/ FlushFrame \/ FlushFails
    \/ \E c \in Colors : SetColorSpace(c)
    \/ GpuStep

Spec == Init /\ [][Next]_vars /\ WF_vars(GpuStep) /\ WF_vars(AcquireEnds)

-------------------------------------------------------------------------------
\* An image is acquired with a semaphore that nothing signals or waits for any more.
SemaphoreReady == at = "acquire" /\ Free # {} => currentFrame \notin available

\* The surfaces kept for later frames draw on the swapchain that is there, in the colours
\* that are set, and the frame of the client has the size it asked for.
SurfacesCurrent ==
    /\ \A i \in Images : skiaSurfaces[i] # NoSurface =>
        skiaSurfaces[i].generation = generation /\ skiaSurfaces[i].color = color
    /\ frame # NoFrame =>
        /\ live
        /\ frame.surface.generation = generation
        /\ frame.surface.size = ChooseSwapExtent(currentSize)

\* Without any wait for the GPU a frame gets a semaphore that is clear, whatever failed
\* before, as long as every image that was acquired was presented or destroyed.
SurfaceSafe == (~undrained => SemaphoreReady) /\ SurfacesCurrent

\* A request for a frame returns although it waits for an image without a timeout.
RequestReturns == at = "acquire" ~> (at # "acquire" \/ undrained)
================================================================================
