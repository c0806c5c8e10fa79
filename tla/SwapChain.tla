------------------------------- MODULE SwapChain -------------------------------
(***************************************************************************)
(* The Vulkan swapchain of a surface (rs_surface_swap_chain) together with   *)
(* the presentation engine and the queue of the GPU, as the surfaces of      *)
(* Android and iOS use them.  The render thread never waits for the GPU: a   *)
(* semaphore of a frame is used again MaxFramesInFlight frames later, when    *)
(* the order of the images alone has to ensure that it is clear.             *)
(***************************************************************************)
EXTENDS Integers, Sequences

CONSTANTS
    Images,     \* the images of a swapchain
    Generations,        \* bounds the numbers of the swapchains, which are taken modulo it
    MaxFramesInFlight,  \* MAX_FRAMES_IN_FLIGHT, 3 in the code
    Sizes,      \* what a client asks for; 0 stands for no size
    MinExtent, MaxExtent  \* capabilities of the surface

VARIABLES
    live,          \* swapchain_ is not VK_NULL_HANDLE
    generation,    \* tells apart the swapchains of one surface (modulo Generations)
    extent,        \* swapChainExtent_
    needRecreate,  \* needRecreateSwapchain_
    pendingSize,   \* pendingWidth_ and pendingHeight_
    imageState,    \* who has an image
    available,     \* frames whose image-available semaphore is signalled, or is about to be
    rendered,      \* frames whose render-finished semaphore is signalled
    gpu            \* what was submitted and not executed, in order

swapVars ==
    <<live, generation, extent, needRecreate, pendingSize, imageState, available, rendered, gpu>>

Frames == 0 .. MaxFramesInFlight - 1


Semaphores == [kind : {"available", "rendered"}, frame : Frames]
Submits == [op : {"submit"}, frame : Frames]
Presents == [op : {"present"}, semaphore : Semaphores, image : Images]

SwapTypeOK ==
    /\ live \in BOOLEAN /\ needRecreate \in BOOLEAN
    /\ generation \in 0 .. Generations - 1
    /\ extent \in {0} \cup MinExtent .. MaxExtent
    /\ pendingSize \in {0} \cup Sizes
    /\ imageState \in [Images -> {"free", "acquired", "queued", "shown"}]
    /\ available \in SUBSET Frames /\ rendered \in SUBSET Frames
    /\ gpu \in Seq(Submits \cup Presents)

SwapInit ==
    /\ live = FALSE /\ generation = 0 /\ extent = 0
    /\ needRecreate = FALSE /\ pendingSize = 0
    /\ imageState = [i \in Images |-> "free"]
    /\ available = {} /\ rendered = {} /\ gpu = << >>

ChooseSwapExtent(s) ==
    IF s < MinExtent THEN MinExtent ELSE IF s > MaxExtent THEN MaxExtent ELSE s

\* After vkDeviceWaitIdle nothing is under way, and the swapchain and the semaphores
\* are destroyed with what they held.
Destroyed ==
    /\ imageState' = [i \in Images |-> "free"]
    /\ available' = {} /\ rendered' = {} /\ gpu' = << >>

\* Create and CreateSyncObjects: fresh images and semaphores, or no swapchain.
Create(s) ==
    \/ live' = TRUE /\ extent' = ChooseSwapExtent(s)
    \/ live' = FALSE /\ extent' \in {extent, ChooseSwapExtent(s)}

Free == {i \in Images : imageState[i] = "free"}

\* AcquireNextImage: the engine gives an image away and will signal the semaphore.
AcquireNextImage(i, f) ==
    /\ imageState[i] = "free"
    /\ imageState' = [imageState EXCEPT ![i] = "acquired"]
    /\ available' = available \cup {f}

\* WaitAndSubmitSkiaContext: waits for the image of the frame, signals that it is drawn.
Submit(f) == [op |-> "submit", frame |-> f]

\* Present: waits for a semaphore, then gives the image back.
Present(k, f, i) == [op |-> "present", semaphore |-> [kind |-> k, frame |-> f], image |-> i]

\* The GPU executes the head of its queue once what it waits for is signalled.
ExecuteSubmit ==
    /\ gpu # << >> /\ Head(gpu).op = "submit"
    /\ LET f == Head(gpu).frame IN
        /\ f \in available
        /\ available' = available \ {f}
        /\ rendered' = rendered \cup {f}
    /\ gpu' = Tail(gpu)
    /\ UNCHANGED <<live, generation, extent, needRecreate, pendingSize, imageState>>

\* The image that was shown is free again when the next one is.
ExecutePresent ==
    /\ gpu # << >> /\ Head(gpu).op = "present"
    /\ LET s == Head(gpu).semaphore IN
        \/ /\ s.kind = "available" /\ s.frame \in available
           /\ available' = available \ {s.frame} /\ UNCHANGED rendered
        \/ /\ s.kind = "rendered" /\ s.frame \in rendered
           /\ rendered' = rendered \ {s.frame} /\ UNCHANGED available
    /\ imageState' = [i \in Images |->
            IF i = Head(gpu).image THEN "shown"
            ELSE IF imageState[i] = "shown" THEN "free" ELSE imageState[i]]
    /\ gpu' = Tail(gpu)
    /\ UNCHANGED <<live, generation, extent, needRecreate, pendingSize>>

Gpu == ExecuteSubmit \/ ExecutePresent
================================================================================
