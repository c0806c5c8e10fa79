------------------------------- MODULE MCPlatform -------------------------------
(***************************************************************************)
(* Instances for TLC of what is written once for each platform: the runner *)
(* of the main thread, nested scrolling, and the graphics backend.  They   *)
(* share no state: `part' says which of them a behaviour is about, and the *)
(* others stay in their initial states.                                    *)
(***************************************************************************)
EXTENDS PlatformRunner

VARIABLES
    part,
    live, generation, extent, needRecreate, pendingSize, imageState, available, rendered, gpu,
    at, currentSize, currentFrame, skiaSurfaces, frame, color, undrained,
    mainQueue, running, outcome, overrun,
    supports, device, devices, families, queueCount, graphicsQueue, presentQueue, pending, backend,
    contexts, life, place, built, keptContexts, outdated, surface, raced,
    vk, pixels, uploaded, drawn, data, sharePtr, active, source, kind, glContext, unbuilt,
    latest, marked, taken, attached, drawing, last, stale, infoMap, oldMap, clearMap, images,
    before, shown, failed,
    count, holders, helpers, cleaning, glContexts, eglContext, current, drGPUContext, framebuffer,
    windows, layer, storage, requested, canvas, broken,
    parents, nested, known, axis, direction, mode, page, started, ended, touched, fling,
    parentEdge, reverse, locked, begun, dragEnds, turned, movement, followed

renderVars ==
    <<live, generation, extent, needRecreate, pendingSize, imageState, available, rendered, gpu,
      at, currentSize, currentFrame, skiaSurfaces, frame>>
androidVars == <<renderVars, color, undrained>>
iosVars == <<renderVars, mainQueue, running, outcome, overrun>>
surfaceVars == <<renderVars, color, undrained, mainQueue, running, outcome, overrun>>
vulkanVars ==
    <<supports, device, devices, families, queueCount, graphicsQueue, presentQueue, pending, backend,
      contexts, life, place, built, keptContexts, outdated, surface, raced>>
uploadVars ==
    <<vk, pixels, uploaded, drawn, data, sharePtr, active, source, kind, glContext, unbuilt>>
frameVars ==
    <<latest, marked, taken, attached, drawing, last, stale, infoMap, oldMap, clearMap, images,
      before, shown, failed>>
glVars ==
    <<count, holders, helpers, cleaning, glContexts, eglContext, current, drGPUContext, framebuffer,
      windows, layer, storage, requested, canvas, broken>>
scrollVars ==
    <<parents, nested, known, axis, direction, mode, page, started, ended, touched, fling,
      parentEdge, reverse, locked, begun, dragEnds, turned, movement, followed>>

\* A client that asks for a size within the limits and for one beyond them.
AndroidSwap == INSTANCE AndroidSurface WITH
    Images <- {0, 1}, MaxFramesInFlight <- 2, Generations <- 2,
    Sizes <- {1, 3}, MinExtent <- 1, MaxExtent <- 2, Colors <- {"srgb", "p3"}

\* As many images as frames in flight, as above, but two of them.
IOSSwap == INSTANCE IOSSurface WITH
    Images <- {0, 1}, MaxFramesInFlight <- 2, Generations <- 4,
    Sizes <- {1, 3}, MinExtent <- 1, MaxExtent <- 2, MaxStale <- 1

\* The render thread and another thread that draws, which two threads come to be.
AndroidVulkan == INSTANCE VulkanContext WITH
    Android <- TRUE, Threads <- {"render", "worker"}, Renderer <- "render",
    MaxDevices <- 3, MaxLives <- 2, made <- devices, at <- place, kept <- keptContexts
IOSVulkan == INSTANCE VulkanContext WITH
    Android <- FALSE, Threads <- {"render", "worker"}, Renderer <- "render",
    MaxDevices <- 3, MaxLives <- 2, made <- devices, at <- place, kept <- keptContexts

\* Pixel buffers of two sizes.
PlatformTexture == INSTANCE TextureUpload WITH
    Platform <- TRUE, Sizes <- {1, 2}, current <- sharePtr
VideoTexture == INSTANCE TextureUpload WITH
    Platform <- FALSE, Sizes <- {1, 2}, current <- sharePtr

\* A frame more than there are buffers, and an image more than there are frames.
GLFrames == INSTANCE TextureFrames WITH
    Backend <- "gl", Buffers <- {"b1", "b2"}, MaxFrames <- 3, MaxInfos <- 4,
    available <- marked, at <- drawing, live <- images, now <- shown
IOSFrames == INSTANCE TextureFrames WITH
    Backend <- "ios", Buffers <- {"b1", "b2"}, MaxFrames <- 3, MaxInfos <- 4,
    available <- marked, at <- drawing, live <- images, now <- shown
VulkanFrames == INSTANCE TextureFrames WITH
    Backend <- "vulkan", Buffers <- {"b1", "b2"}, MaxFrames <- 3, MaxInfos <- 4,
    available <- marked, at <- drawing, live <- images, now <- shown

\* Two surfaces, and a clean-up that comes late.
AndroidGL == INSTANCE GLContext WITH
    Android <- TRUE, Surfaces <- {"s1", "s2"}, MaxContexts <- 3, MaxHelpers <- 2,
    made <- glContexts, gpu <- drGPUContext, frame <- requested
IOSGL == INSTANCE GLContext WITH
    Android <- FALSE, Surfaces <- {"s1", "s2"}, MaxContexts <- 3, MaxHelpers <- 2,
    made <- glContexts, gpu <- drGPUContext, frame <- requested

\* A parent on one axis, a mode for each direction; the page is at both its ends or at neither,
\* and beyond one of them on iOS.
Nestings == {[left |-> "self only", right |-> "parallel", up |-> "parent first", down |-> "self first"]}
AndroidScroll == INSTANCE NestedScroll WITH
    Android <- TRUE, Ancestors <- {{"vertical"}}, Places <- {"both", "inside"},
    place <- page, last <- movement
IOSScroll == INSTANCE NestedScroll WITH
    Android <- FALSE, Ancestors <- {{"vertical"}}, Places <- {"both", "after"},
    place <- page, last <- movement

Parts ==
    {"runner", "android", "ios", "android vulkan", "ios vulkan", "platform texture",
     "video texture", "gl frames", "ios frames", "vulkan frames", "android gl", "ios gl",
     "android scroll", "ios scroll"}

PlatformInit ==
    /\ part \in Parts
    /\ Init
    /\ IF part = "ios" THEN IOSSwap!Init /\ color = "srgb" /\ undrained = FALSE
       ELSE AndroidSwap!Init /\ IOSSwap!MainInit
    /\ AndroidVulkan!Init
    /\ part \notin {"android vulkan", "ios vulkan"} => supports = {}
    /\ IF part = "platform texture" THEN PlatformTexture!Init ELSE VideoTexture!Init
    /\ GLFrames!Init
    /\ AndroidGL!Init
    /\ AndroidScroll!Init
    /\ part \notin {"android scroll", "ios scroll"} => direction = "left"

RunnerStep ==
    /\ part = "runner" /\ Next
    /\ UNCHANGED <<part, surfaceVars, vulkanVars, uploadVars, frameVars, glVars, scrollVars>>
AndroidStep ==
    /\ part = "android" /\ AndroidSwap!Next
    /\ UNCHANGED <<part, vars, vulkanVars, uploadVars, frameVars, glVars, scrollVars,
                   mainQueue, running, outcome, overrun>>
IOSStep ==
    /\ part = "ios" /\ IOSSwap!Next
    /\ UNCHANGED <<part, vars, vulkanVars, uploadVars, frameVars, glVars, scrollVars, color, undrained>>
VulkanStep ==
    /\ \/ part = "android vulkan" /\ AndroidVulkan!Next
       \/ part = "ios vulkan" /\ IOSVulkan!Next
    /\ UNCHANGED <<part, vars, surfaceVars, uploadVars, frameVars, glVars, scrollVars>>
UploadStep ==
    /\ \/ part = "platform texture" /\ PlatformTexture!Next
       \/ part = "video texture" /\ VideoTexture!Next
    /\ UNCHANGED <<part, vars, surfaceVars, vulkanVars, frameVars, glVars, scrollVars>>
FrameStep ==
    /\ \/ part = "gl frames" /\ GLFrames!Next
       \/ part = "ios frames" /\ IOSFrames!Next
       \/ part = "vulkan frames" /\ VulkanFrames!Next
    /\ UNCHANGED <<part, vars, surfaceVars, vulkanVars, uploadVars, glVars, scrollVars>>
GLStep ==
    /\ \/ part = "android gl" /\ AndroidGL!Next
       \/ part = "ios gl" /\ IOSGL!Next
    /\ UNCHANGED <<part, vars, surfaceVars, vulkanVars, uploadVars, frameVars, scrollVars>>
ScrollStep ==
    /\ \/ part = "android scroll" /\ AndroidScroll!Next
       \/ part = "ios scroll" /\ IOSScroll!Next
    /\ UNCHANGED <<part, vars, surfaceVars, vulkanVars, uploadVars, frameVars, glVars>>

PlatformNext ==
    RunnerStep \/ AndroidStep \/ IOSStep \/ VulkanStep \/ UploadStep \/ FrameStep \/ GLStep
    \/ ScrollStep

platformVars == <<part, vars, surfaceVars, vulkanVars, uploadVars, frameVars, glVars, scrollVars>>

\* The fairness of each part.
RunnerGoesOn ==
    /\ WF_vars(part = "runner" /\ Looper)
    /\ WF_vars(part = "runner" /\ Tick)
AndroidGoesOn ==
    /\ WF_androidVars(part = "android" /\ AndroidSwap!GpuStep)
    /\ WF_androidVars(part = "android" /\ AndroidSwap!AcquireEnds)
IOSGoesOn ==
    /\ WF_iosVars(part = "ios" /\ IOSSwap!Timeout)
    /\ WF_iosVars(part = "ios" /\ IOSSwap!GoOn)

PlatformSpec ==
    /\ PlatformInit /\ [][PlatformNext]_platformVars
    /\ RunnerGoesOn /\ AndroidGoesOn /\ IOSGoesOn

-------------------------------------------------------------------------------
\* The types of the graphics backend.
GraphicsTyped ==
    /\ IF part = "ios" THEN IOSSwap!TypeOK ELSE AndroidSwap!TypeOK
    /\ AndroidVulkan!TypeOK /\ PlatformTexture!TypeOK /\ VulkanFrames!TypeOK /\ AndroidGL!TypeOK

\* A frame gets a clear semaphore, and a surface of the swapchain and size it is for; on iOS
\* the main thread and the render thread share the swapchain.  Whoever draws does so on the
\* device or context that is there, with pixels that are there, and gets the latest frame.  A
\* finger moves the page or a parent that scrolls, and parents are told in pairs.
PlatformSafe ==
    /\ GraphicsTyped
    /\ part = "android" => AndroidSwap!SurfaceSafe
    /\ part = "ios" => IOSSwap!SurfaceSafe
    /\ part = "android vulkan" => AndroidVulkan!VulkanSafe
    /\ part = "ios vulkan" => IOSVulkan!VulkanSafe
    /\ part = "platform texture" => PlatformTexture!TextureSafe
    /\ part = "video texture" => VideoTexture!TextureSafe
    /\ part = "gl frames" => GLFrames!FramesSafe
    /\ part = "ios frames" => IOSFrames!FramesSafe
    /\ part = "vulkan frames" => VulkanFrames!FramesSafe
    /\ part = "android gl" => AndroidGL!GLSafe
    /\ part = "ios gl" => IOSGL!GLSafe
    /\ part = "android scroll" => AndroidScroll!TypeOK /\ AndroidScroll!ScrollSafe
    /\ part = "ios scroll" => IOSScroll!TypeOK /\ IOSScroll!ScrollSafe

\* The wait for an image, which has no timeout, ends, and the render thread of iOS never
\* depends on the main thread; with OpenGL a frame of iOS goes to the layer it is for.
FramesReturn ==
    /\ (part = "android" /\ at = "acquire") ~> (at # "acquire" \/ undrained)
    /\ IOSSwap!NeverStuck
    /\ IOSGL!PresentsToLayer
================================================================================
