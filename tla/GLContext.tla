------------------------------- MODULE GLContext -------------------------------
(***************************************************************************)
(* The OpenGL context that surfaces share (RenderContextGL of Android and of   *)
(* iOS) and the surfaces that draw with it (RSSurfaceAndroidGL, RSSurfaceGPU). *)
(* Surfaces come and go on any thread; when the last has gone, a helper posts  *)
(* to the render thread that what they shared be destroyed, and by then there  *)
(* may be another.  What was destroyed is made again for the next frame.      *)
(***************************************************************************)
EXTENDS Naturals, FiniteSets

CONSTANTS
    Android,        \* TRUE for Android, FALSE for iOS
    Surfaces,
    MaxContexts,    \* bound: contexts that are made
    MaxHelpers      \* bound: requests to clean up that are posted

NoContext == 0
NoSurface == "none"

VARIABLES
    count,          \* surface_count_
    holders,        \* surfaces that have the render context
    helpers,        \* external: clean-ups posted to the render thread
    cleaning,       \* the render thread has found the count to be zero
    made,           \* contexts made
    eglContext,     \* eglContext_, by number
    current,        \* the context current on the render thread
    gpu,            \* the context drGPUContext_ was built for
    framebuffer,    \* the context framebuffer_ was made in, of iOS
    windows,        \* surfaces with an eglSurface_, of Android
    layer,          \* layer_ while the size of its storage is known, of iOS
    storage,        \* external: what the colour buffer of iOS is storage for
    frame,          \* the surface a frame has been requested for
    canvas,         \* the frame has a canvas
    broken          \* a context, a window or a storage could not be made

vars ==
    <<count, holders, helpers, cleaning, made, eglContext, current, gpu, framebuffer, windows,
      layer, storage, frame, canvas, broken>>
surfaceVars == <<count, holders, helpers>>
contextVars == <<made, eglContext, current, gpu, framebuffer, windows, layer, storage>>

Made == 1 .. MaxContexts
Storages == [surface : Surfaces, context : Made]
NoStorage == [surface |-> NoSurface, context |-> NoContext]

TypeOK ==
    /\ count \in 0 .. Cardinality(Surfaces) /\ helpers \in 0 .. MaxHelpers
    /\ {holders, windows} \subseteq SUBSET Surfaces
    /\ {cleaning, canvas, broken} \subseteq BOOLEAN
    /\ {made, eglContext, current, gpu, framebuffer} \subseteq Made \cup {NoContext}
    /\ {layer, frame} \subseteq Surfaces \cup {NoSurface} /\ storage \in Storages \cup {NoStorage}

Init ==
    /\ count = 0 /\ holders = {} /\ helpers = 0 /\ cleaning = FALSE
    /\ made = 0 /\ eglContext = NoContext /\ current = NoContext /\ gpu = NoContext
    /\ framebuffer = NoContext /\ windows = {} /\ layer = NoSurface /\ storage = NoStorage
    /\ frame = NoSurface /\ canvas = FALSE /\ broken = FALSE

-------------------------------------------------------------------------------
(* Surfaces come and go *)

AddSurface(s) == count' = count + 1 /\ holders' = holders \cup {s}

\* The last to go asks for the clean-up.
DeleteSurface(s) ==
    /\ count' = count - 1 /\ holders' = holders \ {s}
    /\ helpers' = IF count' = 0 THEN helpers + 1 ELSE helpers

SetRenderContext(s) ==
    /\ s \notin holders
    /\ AddSurface(s)
    /\ UNCHANGED <<helpers, cleaning, contextVars, frame, canvas, broken>>

\* SetRenderContext with no context, or with another.
DropRenderContext(s) ==
    /\ s \in holders /\ frame # s /\ helpers < MaxHelpers
    /\ DeleteSurface(s)
    /\ UNCHANGED <<cleaning, contextVars, frame, canvas, broken>>

\* The destructor of a surface, after which there may be another for the same window.  On iOS
\* the size of the storage is forgotten, whichever surface it is for.
DestroyEGLSurface(s) ==
    /\ s \in holders /\ frame # s /\ helpers < MaxHelpers
    /\ DeleteSurface(s)
    /\ windows' = windows \ {s}
    /\ layer' = NoSurface
    /\ UNCHANGED <<cleaning, made, eglContext, current, gpu, framebuffer, storage, frame, canvas, broken>>

-------------------------------------------------------------------------------
(* Cleaning up, on the render thread between frames *)

\* DestroySharedSource looks whether there is another surface by now, ...
StartCleanUp ==
    /\ helpers > 0 /\ ~cleaning /\ frame = NoSurface
    /\ helpers' = helpers - 1
    /\ cleaning' = (count = 0)
    /\ UNCHANGED <<count, holders, contextVars, frame, canvas, broken>>

\* ... and if there is none gives up the GPU context; Android keeps the context, not current,
\* and iOS releases it with its buffers.
AndroidReleases == current' = NoContext /\ UNCHANGED <<eglContext, framebuffer, layer, storage>>

\* Mutant of IOSReleases: the size of the storage is still known.
IOSReleasesBuffers ==
    /\ current' = NoContext /\ eglContext' = NoContext /\ framebuffer' = NoContext
    /\ storage' = NoStorage /\ UNCHANGED layer

IOSReleases ==
    /\ current' = NoContext /\ eglContext' = NoContext /\ framebuffer' = NoContext
    /\ storage' = NoStorage /\ layer' = NoSurface

\* Mutant of DestroySharedSource: the GPU context stays.
KeepGpuContext ==
    /\ cleaning
    /\ cleaning' = FALSE
    /\ IF Android THEN AndroidReleases ELSE IOSReleases
    /\ UNCHANGED <<surfaceVars, made, windows, gpu, frame, canvas, broken>>

DestroySharedSource ==
    /\ cleaning
    /\ cleaning' = FALSE
    /\ gpu' = NoContext
    /\ IF Android THEN AndroidReleases ELSE IOSReleases
    /\ UNCHANGED <<surfaceVars, made, windows, frame, canvas, broken>>

-------------------------------------------------------------------------------
(* Frames *)

\* What RenderContextGL::Init comes to: it makes a context if there is none and only then makes
\* it current, on iOS with a framebuffer.  Nobody looks at its result: without a context, or
\* with one that is not current, the frame goes on.
AsBefore == [context |-> eglContext, current |-> current, buffer |-> framebuffer]
InitMakes(context) ==
    [context |-> context, current |-> context, buffer |-> IF Android THEN NoContext ELSE context]
InitFails(context) == [context |-> context, current |-> current, buffer |-> framebuffer]
Inits ==
    IF eglContext # NoContext THEN {AsBefore}
    ELSE {InitMakes(made + 1), InitFails(made + 1), InitFails(NoContext)}

\* SetUpGpuContext builds on the context that is current, which may be none.
SetUpGpuContext(now) == IF gpu = NoContext THEN now ELSE gpu

\* A window may not be made, and needs a context ...
CreateEGLSurface(s, context) ==
    \/ context # NoContext /\ windows' = windows \cup {s}
    \/ UNCHANGED windows

\* ... and no window leaves no context current.
AndroidMakeCurrent(s, context) == current' = IF s \in windows' THEN context ELSE NoContext

AndroidRequest(s, context) ==
    /\ IF s \in windows THEN UNCHANGED windows ELSE CreateEGLSurface(s, context)
    /\ AndroidMakeCurrent(s, context)
    /\ frame' = s
    /\ UNCHANGED <<layer, storage>>

\* MakeCurrent of iOS: storage for this layer, unless there is; it may not be had.
IOSMakeCurrent(s, context) ==
    /\ current' = context
    /\ \/ layer = s /\ UNCHANGED <<layer, storage>>
       \/ context # NoContext /\ layer' = s /\ storage' = [surface |-> s, context |-> context]
       \/ layer' = NoSurface /\ UNCHANGED storage

\* RequestFrame of iOS gives up if the layer has no size.
IOSRequest(s, init) ==
    /\ UNCHANGED windows
    /\ \/ frame' = s /\ IOSMakeCurrent(s, init.context)
       \/ frame' = NoSurface /\ current' = init.current /\ UNCHANGED <<layer, storage>>

RequestFrame(s) ==
    /\ ~cleaning /\ frame = NoSurface /\ s \in holders /\ made < MaxContexts
    /\ \E init \in Inits :
        /\ eglContext' = init.context /\ framebuffer' = init.buffer
        /\ made' = IF init.context > made THEN made + 1 ELSE made
        /\ gpu' = SetUpGpuContext(init.current)
        /\ IF Android THEN AndroidRequest(s, init.context) ELSE IOSRequest(s, init)
        /\ broken' = \/ broken
                     \/ eglContext = NoContext /\ init = InitFails(init.context)
                     \/ frame' = s /\ (current' = NoContext \/ (~Android /\ layer' # s))
    /\ canvas' = FALSE
    /\ UNCHANGED <<surfaceVars, cleaning>>

\* AcquireSurface, for the canvas of the frame, builds what is still missing.
AcquireSurface ==
    /\ frame # NoSurface /\ ~canvas
    /\ gpu' = SetUpGpuContext(current)
    /\ canvas' = (gpu' # NoContext)
    /\ UNCHANGED <<surfaceVars, cleaning, made, eglContext, current, framebuffer, windows, layer,
                   storage, frame, broken>>

\* FlushFrame of iOS makes sure of the storage once more.
FlushFrame ==
    /\ frame # NoSurface /\ canvas
    /\ IF Android THEN UNCHANGED <<current, layer, storage>> ELSE IOSMakeCurrent(frame, eglContext)
    /\ broken' = (broken \/ (~Android /\ layer' # frame))
    /\ frame' = NoSurface /\ canvas' = FALSE
    /\ UNCHANGED <<surfaceVars, cleaning, made, eglContext, gpu, framebuffer, windows>>

\* A frame that got no canvas is given up.
DropFrame ==
    /\ frame # NoSurface /\ ~canvas
    /\ frame' = NoSurface
    /\ UNCHANGED <<surfaceVars, cleaning, contextVars, canvas, broken>>

Next ==
    \/ \E s \in Surfaces :
        \/ SetRenderContext(s) \/ DropRenderContext(s) \/ DestroyEGLSurface(s) \/ RequestFrame(s)
    \/ StartCleanUp \/ DestroySharedSource
    \/ AcquireSurface \/ FlushFrame \/ DropFrame

-------------------------------------------------------------------------------
\* A canvas draws with the GPU context of the context there is, which is current, as is the
\* framebuffer of iOS; on Android if the windows could be made.
DrawsOnContext ==
    canvas /\ ~broken =>
        /\ gpu = eglContext /\ current = eglContext
        /\ Android \/ framebuffer = eglContext

\* A frame of iOS is presented from the buffer whose storage is that of its own layer, and
\* which belongs to the context that is current.
PresentsToLayer ==
    [][~Android /\ FlushFrame /\ ~broken' =>
        storage' = [surface |-> frame, context |-> eglContext] /\ current' = framebuffer]_vars

\* Once every surface has gone and the clean-ups have run, nothing is shared any more.
SharedWhileUsed ==
    /\ count = Cardinality(holders)
    /\ count = 0 /\ helpers = 0 /\ ~cleaning /\ frame = NoSurface => gpu = NoContext

GLSafe == DrawsOnContext /\ SharedWhileUsed
================================================================================
