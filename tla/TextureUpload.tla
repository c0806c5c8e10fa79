----------------------------- MODULE TextureUpload -----------------------------
(***************************************************************************)
(* The external textures of iOS with Vulkan: RSSurfaceTextureIOS, of a video,  *)
(* and RSSurfacePlatformTextureIOS, of a video, a platform view or a texture   *)
(* of the platform.  Each new pixel buffer is copied by way of a staging       *)
(* buffer into an image, both made anew when the size asks for it, and every   *)
(* one of those steps can fail.  All of this is on the render thread.         *)
(***************************************************************************)
EXTENDS Naturals

CONSTANTS
    Platform,     \* TRUE for RSSurfacePlatformTextureIOS
    Sizes         \* external: of pixel buffers, positive

\* Objects of the device that a texture owns.
Kinds == {"pool", "image", "imageMemory", "buffer", "bufferMemory"}

\* Where an upload fails, if it does: each call of Vulkan, and an unknown pixel format.
Failures ==
    {"format", "pool", "image", "imageMemory", "imageBind", "buffer", "bufferMemory", "bufferBind",
     "map", "record", "submit"}
Nothing == "nothing"

\* What config_.additionalData can be.
Sources == {"video1", "video2", "view", "platform"}
NoSource == "none"
KindOf(s) ==
    IF s \in {"video1", "video2"} THEN "video" ELSE IF s = "view" THEN "view" ELSE "gl"

VARIABLES
    vk,           \* the members of the texture that begin with vk, and what the device has
    pixels,       \* size of buffer_ref_, or 0
    uploaded,     \* the last upload succeeded
    drawn,        \* the last drawing: the size claimed for the image, or 0, and the image's
    data,         \* config_.additionalData
    current,      \* currentSharePtr_
    active,       \* active_
    source,       \* videoOutput_ or platformViewFrameProvider_
    kind,         \* isVideo_ and isPlatformViewFrameProvider_
    glContext,    \* the EAGLContext of the thread: "caller", or the texture's "own"
    unbuilt       \* BuildFromTexture has failed for a texture of the platform

vars == <<vk, pixels, uploaded, drawn, data, current, active, source, kind, glContext, unbuilt>>
uploadVars == <<vk, pixels, uploaded>>
sourceVars == <<data, current, active, source, kind>>
glVars == <<glContext, unbuilt>>

NoImage == [
    has |-> [k \in Kinds |-> FALSE],     \* handles that are not null
    live |-> [k \in Kinds |-> 0],        \* objects made and not destroyed
    width |-> 0, ready |-> FALSE,        \* vkImageWidth_ and vkImageHeight_, vkImageReady_
    stagingSize |-> 0,                   \* vkStagingBufferSize_
    room |-> 0,                          \* what the memory bound to the buffer holds
    contents |-> 0,                      \* what has been copied into the image
    misused |-> FALSE]                   \* more was copied than the buffer has memory for

TypeOK ==
    /\ vk.has \in [Kinds -> BOOLEAN] /\ vk.live \in [Kinds -> 0 .. 2]
    /\ {vk.width, vk.stagingSize, vk.room, vk.contents, pixels} \subseteq Sizes \cup {0}
    /\ {vk.ready, vk.misused, uploaded, active, unbuilt} \subseteq BOOLEAN
    /\ drawn \in [claimed : Sizes \cup {0}, actual : Sizes \cup {0}]
    /\ {data, current, source} \subseteq Sources \cup {NoSource}
    /\ kind \in {"none", "video", "view", "gl"} /\ glContext \in {"caller", "own"}

Init ==
    /\ vk = NoImage /\ pixels = 0 /\ uploaded = TRUE /\ drawn = [claimed |-> 0, actual |-> 0]
    /\ data \in IF Platform THEN Sources \cup {NoSource} ELSE {"video1"}
    /\ IF Platform
       THEN current = NoSource /\ active = FALSE /\ source = NoSource /\ kind = "none"
       ELSE current = data /\ active = TRUE /\ source = data /\ kind = "video"
    /\ glContext = "caller" /\ unbuilt = FALSE

-------------------------------------------------------------------------------
(* Uploading *)

Made(v, k) == [v EXCEPT !.has[k] = TRUE, !.live[k] = @ + 1]
Destroyed(v, k) == IF v.has[k] THEN [v EXCEPT !.has[k] = FALSE, !.live[k] = @ - 1] ELSE v

EnsureVulkanCommandPool(v, fails) == IF v.has["pool"] \/ fails = "pool" THEN v ELSE Made(v, "pool")

DestroyVkImageResources(v) ==
    [Destroyed(Destroyed(v, "image"), "imageMemory") EXCEPT !.contents = 0]

\* Mutant: the image is ready as soon as there is one.
EnsureReadyImage(v, size, fails) ==
    IF v.has["image"] /\ v.width = size THEN v
    ELSE LET old == DestroyVkImageResources(v) IN
         IF fails \in {"image", "imageMemory", "imageBind"} THEN old
         ELSE [Made(Made(old, "image"), "imageMemory") EXCEPT !.width = size]

\* The handles of an image that could not be given memory are null again.
EnsureVkImage(v, size, fails) ==
    IF v.has["image"] /\ v.width = size THEN v
    ELSE LET old == DestroyVkImageResources(v) IN
         IF fails \in {"image", "imageMemory", "imageBind"} THEN old
         ELSE [Made(Made(old, "image"), "imageMemory") EXCEPT !.width = size, !.ready = FALSE]

Reusable(v, size) == v.has["buffer"] /\ v.stagingSize >= size

DestroyVkStagingBufferResources(v) ==
    [Destroyed(Destroyed(v, "buffer"), "bufferMemory") EXCEPT !.room = 0]

\* A buffer that gets no memory: the texture of a platform destroys it, that of a video
\* keeps it, and both keep the size of the one before.
PlatformUndone(v, fails) == v
VideoUndone(v, fails) ==
    CASE fails = "bufferMemory" -> Made(v, "buffer")
      [] fails = "bufferBind" -> Made(Made(v, "buffer"), "bufferMemory")
      [] OTHER -> v

StagingFails(v, size, fails) ==
    ~Reusable(v, size) /\ fails \in {"buffer", "bufferMemory", "bufferBind"}

\* Mutant of EnsureVkStagingBuffer: a buffer is good for any size.
KeepStagingBuffer(v, size, fails) ==
    IF v.has["buffer"] THEN v
    ELSE IF StagingFails(v, size, fails) THEN v
    ELSE [Made(Made(v, "buffer"), "bufferMemory") EXCEPT !.stagingSize = size, !.room = size]

EnsureVkStagingBuffer(v, size, fails) ==
    IF Reusable(v, size) THEN v
    ELSE LET old == DestroyVkStagingBufferResources(v) IN
         IF StagingFails(v, size, fails)
         THEN IF Platform THEN PlatformUndone(old, fails) ELSE VideoUndone(old, fails)
         ELSE [Made(Made(old, "buffer"), "bufferMemory") EXCEPT !.stagingSize = size, !.room = size]

\* The pixels go into the memory of the staging buffer, ...
CopyPixelBufferToVulkanStaging(v, size) == [v EXCEPT !.misused = @ \/ v.room < size]

\* ... and from there, with a command buffer that lives as long as this, into the image.
EndSubmitWaitAndFreeVkCommandBuffer(v, size) == [v EXCEPT !.ready = TRUE, !.contents = size]

\* How far UpdateVkImageFromPixelBuffer gets.
UpdateVkImageFromPixelBuffer(v, size, fails) ==
    LET pool == EnsureVulkanCommandPool(v, fails)
        image == EnsureVkImage(pool, size, fails)
        staged == EnsureVkStagingBuffer(image, size, fails)
    IN IF fails = "format" THEN v
       ELSE IF ~pool.has["pool"] THEN pool
       ELSE IF ~image.has["image"] THEN image
       ELSE IF StagingFails(image, size, fails) \/ fails = "map" THEN staged
       ELSE LET copied == CopyPixelBufferToVulkanStaging(staged, size) IN
            IF fails \in {"record", "submit"} THEN copied
            ELSE EndSubmitWaitAndFreeVkCommandBuffer(copied, size)

\* Whether it does what it is for.
Succeeds(v, size, fails) ==
    LET pool == EnsureVulkanCommandPool(v, fails)
        image == EnsureVkImage(pool, size, fails)
    IN /\ fails \notin {"format", "map", "record", "submit"}
       /\ pool.has["pool"] /\ image.has["image"] /\ ~StagingFails(image, size, fails)

-------------------------------------------------------------------------------
(* Drawing *)

\* FillTextureInfoByBackend: an image that is ready is drawn with the size of the last pixels.
FillTextureInfoByBackend(v, size) ==
    IF v.ready /\ v.has["image"] THEN [claimed |-> size, actual |-> v.contents]
    ELSE [claimed |-> 0, actual |-> 0]

IsDrawn == active /\ current = data

\* A video or a platform view: with a new pixel buffer, if there is one and it is not frozen.
DrawPixels ==
    /\ \/ UNCHANGED uploadVars
       \/ \E size \in Sizes, fails \in Failures \cup {Nothing} :
            /\ pixels' = size
            /\ vk' = UpdateVkImageFromPixelBuffer(vk, size, fails)
            /\ uploaded' = Succeeds(vk, size, fails)
    /\ drawn' = FillTextureInfoByBackend(vk', pixels')
    /\ UNCHANGED <<sourceVars, glVars>>

\* The texture of a video, and that of a platform with a video or a platform view.
DrawTextureImage == ~Platform /\ DrawPixels
DrawTextureImageForVideo == Platform /\ IsDrawn /\ kind = "video" /\ DrawPixels
DrawTextureImageForPlatformView == Platform /\ IsDrawn /\ kind = "view" /\ DrawPixels

\* A texture of the platform is drawn in a context of its own; if it cannot be built on, the
\* caller's does not come back.
DrawTextureImageGL ==
    /\ Platform /\ IsDrawn /\ kind = "gl"
    /\ \/ UNCHANGED glVars
       \/ glContext' = "own" /\ unbuilt' = TRUE
    /\ UNCHANGED <<uploadVars, drawn, sourceVars>>

\* Mutant of TakeSource: what it was before is kept.
TakeSourceOnly ==
    /\ Platform /\ ~IsDrawn
    /\ current' = data
    /\ IF data = NoSource THEN UNCHANGED <<active, source, kind>>
       ELSE /\ active' = TRUE
            /\ kind' = IF kind = "video" THEN kind ELSE KindOf(data)
            /\ source' = IF KindOf(data) = "gl" THEN NoSource ELSE data
    /\ UNCHANGED <<uploadVars, drawn, data, glVars>>

\* The first drawing, and the first with other data, only looks what the data is.
TakeSource ==
    /\ Platform /\ ~IsDrawn
    /\ current' = data
    /\ IF data = NoSource THEN UNCHANGED <<active, source, kind>>
       ELSE /\ active' = TRUE
            /\ kind' = KindOf(data)
            /\ source' = IF KindOf(data) = "gl" THEN NoSource ELSE data
    /\ UNCHANGED <<uploadVars, drawn, data, glVars>>

UpdateSurfaceExtConfig(d) ==
    /\ Platform
    /\ data' = d
    /\ UNCHANGED <<uploadVars, drawn, current, active, source, kind, glVars>>

\* The end of a texture; another takes its place.
CleanupVulkanResources ==
    /\ vk' = [NoImage EXCEPT !.live =
                [k \in Kinds |-> vk.live[k] - IF vk.has[k] THEN 1 ELSE 0]]
    /\ pixels' = 0 /\ uploaded' = TRUE /\ drawn' = [claimed |-> 0, actual |-> 0]
    /\ UNCHANGED <<sourceVars, glVars>>

Next ==
    \/ DrawTextureImage \/ DrawTextureImageForVideo \/ DrawTextureImageForPlatformView
    \/ DrawTextureImageGL \/ TakeSource
    \/ \E d \in Sources \cup {NoSource} : UpdateSurfaceExtConfig(d)
    \/ CleanupVulkanResources

-------------------------------------------------------------------------------
\* Whatever fails, each object of the device has its handle: none is lost.
NothingLost == \A k \in Kinds : vk.live[k] = IF vk.has[k] THEN 1 ELSE 0

\* An image has memory, and is drawn only with pixels in it that were copied for its size; it
\* is as large as claimed unless the upload of the last pixels failed.
DrawsWhatIsThere ==
    /\ vk.has["image"] = vk.has["imageMemory"]
    /\ drawn.claimed # 0 => drawn.actual # 0
    /\ drawn.claimed # 0 /\ uploaded => drawn.actual = drawn.claimed

\* A texture of a platform never copies more than its staging buffer has memory for.
StagesWithinMemory == Platform => ~vk.misused

\* What is drawn is what the data says, and unless building on a texture failed the caller
\* has its context.
DrawsItsSource ==
    /\ IsDrawn /\ data # NoSource =>
        kind = KindOf(data) /\ source = IF kind = "gl" THEN NoSource ELSE data
    /\ ~unbuilt => glContext = "caller"

TextureSafe == NothingLost /\ DrawsWhatIsThere /\ StagesWithinMemory /\ DrawsItsSource
================================================================================
