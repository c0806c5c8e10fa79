----------------------------- MODULE TextureFrames -----------------------------
(***************************************************************************)
(* How the frames of an external texture get to the screen: the flag by which  *)
(* the producer's thread tells the render thread of one (AndroidSurfaceTexture, *)
(* RSSurfacePlatformTextureIOS), and, with Vulkan on Android, the images kept  *)
(* for the hardware buffers that frames come in (AndroidSurfaceTextureVK).     *)
(***************************************************************************)
EXTENDS Naturals

CONSTANTS
    Backend,       \* "gl", "vulkan" (both Android) or "ios"
    Buffers,       \* external: the hardware buffers of the producer
    MaxFrames,     \* bound: frames that are produced
    MaxInfos       \* bound: images there are at a time

NoBuffer == "none"
NoInfo == 0
Infos == 1 .. MaxInfos

VARIABLES
    latest,        \* frames produced
    available,     \* bufferAvailable_
    taken,         \* the frame that the texture has
    attached,      \* state_ is ATTACHED
    at,            \* the render thread: "idle", or in the middle of a drawing
    last,          \* lastHardwareBuffer_
    stale,         \* external: the producer has new buffers (GetUpdateState)
    infoMap, oldMap, clearMap,     \* vkTextureInfoMap_, vkTextureInfoOldMap_, ..ClearMap_
    live,          \* images made and not destroyed
    before, now,   \* the images of the last drawing but one and of the last
    failed         \* making an image, or building on it, has failed

vars ==
    <<latest, available, taken, attached, at, last, stale, infoMap, oldMap, clearMap, live, before,
      now, failed>>
infoVars == <<last, stale, infoMap, oldMap, clearMap, live, before, now, failed>>

Maps == [Buffers -> Infos \cup {NoInfo}]
EmptyMap == [b \in Buffers |-> NoInfo]
Held(map) == {map[b] : b \in Buffers} \ {NoInfo}

TypeOK ==
    /\ {latest, taken} \subseteq 0 .. MaxFrames
    /\ {available, attached, stale, failed} \subseteq BOOLEAN
    /\ at \in {"idle", "updated", "cleared"}
    /\ last \in Buffers \cup {NoBuffer} /\ {infoMap, oldMap, clearMap} \subseteq Maps
    /\ live \subseteq Infos /\ {before, now} \subseteq Infos \cup {NoInfo}

Init ==
    /\ latest = 0 /\ available = FALSE /\ taken = 0 /\ attached = FALSE /\ at = "idle"
    /\ last = NoBuffer /\ stale = FALSE
    /\ infoMap = EmptyMap /\ oldMap = EmptyMap /\ clearMap = EmptyMap
    /\ live = {} /\ before = NoInfo /\ now = NoInfo /\ failed = FALSE

-------------------------------------------------------------------------------
(* The flag *)

\* The producer, on a thread of its own; with Vulkan its buffers may be new ones.
MarkUiFrameAvailable ==
    /\ latest < MaxFrames
    /\ latest' = latest + 1 /\ available' = TRUE
    /\ \/ UNCHANGED stale
       \/ Backend = "vulkan" /\ stale' = TRUE
    /\ UNCHANGED <<taken, attached, at, last, infoMap, oldMap, clearMap, live, before, now, failed>>

\* The first frame attaches a texture of Android.
InitializeTextureIfNeeded ==
    /\ Backend # "ios" /\ at = "idle" /\ ~attached /\ available
    /\ attached' = TRUE
    /\ UNCHANGED <<latest, available, taken, at, infoVars>>

\* With OpenGL it takes the latest frame, and says then that there is none.
OnBufferAvailable ==
    /\ Backend = "gl" /\ at = "idle" /\ attached /\ available
    /\ taken' = latest
    /\ at' = "updated"
    /\ UNCHANGED <<latest, available, attached, infoVars>>

ClearAfterUpdate ==
    /\ at = "updated"
    /\ available' = FALSE
    /\ at' = "idle"
    /\ UNCHANGED <<latest, taken, attached, infoVars>>

\* A texture of iOS, and one of Android with Vulkan, first says that there is none, unless it
\* is frozen.
ProcessBufferAvailability ==
    /\ Backend # "gl" /\ at = "idle" /\ (Backend = "vulkan" => attached)
    /\ available' \in {available, FALSE}
    /\ at' = "cleared"
    /\ UNCHANGED <<latest, taken, attached, infoVars>>

\* Mutant: on iOS too the flag is cleared last.
UpdateFirst ==
    /\ Backend = "ios" /\ at = "cleared"
    /\ taken' = latest
    /\ at' = "updated"
    /\ UNCHANGED <<latest, available, attached, infoVars>>

UpdateCallback ==
    /\ Backend = "ios" /\ at = "cleared"
    /\ taken' = latest
    /\ at' = "idle"
    /\ UNCHANGED <<latest, available, attached, infoVars>>

-------------------------------------------------------------------------------
(* The images of hardware buffers *)

\* emplace: what is there already stays.
Emplace(map, b, info) == IF map[b] = NoInfo THEN [map EXCEPT ![b] = info] ELSE map
EmplaceAll(map, more) == [b \in Buffers |-> IF map[b] = NoInfo THEN more[b] ELSE map[b]]

\* GetHardwareBuffer, as far as the images go: those of a producer with new buffers are old.
OldMap == IF stale THEN EmplaceAll(oldMap, infoMap) ELSE oldMap
CurrentMap == IF stale THEN EmptyMap ELSE infoMap
GetHardwareBuffer ==
    /\ taken' = latest /\ stale' = FALSE
    /\ IF taken = latest THEN UNCHANGED last ELSE last' \in Buffers

\* MakeVKTextureInfoFromHardwareBuffer: should a call of it fail, it leaves nothing behind.
FreeInfos == Infos \ (live \cup {before, now})
MakeVKTextureInfoFromHardwareBuffer == IF FreeInfos = {} THEN NoInfo ELSE CHOOSE i \in FreeInfos : TRUE
InfoOf(b) == IF CurrentMap[b] = NoInfo THEN MakeVKTextureInfoFromHardwareBuffer ELSE CurrentMap[b]

\* Mutant: an image is destroyed with the next drawing.
ReleaseAtOnce(old, clear) == Held(clear) \cup Held(old)

\* OnPostDraw destroys the images that were old at the last drawing already.
ReleaseTextureInfoMap(old, clear) == Held(clear)

NoBufferYet ==
    /\ last' = NoBuffer
    /\ infoMap' = CurrentMap /\ oldMap' = OldMap
    /\ UNCHANGED <<clearMap, live, before, now, failed>>

NotMade ==
    /\ last' # NoBuffer /\ CurrentMap[last'] = NoInfo
    /\ infoMap' = CurrentMap /\ oldMap' = OldMap
    /\ failed' = TRUE
    /\ UNCHANGED <<clearMap, live, before, now>>

\* The image is old if nothing can be built on it.
NotBuilt ==
    /\ last' # NoBuffer /\ InfoOf(last') # NoInfo
    /\ oldMap' = Emplace(OldMap, last', InfoOf(last'))
    /\ infoMap' = [CurrentMap EXCEPT ![last'] = NoInfo]
    /\ live' = live \cup {InfoOf(last')}
    /\ failed' = TRUE
    /\ UNCHANGED <<clearMap, before, now>>

Drawn ==
    /\ last' # NoBuffer /\ InfoOf(last') # NoInfo
    /\ infoMap' = [CurrentMap EXCEPT ![last'] = InfoOf(last')]
    /\ live' = (live \cup {InfoOf(last')}) \ ReleaseTextureInfoMap(OldMap, clearMap)
    /\ clearMap' = OldMap /\ oldMap' = EmptyMap
    /\ before' = now /\ now' = InfoOf(last')
    /\ UNCHANGED failed

OnCreateTextureImage ==
    /\ Backend = "vulkan" /\ at = "cleared"
    /\ GetHardwareBuffer
    /\ NoBufferYet \/ NotMade \/ NotBuilt \/ Drawn
    /\ at' = "idle"
    /\ UNCHANGED <<latest, available, attached>>

Next ==
    \/ MarkUiFrameAvailable \/ InitializeTextureIfNeeded
    \/ OnBufferAvailable \/ ClearAfterUpdate
    \/ ProcessBufferAvailability \/ UpdateCallback \/ OnCreateTextureImage

-------------------------------------------------------------------------------
\* Where the flag is cleared before the frame is taken, no frame is missed: out of a drawing
\* the texture has the latest one, or is told of it.
NoFrameMissed == Backend # "gl" /\ at = "idle" /\ ~available => taken = latest

\* The images of the last two drawings are there; what a map holds is there, in one map only,
\* and if nothing failed nothing else is.
ImagesKept ==
    /\ {before, now} \ {NoInfo} \subseteq live
    /\ Held(infoMap) \cup Held(oldMap) \cup Held(clearMap) \subseteq live
    /\ Held(infoMap) \cap (Held(oldMap) \cup Held(clearMap)) = {}
    /\ Held(oldMap) \cap Held(clearMap) = {}
    /\ ~failed => live = Held(infoMap) \cup Held(oldMap) \cup Held(clearMap)

FramesSafe == NoFrameMissed /\ ImagesKept
================================================================================
