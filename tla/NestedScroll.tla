----------------------------- MODULE NestedScroll -----------------------------
(***************************************************************************)
(* Scrolling of a web component inside other containers that scroll           *)
(* (WebPattern).  Who moves, the page or a parent, is decided with each        *)
(* movement of the finger on Android, and with each scroll event of the web    *)
(* view on iOS, where the page is locked while a parent moves.  The axis of a  *)
(* scroll is chosen by the pan gesture as well as by the web view's events.    *)
(***************************************************************************)
EXTENDS Naturals

CONSTANTS
    Android,     \* TRUE for Android, FALSE for iOS
    Ancestors,   \* the sets of axes on which there may be a parent that scrolls
    Nestings,    \* nestedScroll_ may be one of these: a mode for each direction
    Places       \* where the page may be on an axis

Axes == {"horizontal", "vertical"}
Free == "free"
Modes == {"parent first", "self first", "self only", "parallel"}
Directions == {"left", "right", "up", "down"}
Unknown == "unknown"

\* LEFT and UP are towards the beginning of the page, where offsets are positive.
Towards(a, positive) ==
    CASE a = "horizontal" -> IF positive THEN "left" ELSE "right"
      [] a = "vertical" -> IF positive THEN "up" ELSE "down"
      [] OTHER -> Unknown

VARIABLES
    parents,           \* external: axes on which SearchParent finds one
    nested,            \* nestedScroll_
    known,             \* the axes of parentsMap_
    axis,              \* expectedScrollAxis_
    direction, mode,   \* direction_, mode_
    place,             \* directionCtx_, by axis: at the beginning, the end, both; beyond; inside
    started, ended,    \* isScrollStarted_, isDragEnd_
    touched,           \* isStartTouch_, which only iOS looks at
    fling,             \* isFirstFlingScrollVelocity_
    parentEdge, reverse,     \* isParentReachEdge_, isParentReverseReachEdge_
    locked,            \* of iOS: the page does not scroll
    begun,             \* external: the parents that were told of a start and not of an end
    dragEnds,          \* drag ends told since the last start
    turned,            \* the axis was changed while a scroll was under way
    last,              \* who had the last movement: "web", "parent", "both", or it was "lost"
    followed           \* a parent was asked to scroll with the last event

edgeVars == <<parentEdge, reverse>>
toldVars == <<started, ended, begun, dragEnds, turned>>
vars ==
    <<parents, nested, known, axis, direction, mode, place, touched, fling, edgeVars, locked,
      toldVars, last, followed>>

TypeOK ==
    /\ parents \subseteq Axes /\ known \subseteq parents /\ begun \subseteq parents
    /\ nested \in Nestings /\ axis \in Axes \cup {Free}
    /\ direction \in Directions \cup {Unknown} /\ mode \in Modes
    /\ place \in [Axes -> Places]
    /\ {started, ended, touched, fling, parentEdge, reverse, locked, turned, followed}
            \subseteq BOOLEAN
    /\ dragEnds \in 0 .. 2 /\ last \in {"none", "web", "parent", "both", "lost"}

\* direction_ has no initial value; the context is all zeros, which is at both ends.
Init ==
    /\ parents \in Ancestors /\ nested \in Nestings
    /\ known = {} /\ axis = Free /\ direction \in Directions /\ mode = "self only"
    /\ place = [a \in Axes |-> "both"]
    /\ started = FALSE /\ ended = FALSE /\ touched = TRUE /\ fling = FALSE
    /\ parentEdge = FALSE /\ reverse = FALSE /\ locked = FALSE
    /\ begun = {} /\ dragEnds = 0 /\ turned = FALSE /\ last = "none" /\ followed = FALSE

-------------------------------------------------------------------------------
(* What the handlers share *)

\* IsScrollReachEdge, by what is known of the page.
AtBorder(a, d) ==
    /\ a # Free
    /\ CASE d \in {"left", "up"} -> place[a] \in {"both", "begin", "before"}
         [] d \in {"right", "down"} -> place[a] \in {"both", "end", "after"}
         [] OTHER -> FALSE
    /\ a = IF d \in {"left", "right"} THEN "horizontal" ELSE "vertical"

\* GetScrollBoundary.
Beyond(a) == a # Free /\ place[a] \in {"before", "after"}

GetParentAxis == known' = IF parents = {} THEN known ELSE parents

\* OnParentScrollDragEndRecursive, which a parent is told once.
DragEnd(axes) ==
    /\ dragEnds' = IF ended \/ axes = {} THEN dragEnds ELSE dragEnds + 1
    /\ ended' = (ended \/ axes # {})

\* HandleScrollVelocity: the parent may take it or not.
HandleScrollVelocity == DragEnd({axis}) \/ UNCHANGED <<ended, dragEnds>>

OnScrollStartRecursive(a) ==
    /\ fling' = TRUE /\ started' = TRUE /\ ended' = FALSE /\ dragEnds' = 0
    /\ begun' = begun \cup ({a} \cap known')
    /\ turned' = (turned \/ (started /\ a # axis))

\* Which of dx and dy is larger.
OnScrollStart(a) ==
    /\ GetParentAxis
    /\ axis' = a
    /\ OnScrollStartRecursive(a)

-------------------------------------------------------------------------------
(* The pan gesture; updates come only between its start and its end. *)

OnActionStart(a) ==
    /\ axis' = a
    /\ turned' = (turned \/ (started /\ a # axis))
    /\ last' = "none" /\ followed' = FALSE
    /\ UNCHANGED <<parents, nested, known, direction, mode, place, touched, fling, edgeVars, locked,
                   started, ended, begun, dragEnds>>

OnActionUpdate ==
    /\ fling' = TRUE
    /\ GetParentAxis
    /\ UNCHANGED <<parents, nested, axis, direction, mode, place, touched, edgeVars, locked,
                   toldVars, last, followed>>

\* The velocity goes to a parent that has room, or if the page is at its border.
Flings ==
    \/ ~parentEdge /\ mode \in {"parent first", "parallel"}
    \/ fling /\ AtBorder(axis, direction)

OnActionEnd ==
    /\ axis \in known /\ mode # "self only"
    /\ IF Flings THEN HandleScrollVelocity /\ fling' = FALSE ELSE UNCHANGED <<ended, dragEnds, fling>>
    /\ UNCHANGED <<parents, nested, known, axis, direction, mode, place, touched, edgeVars, locked,
                   started, begun, turned, last, followed>>

-------------------------------------------------------------------------------
(* Movements of the finger *)

HandleTouchDown ==
    /\ touched' = Android
    /\ last' = "none"
    /\ UNCHANGED <<parents, nested, known, axis, direction, mode, place, fling, edgeVars,
                   locked, toldVars, followed>>

\* CalcScrollParamsAndBorder: without a parent on the axis the mode stays what it was.  On no
\* axis at all the movement counts as horizontal.
CalcScrollParamsAndBorder(positive) ==
    /\ direction' = Towards(IF axis = Free THEN "horizontal" ELSE axis, positive)
    /\ mode' = IF axis \in parents THEN nested[direction'] ELSE mode

\* The parent is tried with a tenth of a pixel; a swiper that is between its first and its
\* last page counts as having room.
HandleParentFirstScroll ==
    IF axis \notin parents THEN last' = "lost" /\ UNCHANGED parentEdge
    ELSE \E edge \in BOOLEAN :
            IF ~edge THEN last' = "parent" /\ parentEdge' \in BOOLEAN
            ELSE IF AtBorder(axis, direction') THEN last' = "both" /\ parentEdge' \in BOOLEAN
            ELSE last' = "web" /\ parentEdge' = TRUE

HandleSelfFirstScroll ==
    IF AtBorder(axis, direction') /\ axis \in parents THEN last' = "both" /\ parentEdge' \in BOOLEAN
    ELSE last' = "web" /\ UNCHANGED parentEdge

\* Mutant: SELF_FIRST does not wait for the border.
HandleTouchMoveAndroidAtOnce(positive) ==
    /\ Android
    /\ CalcScrollParamsAndBorder(positive)
    /\ CASE mode' = "parent first" -> HandleParentFirstScroll
         [] mode' = "self only" -> last' = "web" /\ UNCHANGED parentEdge
         [] OTHER ->
                last' = (IF axis \in parents THEN "both" ELSE "web") /\ UNCHANGED parentEdge
    /\ followed' = FALSE
    /\ UNCHANGED <<parents, nested, known, axis, place, touched, fling, reverse, locked, toldVars>>

HandleTouchMoveAndroid(positive) ==
    /\ Android
    /\ CalcScrollParamsAndBorder(positive)
    /\ CASE mode' = "parent first" -> HandleParentFirstScroll
         [] mode' = "self first" -> HandleSelfFirstScroll
         [] mode' = "self only" -> last' = "web" /\ UNCHANGED parentEdge
         [] mode' = "parallel" ->
                last' = (IF axis \in parents THEN "both" ELSE "web") /\ UNCHANGED parentEdge
    /\ followed' = FALSE
    /\ UNCHANGED <<parents, nested, known, axis, place, touched, fling, reverse, locked, toldVars>>

\* Of several fingers: the page has them all.
HandleTouchMoveOfMany ==
    /\ Android
    /\ last' = "web"
    /\ UNCHANGED <<parents, nested, known, axis, direction, mode, place, touched, fling,
                   edgeVars, locked, toldVars, followed>>

SetDirectionMode == mode' = IF direction' \in Directions THEN nested[direction'] ELSE "self only"

\* The first movement begins a scroll.  The page, which has every movement, is locked as long
\* as the parent has room.
HandleTouchMoveIOS(a, positive) ==
    /\ ~Android
    /\ IF touched THEN a = axis /\ UNCHANGED <<known, axis, fling, toldVars>>
       ELSE a \in Axes /\ OnScrollStart(a)
    /\ touched' = TRUE
    /\ direction' = Towards(a, positive)
    /\ IF a \in parents THEN SetDirectionMode ELSE UNCHANGED mode
    /\ IF a \in parents /\ mode' = "parent first"
       THEN /\ parentEdge' \in BOOLEAN
            /\ locked' = ~parentEdge'
       ELSE locked' = FALSE /\ UNCHANGED parentEdge
    /\ last' = IF ~locked' THEN "web" ELSE IF a \in parents THEN "parent" ELSE "lost"
    /\ followed' = FALSE
    /\ UNCHANGED <<parents, nested, place, reverse>>

-------------------------------------------------------------------------------
(* Events of the web view, each a task of the main thread *)

WebOnScrollStart(a) ==
    /\ OnScrollStart(a)
    /\ last' = "none" /\ followed' = FALSE
    /\ UNCHANGED <<parents, nested, direction, mode, place, touched, edgeVars, locked>>

\* FilterScrollEventHandleOffset with an offset of that sign: a parent that is out of its own
\* bounds takes it first.
ParentTakesBack == followed' = TRUE /\ reverse' = TRUE /\ UNCHANGED parentEdge
ParentScrolls(m) ==
    /\ reverse' = FALSE
    /\ followed' = (m # "self only")
    /\ IF m = "parent first" THEN parentEdge' \in BOOLEAN ELSE UNCHANGED parentEdge
FilterScrollEventHandleOffset(positive) ==
    /\ ParentTakesBack \/ ParentScrolls(nested[Towards(axis, positive)])
    /\ UNCHANGED <<ended, dragEnds>>

\* FilterScrollEventHandleVelocity, of no velocity: it counts for a parent out of its bounds.
FilterScrollEventHandleVelocity ==
    /\ UNCHANGED <<ended, dragEnds>> \/ (reverse /\ HandleScrollVelocity)
    /\ followed' = FALSE
    /\ UNCHANGED edgeVars

NotNested == followed' = FALSE /\ UNCHANGED <<edgeVars, ended, dragEnds>>
OnNestedScroll ==
    IF axis \notin known THEN NotNested
    ELSE FilterScrollEventHandleVelocity \/ \E positive \in BOOLEAN : FilterScrollEventHandleOffset(positive)

\* With the place that the event tells.
AtBorderNow ==
    /\ axis # Free
    /\ IF direction' \in {"left", "up"} THEN place'[axis] \in {"both", "begin", "before"}
       ELSE place'[axis] \in {"both", "end", "after"}
BeyondNow == axis # Free /\ place'[axis] \in {"before", "after"}

\* Mutant: the page stays locked when its mode is another.
HandleIOSNestedScrollKeepsLock ==
    CASE mode' = "parent first" /\ AtBorderNow -> locked' = TRUE /\ NotNested
      [] mode' = "parent first" /\ ~AtBorderNow ->
            IF axis \notin known THEN locked' = ~parentEdge /\ NotNested
            ELSE /\ FilterScrollEventHandleOffset(direction' \in {"left", "up"})
                 /\ locked' = ~parentEdge'
      [] mode' = "self only" -> NotNested /\ UNCHANGED locked
      [] OTHER ->
            /\ locked' = FALSE
            /\ IF BeyondNow \/ mode' = "parallel" THEN OnNestedScroll ELSE NotNested

HandleIOSNestedScroll ==
    CASE mode' = "parent first" /\ AtBorderNow -> locked' = TRUE /\ NotNested
      [] mode' = "parent first" /\ ~AtBorderNow ->
            IF axis \notin known THEN locked' = ~parentEdge /\ NotNested
            ELSE /\ FilterScrollEventHandleOffset(direction' \in {"left", "up"})
                 /\ locked' = ~parentEdge'
      [] mode' = "self only" -> locked' = FALSE /\ NotNested
      [] OTHER ->
            /\ locked' = FALSE
            /\ IF BeyondNow \/ mode' = "parallel" THEN OnNestedScroll ELSE NotNested

OnScroll(positive) ==
    /\ place' \in [Axes -> Places]
    /\ direction' = Towards(axis, positive)
    /\ SetDirectionMode
    /\ IF Android THEN NotNested /\ UNCHANGED locked ELSE HandleIOSNestedScroll
    /\ last' = "none"
    /\ UNCHANGED <<parents, nested, known, axis, touched, fling, started, begun, turned>>

\* Mutant of OnScrollEnd: the parent is not told unless its drag has not ended.
OnScrollEndOfDrag ==
    /\ started
    /\ DragEnd({axis} \cap known)
    /\ begun' = IF ended THEN begun ELSE begun \ ({axis} \cap known)
    /\ started' = FALSE /\ axis' = Free
    /\ last' = "none" /\ followed' = FALSE
    /\ UNCHANGED <<parents, nested, known, direction, mode, place, touched, fling, edgeVars,
                   locked, turned>>

OnScrollEnd ==
    /\ started
    /\ DragEnd({axis} \cap known)
    /\ begun' = begun \ ({axis} \cap known)
    /\ started' = FALSE /\ axis' = Free
    /\ last' = "none" /\ followed' = FALSE
    /\ UNCHANGED <<parents, nested, known, direction, mode, place, touched, fling, edgeVars,
                   locked, turned>>

SetNestedScrollExt(n) ==
    /\ nested' = n
    /\ locked' = FALSE
    /\ UNCHANGED <<parents, known, axis, direction, mode, place, touched, fling, edgeVars,
                   toldVars, last, followed>>

Next ==
    \/ \E a \in Axes : OnActionStart(a) \/ WebOnScrollStart(a)
    \/ OnActionUpdate \/ OnActionEnd
    \/ HandleTouchDown \/ HandleTouchMoveOfMany
    \/ \E positive \in BOOLEAN :
        \/ HandleTouchMoveAndroid(positive) \/ OnScroll(positive)
        \/ \E a \in Axes \cup {Free} : HandleTouchMoveIOS(a, positive)
    \/ OnScrollEnd
    \/ \E n \in Nestings : SetNestedScrollExt(n)

-------------------------------------------------------------------------------
\* A movement of the finger is for the page or for a parent; on Android it is for nobody if
\* the mode is that of an axis with a parent, and the movement on one without.
NothingLost == last = "lost" => Android /\ axis \notin parents /\ mode = "parent first"

\* Both move only in parallel or with the page at its border; a parent follows the page of iOS
\* in no other case, but to come back into its own bounds.
InTurn ==
    /\ last = "both" /\ mode # "parallel" => AtBorder(axis, direction)
    /\ followed /\ mode = "self first" => Beyond(axis)
    /\ followed => mode # "self only"

\* The page is locked only to let a parent go first.
LockedForParent == locked => mode = "parent first" /\ ~Android

\* A parent that was told of a start is told of the end, unless the axis was changed in
\* between, and of the end of the drag once.
ToldInPairs ==
    /\ ~turned => begun \subseteq {axis} /\ (~started => begun = {})
    /\ dragEnds <= 1

ScrollSafe == NothingLost /\ InTurn /\ LockedForParent /\ ToldInPairs
================================================================================
