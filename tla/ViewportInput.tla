---------------------------- MODULE ViewportInput ----------------------------
(***************************************************************************)
(* The mouse and the camera of one viewport: the handlers of               *)
(* RenderViewportItem, RenderScene and its OrbitCamera, the request to     *)
(* focus on a rectangle, the auto-fit, and the camera configuration.  With *)
(* the basic render loop handlers and frames run on one thread, each as    *)
(* one step.                                                               *)
(*                                                                         *)
(* The pointer moves on a line, and each of its units turns, shifts or     *)
(* zooms by one.  The camera keeps the yaw, in eighths of a turn, one      *)
(* coordinate of the target and the distance; pitch, which a drag turns up *)
(* to a limit, is left out.  So are setImageTransform's scale and          *)
(* setHeightPixelSize, which ask for a fit as a rotation does.  The view a *)
(* user saw is in the configuration only while lock_view_scale is set,     *)
(* which nothing in the repository does.                                   *)
(***************************************************************************)
EXTENDS OverlayGeometry, FiniteSets, Sequences

CONSTANTS
    Positions, Slack,   \* of the pointer; how far it may stray in a click
    Near, Far,          \* limits of the camera's distance
    Wheels,             \* wheel steps
    RectLists, MapSizes,
    NoView, NoMap, NoGesture,
    NoFile,             \* a source that does not exist
    MaxEvents           \* bound: calls from outside

Buttons  == {"Left", "Middle", "Right"}
Views    == [yaw : 0 .. Turn - 1, target : Int, distance : Near .. Far]
Gestures == [button : Buttons, from : Positions, view : Views,
             turnedFrom : Positions \cup {NoGesture}, stopped : BOOLEAN]

ASSUME InputAssumption ==
    /\ Positions \subseteq Int /\ Wheels \subseteq Int
    /\ {Slack, Near, Far, MaxEvents} \subseteq Nat /\ Near <= 3 /\ 3 <= Far
    /\ RectLists \subseteq Seq(Rectangles) /\ MapSizes \subseteq Sizes
    /\ NoView \notin Views /\ NoGesture \notin Gestures \cup Positions

VARIABLES
    \* the mouse
    pos, held,
    \* RenderViewportItem
    leftDown, leftDragging, leftPressPos, pickPending,
    focusPending, focusRectId,
    newRects, newRotation,      \* set since the last frame, or not
    source,                     \* m_heightfieldSource, and as of the last frame
    lastSource,
    \* RenderScene
    camera,
    dragging,     \* m_rotating, m_panning, m_zooming: the buttons they are for
    last,         \* m_lastPos, m_lastPanPos, m_lastZoomPos
    sceneInited, autoFitPending,
    \* TerrainRenderer
    rects, rotation, map,
    loading,      \* how many maps of each size are on their way
    mapState,     \* m_heightfieldPath and m_heightfieldReady
    \* cfg::Config
    saved, locked,
    \* history
    events,
    gesture,      \* the one button held since the mouse had none, and the view
    clicked, askedLast

mouse   == <<pos, held>>
item    == <<leftDown, leftDragging, leftPressPos>>
focus   == <<focusPending, focusRectId, askedLast>>
pick    == <<pickPending, clicked>>
news    == <<newRects, newRotation, source>>
control == <<camera, dragging, last, saved>>
scene   == <<sceneInited, autoFitPending, lastSource, rects, rotation, map, loading,
             mapState>>
input   == <<mouse, item, focus, pick, news, control, scene, locked, events, gesture>>

InputTypeOK ==
    /\ pos \in Positions /\ held \subseteq Buttons
    /\ {leftDown, leftDragging, pickPending, focusPending, sceneInited,
        autoFitPending, locked, clicked} \subseteq BOOLEAN
    /\ leftPressPos \in Positions
    /\ focusRectId \in Int /\ askedLast \in Int
    /\ newRects \in SUBSET RectLists /\ newRotation \in SUBSET (0 .. 3)
    /\ {source, lastSource} \subseteq MapSizes \cup {NoMap, NoFile}
    /\ camera \in Views /\ saved \in Views \cup {NoView}
    /\ dragging \subseteq Buttons /\ last \in [Buttons -> Positions]
    /\ rects \in RectLists \cup {<<>>} /\ rotation \in 0 .. 3
    /\ map \in MapSizes \cup {NoMap} /\ loading \in [MapSizes -> Nat]
    /\ mapState \in {"none", "loading", "ready"}
    /\ events \in 0 .. MaxEvents /\ gesture \in Gestures \cup {NoGesture}

InputInit ==
    /\ pos \in Positions /\ held = {}
    /\ leftDown = FALSE /\ leftDragging = FALSE /\ leftPressPos = pos
    /\ pickPending = FALSE /\ clicked = FALSE
    /\ focusPending = FALSE /\ focusRectId = -1 /\ askedLast = -1
    /\ newRects = {} /\ newRotation = {}
    /\ source = NoMap /\ lastSource = NoMap
    /\ camera = [yaw |-> 0, target |-> 0, distance |-> 3]
    /\ dragging = {} /\ last = [b \in Buttons |-> pos]
    /\ sceneInited = FALSE /\ autoFitPending = FALSE
    /\ rects = <<>> /\ rotation = 0 /\ map = NoMap
    /\ loading = [size \in MapSizes |-> 0] /\ mapState = "none"
    /\ saved = NoView /\ locked \in BOOLEAN
    /\ events = 0 /\ gesture = NoGesture
-----------------------------------------------------------------------------
(* OrbitCamera.                                                            *)
Clamped(d) == IF d < Near THEN Near ELSE IF d > Far THEN Far ELSE d

(* notifyConfigChanged, after which the camera is view.                    *)
Notified(view) == IF locked THEN view ELSE saved

(* beginRotate, beginPan, beginZoomDrag.                                   *)
Begin(button, view) ==
    /\ dragging' = dragging \cup {button}
    /\ camera' = IF button = "Left" THEN [view EXCEPT !.target = 0] ELSE view

BeginKeepsLast(button) == last    \* mutant: a drag starts where the last one ended

LastAtBegin(button) == [last EXCEPT ![button] = pos]

(* rotateTo, panTo, zoomDragTo: what a drag by delta makes of a view.      *)
Dragged(button, view, delta) ==
    CASE button = "Left"   -> [view EXCEPT !.yaw = (@ - delta) % Turn]
      [] button = "Middle" -> [view EXCEPT !.target = @ - delta]
      [] button = "Right"  -> [view EXCEPT !.distance = Clamped(@ + delta)]

(* endRotate, endPan, endZoomDrag.                                         *)
Ended(button) == dragging \ {button}

(* The handlers of RenderScene look at Left first, then Middle, then Right.*)
Foremost(buttons) ==
    IF "Left" \in buttons THEN "Left" ELSE IF "Middle" \in buttons THEN "Middle" ELSE "Right"
-----------------------------------------------------------------------------
(* The pointer has left the place where a left button's gesture began.     *)
Strayed(p) == p - gesture.from \notin (-Slack + 1) .. (Slack - 1)

Event == events < MaxEvents /\ events' = events + 1

(* mousePressEvent.                                                        *)
Press(button) ==
    /\ Event /\ button \notin held
    /\ held' = held \cup {button}
    /\ IF button = "Left"
       THEN /\ leftDown' = TRUE /\ leftDragging' = FALSE /\ leftPressPos' = pos
            /\ UNCHANGED control
       ELSE /\ Begin(Foremost(held'), camera)
            /\ last' = LastAtBegin(Foremost(held'))
            /\ UNCHANGED <<item, saved>>
    /\ gesture' = IF held = {} THEN [button |-> button, from |-> pos, view |-> camera,
                                     turnedFrom |-> NoGesture, stopped |-> FALSE]
                  ELSE NoGesture
    /\ UNCHANGED <<pos, focus, pick, news, scene, locked>>

(* mouseMoveEvent, sent while a button is held.                            *)
Drag(p) ==
    LET left   == "Left" \in held
        starts == left /\ leftDown /\ ~leftDragging
                       /\ p - leftPressPos \notin (-Slack + 1) .. (Slack - 1)
        heeded == \/ left /\ (leftDragging \/ starts)
                  \/ {"Middle", "Right"} \cap held # {}
        button == Foremost(held)
        view   == IF starts THEN [camera EXCEPT !.target = 0] ELSE camera
        from   == IF starts THEN p ELSE last[button]
        now    == IF heeded /\ (starts \/ button \in dragging)
                  THEN Dragged(button, view, p - from) ELSE view
    IN  /\ Event /\ held # {} /\ p # pos
        /\ pos' = p
        /\ leftDragging' = (leftDragging \/ starts)
        /\ dragging' = IF starts THEN dragging \cup {"Left"} ELSE dragging
        /\ camera' = now
        /\ IF heeded /\ (starts \/ button \in dragging)
           THEN last' = [last EXCEPT ![button] = p] /\ saved' = Notified(now)
           ELSE UNCHANGED <<last, saved>>
        /\ gesture' =
              IF gesture = NoGesture THEN NoGesture
              ELSE [gesture EXCEPT
                      !.turnedFrom = IF @ = NoGesture /\ Strayed(p) THEN p ELSE @,
                      !.stopped = @ \/ (button = "Right" /\ gesture.view.distance
                                          + p - gesture.from \notin Near .. Far)]
    /\ UNCHANGED <<held, leftDown, leftPressPos, focus, pick, news, scene, locked>>

(* The pointer moves with no button held.                                  *)
Hover(p) ==
    /\ Event /\ held = {} /\ p # pos /\ pos' = p
    /\ UNCHANGED <<held, item, focus, pick, news, control, scene, locked, gesture>>

Picks(button) == button = "Left" /\ ~leftDragging

(* mouseReleaseEvent.                                                      *)
Release(button) ==
    /\ Event /\ button \in held
    /\ held' = held \ {button}
    /\ IF button = "Left" THEN leftDown' = FALSE /\ leftDragging' = FALSE
                          ELSE UNCHANGED <<leftDown, leftDragging>>
    /\ pickPending' = (pickPending \/ Picks(button))
    /\ clicked' = IF gesture = NoGesture THEN pickPending'
                  ELSE clicked \/ (button = "Left" /\ gesture.turnedFrom = NoGesture)
    /\ dragging' = IF Picks(button) THEN dragging ELSE Ended(button)
    /\ gesture' = NoGesture
    /\ UNCHANGED <<pos, leftPressPos, focus, news, camera, last, saved, scene, locked>>

(* Qt takes the mouse away: the item has no handler for it.                *)
Ungrab ==
    /\ Event /\ held # {}
    /\ held' = {} /\ gesture' = NoGesture
    /\ UNCHANGED <<pos, item, focus, pick, news, control, scene, locked>>

(* wheelEvent.  What else changes the view ends the claim on a gesture.    *)
Wheel(step) ==
    /\ Event
    /\ camera' = [camera EXCEPT !.distance = Clamped(@ - step)]
    /\ saved' = Notified(camera')
    /\ gesture' = NoGesture
    /\ UNCHANGED <<mouse, item, focus, pick, news, dragging, last, scene, locked>>
-----------------------------------------------------------------------------
(* The setters.                                                            *)
SetOverlayRects(list) ==
    /\ Event /\ newRects' = {list}
    /\ UNCHANGED <<mouse, item, focus, pick, newRotation, source, control,
                   scene, locked, gesture>>

SetImageRotation(quarters) ==
    /\ Event
    /\ quarters \notin (IF newRotation = {} THEN {rotation} ELSE newRotation)
    /\ newRotation' = {quarters}
    /\ UNCHANGED <<mouse, item, focus, pick, newRects, source, control, scene,
                   locked, gesture>>

SetHeightfieldSource(size) ==    \* each file has a size of its own; NoMap clears
    /\ Event /\ size # source /\ source' = size
    /\ UNCHANGED <<mouse, item, focus, pick, newRects, newRotation, control,
                   scene, locked, gesture>>

FocusOverlayRect(id) ==
    /\ Event
    /\ focusPending' = TRUE /\ focusRectId' = id /\ askedLast' = id
    /\ UNCHANGED <<mouse, item, pick, news, control, scene, locked, gesture>>
-----------------------------------------------------------------------------
(* One frame.                                                              *)
DefaultView == [yaw |-> Turn \div 2, target |-> 0, distance |-> 3]

(* getCameraConfig, which fills in what is missing.                        *)
Config == IF saved = NoView THEN DefaultView ELSE saved

(* loadConfig.                                                             *)
Loaded(view) == [view EXCEPT !.distance = Clamped(@)]

(* loadHeightfield: the maps that are to come.  Before init only the last  *)
(* request is remembered, and none for a source without a file; then the   *)
(* earlier ones are on their way, too, and a clear does not stop them all. *)
Loading(path) ==
    LET asked == [size \in MapSizes |-> IF size = path THEN 1 ELSE 0]
    IN  IF sceneInited THEN [size \in MapSizes |-> loading[size] + asked[size]] ELSE asked

(* The renderer's map is not ready from a load to the next arrival.        *)
StateOfMap(path) ==
    CASE path = NoMap -> "none"
      [] path = NoFile -> IF sceneInited THEN mapState ELSE "none"
      [] OTHER -> "loading"

(* computeFitDistance: any distance of the camera; and the auto-fit, which *)
(* only ever moves it nearer.                                              *)
FitDistances == Near .. Far

Fitted(view, fit) ==
    IF fit < view.distance THEN [view EXCEPT !.distance = Clamped(fit)] ELSE view

AnyOf(new, old) == IF new = {} THEN old ELSE CHOOSE n \in new : TRUE

Apart(a, b) == LET d == (a - b) % Turn IN IF d <= Turn \div 2 THEN d ELSE Turn - d

(* Of a yaw and its opposite, the one nearer to the yaw of the view.       *)
NearerFace(yaw, view) ==
    LET opposite == (yaw + Turn \div 2) % Turn
    IN  IF Apart(yaw, view.yaw) <= Apart(opposite, view.yaw) THEN yaw ELSE opposite

CanFocus(id, list, size) ==
    /\ size # NoMap
    /\ IF id = -1 THEN HasDenseSide(list, size) ELSE Has(list, id)

(* focusOverlayRect: the saved view, turned to the side.                   *)
FocusedView(id, list, size, quarters) ==
    LET base == Loaded(Config)
    IN  Loaded([base EXCEPT !.yaw =
            IF id = -1 THEN TargetYaw(DenseSide(list, size), quarters)
            ELSE NearerFace(TargetYaw(NearestSide(First(list, id), size), quarters), base)])

(* synchronize, resize and update.  ok: there is a surface; arrived: the   *)
(* map that comes out of the pipeline, perhaps that of an earlier load,    *)
(* which makes the renderer ready all the same; fit: the distance that     *)
(* fits, for which a fit waits until the renderer is ready.                *)
Frame(ok, arrived, fit) ==
    LET list     == AnyOf(newRects, rects)
        quarters == AnyOf(newRotation, rotation)
        reloads  == source # lastSource
        cleared  == reloads /\ source = NoMap
        shown    == IF cleared THEN NoMap ELSE map
        wanted   == IF reloads THEN Loading(source) ELSE loading
        state    == IF reloads THEN StateOfMap(source) ELSE mapState
        fitAsked == \/ ~cleared /\ autoFitPending
                    \/ reloads /\ ~cleared
                    \/ newRotation # {}
        focuses  == focusPending /\ CanFocus(focusRectId, list, shown)
        starts   == ok /\ ~sceneInited
        view     == IF starts THEN Loaded(Config)
                    ELSE IF focuses THEN FocusedView(focusRectId, list, shown, quarters)
                    ELSE camera
        arrives  == arrived # NoMap
        fits     == ok /\ fitAsked /\ mapState' = "ready"
    IN  /\ arrives => ok /\ wanted[arrived] > 0
        /\ loading' = IF arrives THEN [wanted EXCEPT ![arrived] = @ - 1] ELSE wanted
        /\ map' = IF arrives THEN arrived ELSE shown
        /\ mapState' = IF arrives /\ state # "none" THEN "ready" ELSE state
        /\ fits \/ fit = Far
        /\ rects' = list /\ newRects' = {}
        /\ rotation' = quarters /\ newRotation' = {}
        /\ lastSource' = source
        /\ sceneInited' = (sceneInited \/ ok)
        /\ saved' = IF starts \/ focuses THEN Config ELSE saved
        /\ camera' = IF fits THEN Fitted(view, fit) ELSE view
        /\ autoFitPending' = (fitAsked /\ ~fits)
        /\ focusPending' = (focusPending /\ ~focuses)
        /\ focusRectId' = IF focuses THEN -1 ELSE focusRectId
        /\ pickPending' = FALSE /\ clicked' = FALSE
        /\ gesture' = IF camera' = camera THEN gesture ELSE NoGesture
        /\ UNCHANGED <<mouse, item, askedLast, source, dragging, last, locked, events>>

MouseNext ==
    \/ \E button \in Buttons : Press(button) \/ Release(button)
    \/ \E p \in Positions : Drag(p) \/ Hover(p)
    \/ Ungrab
    \/ \E step \in Wheels : Wheel(step)

SceneNext ==
    \/ \E list \in RectLists : SetOverlayRects(list)
    \/ \E quarters \in 0 .. 3 : SetImageRotation(quarters)
    \/ \E size \in MapSizes \cup {NoMap, NoFile} : SetHeightfieldSource(size)
    \/ \E list \in RectLists : \E i \in DOMAIN list : FocusOverlayRect(list[i].id)
    \/ FocusOverlayRect(-1)

InputNext ==
    \/ MouseNext
    \/ SceneNext
    \/ \E ok \in BOOLEAN, arrived \in MapSizes \cup {NoMap}, fit \in FitDistances :
         Frame(ok, arrived, fit)
-----------------------------------------------------------------------------
(* What the view should be after the moves of the gesture.                 *)
Expected ==
    CASE gesture.button # "Left" ->
            Dragged(gesture.button, gesture.view, pos - gesture.from)
      [] gesture.button = "Left" /\ gesture.turnedFrom # NoGesture ->
            Dragged("Left", [gesture.view EXCEPT !.target = 0], pos - gesture.turnedFrom)
      [] OTHER -> gesture.view

(* While one button is held, and none with it, the view has moved from     *)
(* that of the press by exactly as far as the pointer has, in the way of   *)
(* the button: from the press on, or with the left one from where it left  *)
(* the slack; earlier gestures, cut off or with several buttons, do not    *)
(* show in it.  A rectangle is picked exactly for a press and release of   *)
(* the left button within the slack.                                       *)
GesturesKept ==
    /\ gesture # NoGesture => gesture.stopped \/ camera = Expected
    /\ pickPending = clicked

NearestSides(rect, size) ==
    {Sides[i] : i \in {j \in DOMAIN Sides : \A k \in DOMAIN Sides :
        Distance(rect, size, Sides[j]) <= Distance(rect, size, Sides[k])}}

(* A side's outward direction after the rotation of the image.             *)
LooksAlong(yaw, side, quarters) ==
    yaw % (Turn \div 2) =
        (((IF side \in {"Left", "Right"} THEN 1 ELSE 0) + quarters) % 2) * (Turn \div 4)

(* A request to focus stays until it is granted or another takes its       *)
(* place.  When it is granted, the camera shows the saved view but for its *)
(* yaw, and perhaps nearer: it looks straight at a side of the map that is *)
(* nearest to the rectangle, or away from it, and has turned by a quarter  *)
(* at most; for the densest side it looks at a side some rectangle of an   *)
(* algorithm is nearest to, whatever the turn.                             *)
FocusKept ==
    [][focusPending =>
         /\ focusRectId = askedLast
         /\ focusPending' \/
               /\ map' # NoMap
               /\ camera'.target = saved'.target /\ camera'.distance <= saved'.distance
               /\ \E rect \in {rects'[i] : i \in DOMAIN rects'} :
                     /\ \E side \in NearestSides(rect, IF map = NoMap THEN map' ELSE map) :
                           LooksAlong(camera'.yaw, side, rotation')
                     /\ IF askedLast = -1 THEN rect.id < 0
                        ELSE rect.id = askedLast
                             /\ Apart(camera'.yaw, saved'.yaw) <= Turn \div 4]_input
=============================================================================
