----------------------------- MODULE RenderLoop -----------------------------
(***************************************************************************)
(* What keeps frames coming: RenderViewportItem's setters and mouse        *)
(* handlers ask Qt for a frame, each frame synchronizes the item's state   *)
(* into the RenderScene, renders it, and asks for the next frame while     *)
(* shouldContinueRendering().  Heightfields are decoded meanwhile on a     *)
(* thread that cannot ask for a frame, and a picture reaches the FBO only  *)
(* frames after it was taken.                                              *)
(*                                                                         *)
(* One viewport in the NoCompute tier (the compute tier always wants       *)
(* frames).  The present path is seen as FrameRing sees it, in frames      *)
(* still to go; HeightfieldPipeline has the decoding in full.              *)
(***************************************************************************)
EXTENDS Integers, Sequences, Subsequences

CONSTANTS
    Depth,         \* RenderDevice::kReadbackBufferCount
    Latency,       \* frames from readTexture to data
    SettleFrames,  \* kIdleSettleFrames
    MaxEdits       \* bound: changes of each kind made by the GUI

ASSUME LoopAssumption ==
    /\ Depth \in Nat \ {0}
    /\ Latency \in Nat \ {0}
    /\ SettleFrames \in Nat
    /\ MaxEdits \in Nat

VARIABLES
    \* RenderViewportItem
    edits,        \* changes of overlay, transform, ... so far
    source,       \* changes of heightfieldSource so far
    wanted,       \* QQuickItem::update() was called
    \* RenderScene and TerrainRenderer
    edited,       \* edits the scene has
    loaded,       \* m_lastHeightfieldPath: the source the scene has
    firstFrame, ready, autoFit,
    view,         \* the camera: changes so far
    viewDirty,    \* Camera::viewDirty()
    map,          \* source of the DMAP texture
    uploads,      \* m_asyncUploadQueue
    \* HeightfieldTextureLoader
    request, decoding, results,
    \* RenderViewportRenderer and ReadbackPresenter
    settle,       \* m_idleSettleFrames
    flight,       \* pictures blitted, not yet in the FBO
    shown         \* the picture in the FBO

item   == <<edits, source>>
scene  == <<edited, loaded, firstFrame, ready, autoFit, view,
            viewDirty, map, uploads>>
loader == <<request, decoding, results>>
loopVars   == <<item, wanted, scene, loader, settle, flight, shown>>

Edits   == 0 .. MaxEdits
Views   == 0 .. 3 * MaxEdits
Unread  == Latency + 1
Picture == [edit : Edits, map : Edits, view : Views]
Blank   == [edit |-> 0, map |-> 0, view |-> 0]

LoopTypeOK ==
    /\ {edits, source, edited, loaded, map} \subseteq Edits
    /\ view \in Views
    /\ {wanted, firstFrame, ready, autoFit, viewDirty} \subseteq BOOLEAN
    /\ {uploads, request, decoding, results} \subseteq Seq(Edits)
    /\ settle \in 0 .. SettleFrames
    /\ flight \in Seq([picture : Picture, left : 0 .. Unread])
    /\ shown \in Picture
-----------------------------------------------------------------------------
(***************************************************************************)
(* The GUI                                                                 *)
(***************************************************************************)

(* setOverlayRects, setImageRotation, setHeightPixelSize, ...              *)
SetProperty ==
    /\ edits < MaxEdits
    /\ edits' = edits + 1
    /\ wanted' = TRUE
    /\ UNCHANGED <<source, scene, loader, settle, flight, shown>>

SetHeightfieldSource ==
    /\ source < MaxEdits
    /\ source' = source + 1
    /\ wanted' = TRUE
    /\ UNCHANGED <<edits, scene, loader, settle, flight, shown>>

(* mouseMoveEvent and wheelEvent move the scene's camera at once.          *)
MoveCamera ==
    /\ view < MaxEdits
    /\ view' = view + 1
    /\ viewDirty' = TRUE
    /\ wanted' = TRUE
    /\ UNCHANGED <<item, edited, loaded, firstFrame, ready, autoFit,
                   map, uploads, loader, settle, flight, shown>>
-----------------------------------------------------------------------------
(***************************************************************************)
(* The worker                                                              *)
(***************************************************************************)
WorkerTake ==
    /\ decoding = <<>> /\ request # <<>>
    /\ decoding' = request
    /\ request' = <<>>
    /\ UNCHANGED <<item, wanted, scene, results, settle, flight, shown>>

WorkerDecode ==
    /\ decoding # <<>>
    /\ results' = results \o decoding
    /\ decoding' = <<>>
    /\ UNCHANGED <<item, wanted, scene, request, settle, flight, shown>>
-----------------------------------------------------------------------------
(***************************************************************************)
(* A frame                                                                 *)
(***************************************************************************)
NewSource == source # loaded

(* synchronize, then RenderScene::update: the camera's matrices are baked, *)
(* results taken and one uploaded, a reload posted, and the auto-fit       *)
(* resolved, which moves the camera if the map looks too small.  A source  *)
(* asks for a fit, and so do the edits of transform and pixel size (asks). *)
UpdateScene(asks, fitMoves) ==
    LET arrived   == uploads \o results
        fitAsked  == autoFit \/ NewSource \/ asks
        fits      == fitAsked /\ ready'
        reloading == NewSource \/ ~firstFrame IN
    /\ asks => edited # edits
    /\ edited' = edits
    /\ loaded' = source
    /\ uploads' = IF arrived = <<>> THEN <<>> ELSE Tail(arrived)
    /\ map' = IF arrived = <<>> THEN map ELSE Head(arrived)
    /\ ready' = IF arrived = <<>> THEN ready /\ ~NewSource ELSE source # 0
    /\ results' = <<>>
    /\ request' = IF reloading THEN <<source>> ELSE request
    /\ firstFrame' = TRUE
    /\ autoFit' = (fitAsked /\ ~fits)
    /\ fitMoves => fits
    /\ view' = IF fitMoves THEN view + 1 ELSE view
    /\ viewDirty' = fitMoves
    /\ UNCHANGED decoding

TakenPicture == [edit |-> edits, map |-> map', view |-> view]

(* scheduleReadbacksFromQueue reads the last blit.                         *)
Scheduled(f) == [f EXCEPT !.left = IF @ = Unread THEN Latency ELSE @]

(* endFrame brings the data of a read nearer.                              *)
Aged(f) == [f EXCEPT !.left = IF @ = Unread THEN @ ELSE @ - 1]

ArrivesLate(f) == f.left < 0    \* mutant: < for <= on the frame of the read

Arrived(f) == f.left = 0

(* A blit whose read is refused is dropped, a new one made if the ring has *)
(* room (blitForReadback); the frame ends, and the newest picture whose    *)
(* data is there is shown (processCompletedReadbacks).                     *)
Present(ok) ==
    LET kept  == {i \in DOMAIN flight : ok \/ flight[i].left # Unread}
        blits == IF Cardinality(kept) < Depth THEN kept \cup {Len(flight) + 1} ELSE kept
        ended == Append([i \in DOMAIN flight |-> Aged(Scheduled(flight[i]))],
                        [picture |-> TakenPicture, left |-> Unread])
        done  == Subsequence(ended, {i \in blits : Arrived(ended[i])}) IN
    /\ flight' = Subsequence(ended, {i \in blits : ~Arrived(ended[i])})
    /\ shown' = IF done = <<>> THEN shown ELSE done[Len(done)].picture

(* After update() a reload is no longer pending and the first frame is     *)
(* done, so the fit and the camera it moved are what is left.              *)
NeedsContinuousUpdate == ~firstFrame \/ autoFit \/ viewDirty

ForgetsReadbacks ==     \* mutant: stops with readbacks in flight
    NeedsContinuousUpdate \/ settle > 0

ShouldContinueRendering ==
    NeedsContinuousUpdate \/ settle > 0 \/ flight # <<>>

Lowered(n) == IF n > 0 THEN n - 1 ELSE 0

(* RenderViewportRenderer::render().                                       *)
Frame(asks, fitMoves, ok) ==
    /\ wanted
    /\ UpdateScene(asks, fitMoves)
    /\ settle' = IF NeedsContinuousUpdate' THEN SettleFrames ELSE Lowered(settle)
    /\ Present(ok)
    /\ wanted' = ShouldContinueRendering'
    /\ UNCHANGED item
-----------------------------------------------------------------------------
LoopInit ==
    /\ edits = 0 /\ source = 0
    /\ wanted = TRUE
    /\ edited = 0 /\ loaded = 0
    /\ firstFrame = FALSE /\ ready = FALSE /\ autoFit = FALSE
    /\ view = 0 /\ viewDirty = TRUE
    /\ map = 0
    /\ uploads = <<>>
    /\ request = <<>> /\ decoding = <<>> /\ results = <<>>
    /\ settle = 0
    /\ flight = <<>>
    /\ shown = Blank

LoopNext ==
    \/ SetProperty \/ SetHeightfieldSource \/ MoveCamera
    \/ WorkerTake \/ WorkerDecode
    \/ \E asks, fitMoves, ok \in BOOLEAN : Frame(asks, fitMoves, ok)

LoopSpec == LoopInit /\ [][LoopNext]_loopVars

(* Qt renders a frame that was asked for, bgfx does not refuse every       *)
(* readback for ever, and the worker is scheduled.                         *)
Fairness ==
    /\ WF_loopVars(\E asks, fitMoves, ok \in BOOLEAN : Frame(asks, fitMoves, ok))
    /\ SF_loopVars(\E asks, fitMoves \in BOOLEAN : Frame(asks, fitMoves, TRUE))
    /\ WF_loopVars(WorkerTake \/ WorkerDecode)

FairLoop == LoopSpec /\ Fairness
-----------------------------------------------------------------------------
(***************************************************************************)
(* Properties                                                              *)
(***************************************************************************)

(* The ring never makes a frame stall: between frames a slot is free, so   *)
(* every frame is blitted ("content is produced every frame and each       *)
(* readback retires a few frames later", readback_presenter.h:70).         *)
RingHasRoom == LoopTypeOK /\ Len(flight) < Depth

(* Once the GUI rests, the FBO comes to show what the GUI last asked for,  *)
(* the map of the last source included, however late the worker delivers   *)
(* it and whenever the auto-fit moves the camera.                          *)
Current == [edit |-> edits, map |-> source, view |-> view]

Freshness == <>[](shown = Current)

(* "Keep pumping until the FBO is up to date" (render_viewport_item.cpp:   *)
(* 170), and then "the loop idles instead of busy-spinning"                *)
(* (docs/ARCHITECTURE.md:296).                                             *)
EventuallyIdle == <>[]~wanted
=============================================================================
