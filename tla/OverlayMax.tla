----------------------------- MODULE OverlayMax -----------------------------
(***************************************************************************)
(* Overlay rectangles of one TerrainRenderer: the list the item stages for *)
(* synchronize, the quads built from it, their maximum heights on the      *)
(* height map (a compute pass into a texture that is read back some frames *)
(* later, or a CPU loop), and the clicks that wait for these heights.      *)
(*                                                                         *)
(* One frame is synchronize (pc "update" next), TerrainRenderer::update    *)
(* and the end of render() (pc "end").  GUI and frames are one thread      *)
(* (main.cpp selects Qt's basic render loop), so calls of the GUI come     *)
(* between frames, when pc is "idle".  A bgfx frame is counted by what a   *)
(* read still has to wait for.                                             *)
(***************************************************************************)
EXTENDS Integers, Sequences, Subsequences

CONSTANTS
    Rects,        \* overlay rectangles
    Lists,        \* the sequences of rectangles that are shown
    Maps,         \* height maps
    NoMap,
    None,         \* no rectangle, no list
    Fits,         \* rectangle and map: the rectangle has an area on the map
    ReadLatency,  \* bgfx: frames from readTexture to data
    MaxChanges,   \* bound: calls that change the rectangles, map or scale
    MaxClicks     \* bound: clicks

(* The buffer of the quads has two entries for each, of a number that      *)
(* nextPow2 finds as a uint16_t only up to 2^15.                           *)
MaxRects == 16384

ASSUME OverlayAssumption ==
    /\ Lists \subseteq Seq(Rects) /\ <<>> \in Lists
    /\ \A l \in Lists : Len(l) <= MaxRects
    /\ NoMap \notin Maps /\ None \notin Rects \cup Lists
    /\ Fits \subseteq Rects \X Maps
    /\ ReadLatency \in Nat \ {0}
    /\ {MaxChanges, MaxClicks} \subseteq Nat

VARIABLES
    \* RenderViewportItem, under m_lock
    staged,         \* m_pendingOverlayRects while m_overlayDirty, else None
    itemPick,       \* m_pickPending of the item
    \* RenderViewportRenderer
    pick,           \* m_pickPending of the renderer
    pc,
    \* what heights are measured on
    asked,          \* the map whose upload is still to come, or NoMap
    map,            \* TEXTURE_DMAP
    sizeOf,         \* the map m_heightfieldWidth and Height are those of
    ready,          \* m_heightfieldReady
    scale,          \* dmap factor: two values that setHeightPixelSize toggles
    \* TerrainRenderer
    screen, world,  \* m_overlayRectsScreen, m_overlayRectsWorld
    screenSpace,    \* m_overlayUseScreenSpace
    worldDirty, computeDirty,
    tex,            \* m_rectMaxTexture, its width (0: invalid) and kind
    readWidth,      \* width of m_rectMaxReadTexture, 0: invalid
    buffer,         \* m_rectMaxReadback
    readPending, cancel, requested, readCount,
    wait,           \* frames until m_rectMaxReadFrame
    submitFrame,    \* m_rectMaxReadSubmitFrame is a frame, not "unknown"
    heights,        \* m_rectMaxHeights
    \* RenderDevice and bgfx
    compute,        \* the tier has compute shaders
    ended,          \* a frame of this device has ended: lastFrameId() # 0
    gpuRead,        \* the readTexture call bgfx has not completed, or NoRead
    stash,          \* the buffer is in the delete queue
    \* history
    list,           \* calls of TerrainRenderer::setOverlayRects
    changes, clicks,
    clicked         \* a click asked for heights since the last change

gui    == <<staged, itemPick>>
basis  == <<asked, map, sizeOf, ready, scale>>
quads  == <<screen, world, screenSpace, worldDirty, computeDirty>>
reads  == <<readPending, cancel, requested, readCount, wait, submitFrame>>
gpu    == <<tex, readWidth>>
device == <<compute, ended, gpuRead, stash>>
ghosts == <<list, changes, clicks, clicked>>
overlayVars == <<gui, pick, pc, basis, quads, gpu, buffer, reads,
                 heights, device, ghosts>>

NoRead     == <<>>
NoTexture  == [width |-> 0, compute |-> FALSE, cells |-> <<>>]
Unmeasured == [rect |-> None, on |-> NoMap, scale |-> 0, list |-> 0]
Cells == [rect : Rects, on : Maps, scale : {1, 2}, list : Nat]
            \cup {Unmeasured}

OverlayTypeOK ==
    /\ staged \in Lists \cup {None}
    /\ {itemPick, pick, ready, screenSpace, worldDirty, computeDirty,
        readPending, cancel, requested, submitFrame, compute, ended,
        stash, clicked} \subseteq BOOLEAN
    /\ pc \in {"idle", "update", "end", "gone"}
    /\ {asked, map, sizeOf} \subseteq Maps \cup {NoMap}
    /\ scale \in {1, 2}
    /\ screen \in Seq(Rects) /\ world \in Seq(Rects)
    /\ tex.width \in Nat /\ tex.compute \in BOOLEAN /\ tex.cells \in Seq(Cells)
    /\ readWidth \in Nat /\ buffer \in Seq(Cells) /\ heights \in Seq(Cells)
    /\ readCount \in Nat /\ wait \in 0 .. ReadLatency
    /\ gpuRead \in Seq(Cells)
    /\ list \in Nat

(* m_overlayUseScreenSpace is true, until Main.qml turns it off at start.  *)
OverlayInit ==
    /\ staged = None /\ itemPick = FALSE /\ pick = FALSE /\ pc = "idle"
    /\ asked = NoMap /\ map = NoMap /\ sizeOf = NoMap /\ ready = FALSE /\ scale = 1
    /\ screen = <<>> /\ world = <<>> /\ screenSpace \in BOOLEAN
    /\ worldDirty = ~screenSpace /\ computeDirty = ~screenSpace
    /\ tex = NoTexture /\ readWidth = 0 /\ buffer = <<>> /\ heights = <<>>
    /\ readPending = FALSE /\ cancel = FALSE /\ requested = FALSE
    /\ readCount = 0 /\ wait = 0 /\ submitFrame = FALSE
    /\ compute \in BOOLEAN /\ ended = FALSE
    /\ gpuRead = NoRead /\ stash = FALSE
    /\ list = 0 /\ changes = 0 /\ clicks = 0 /\ clicked = FALSE
-----------------------------------------------------------------------------
(* nextPow2, of a uint16_t.  Above the last of these its loop never ends.  *)
Widths == {1, 2, 4, 8, 16, 32, 64, 128, 256, 512, 1024, 2048, 4096, 8192, 16384, 32768}

NextPow2(n) == CHOOSE p \in Widths : n <= p /\ p < 2 * n

(* A rectangle yields no quad when it is degenerate on the map; through    *)
(* the camera every rectangle of the model has an area.                    *)
Visible(r) == screenSpace \/ <<r, sizeOf>> \in Fits

Measured(i, w) == [rect |-> w[i], on |-> map, scale |-> scale, list |-> list]

(* A row of n texels: what the compute pass or the CPU loop writes for w.  *)
MeasuredRow(n, w) ==
    [i \in 1 .. n |-> IF i <= Len(w) THEN Measured(i, w) ELSE Unmeasured]

(* bgfx copies s, the whole read texture, to the start of the buffer t.    *)
Delivered(s, t) == [i \in DOMAIN t |-> IF i <= Len(s) THEN s[i] ELSE t[i]]

(* overlayMaxReady, once the heights are h.                                *)
OverlayMaxReady(h) == world # <<>> /\ Len(h) >= Len(world)

Change ==
    /\ changes < MaxChanges
    /\ changes' = changes + 1
    /\ clicked' = FALSE
-----------------------------------------------------------------------------
(* The GUI thread.                                                         *)

(* RenderViewportItem::setOverlayRects and clearOverlayRects.              *)
StageRects(l) ==
    /\ pc = "idle" /\ Change
    /\ staged' = l
    /\ UNCHANGED <<itemPick, pick, pc, basis, quads, gpu, buffer,
                   reads, heights, device, list, clicks>>

(* mouseReleaseEvent without a drag: the click is staged, but the request  *)
(* goes straight to the TerrainRenderer (requestOverlayMaxReadback).       *)
Click ==
    /\ pc = "idle" /\ clicks < MaxClicks
    /\ itemPick' = TRUE
    /\ requested' = (requested \/ screen # <<>>)
    /\ clicks' = clicks + 1
    /\ clicked' = (screen # <<>>)
    /\ UNCHANGED <<staged, pick, pc, basis, quads, gpu, buffer,
                   readPending, cancel, readCount, wait, submitFrame, heights,
                   device, list, changes>>

(* setOverlayUseScreenSpace, straight to the TerrainRenderer.              *)
SetUseScreenSpace ==
    /\ pc = "idle" /\ Change
    /\ screenSpace' = ~screenSpace
    /\ worldDirty' = TRUE /\ computeDirty' = TRUE
    /\ UNCHANGED <<gui, pick, pc, basis, screen, world, gpu, buffer,
                   reads, heights, device, list, clicks>>

(* RenderViewportItem::setHeightfieldSource: synchronize calls             *)
(* loadHeightfieldFromFile, which clears m_heightfieldReady.               *)
LoadMap(m) ==
    /\ pc = "idle" /\ Change
    /\ asked' = m /\ ready' = FALSE
    /\ computeDirty' = TRUE
    /\ UNCHANGED <<gui, pick, pc, map, sizeOf, scale, screen, world, screenSpace,
                   worldDirty, gpu, buffer, reads, heights, device,
                   list, clicks>>

(* TerrainRenderer::clearHeightfield, through synchronize.                 *)
ClearMap ==
    /\ pc = "idle" /\ Change
    /\ asked' = NoMap /\ ready' = FALSE /\ map' = NoMap /\ sizeOf' = NoMap
    /\ worldDirty' = TRUE /\ computeDirty' = TRUE
    /\ cancel' = (cancel \/ readPending)
    /\ requested' = FALSE
    /\ heights' = <<>>
    /\ UNCHANGED <<gui, pick, pc, scale, screen, world, screenSpace,
                   gpu, buffer, readPending, readCount, wait, submitFrame,
                   device, list, clicks>>

(* setHeightPixelSize and setImageTransform, through synchronize.          *)
SetScale ==
    /\ pc = "idle" /\ Change
    /\ scale' = 3 - scale
    /\ worldDirty' = TRUE /\ computeDirty' = TRUE
    /\ UNCHANGED <<gui, pick, pc, asked, map, sizeOf, ready, screen, world,
                   screenSpace, gpu, buffer, reads, heights, device,
                   list, clicks>>
-----------------------------------------------------------------------------
(* One frame, on the render thread.                                        *)

SetRectsNoCancel(l) ==    \* mutant: a read in flight is not cancelled
    /\ screen' = l /\ world' = <<>>
    /\ worldDirty' = TRUE /\ computeDirty' = TRUE
    /\ UNCHANGED cancel
    /\ heights' = IF readPending THEN heights ELSE <<>>
    /\ requested' = TRUE
    /\ list' = list + 1

(* TerrainRenderer::setOverlayRects.                                       *)
SetOverlayRects(l) ==
    /\ screen' = l /\ world' = <<>>
    /\ worldDirty' = TRUE /\ computeDirty' = TRUE
    /\ cancel' = (cancel \/ readPending)
    /\ heights' = IF readPending THEN heights ELSE <<>>
    /\ requested' = TRUE
    /\ list' = list + 1

(* RenderViewportRenderer::synchronize: the GUI thread is blocked.         *)
Synchronize ==
    /\ pc = "idle"
    /\ IF staged # None
       THEN SetOverlayRects(staged)
       ELSE UNCHANGED <<screen, world, worldDirty, computeDirty, cancel,
                        heights, requested, list>>
    /\ staged' = None
    /\ pick' = (pick \/ itemPick)
    /\ itemPick' = FALSE
    /\ pc' = "update"
    /\ UNCHANGED <<basis, screenSpace, gpu, buffer, readPending,
                   readCount, wait, submitFrame, device, changes, clicks,
                    clicked>>

(* The new map is on the GPU: processAsyncUploads ("upload") cancels a read *)
(* of the old one and asks for another, a GPU decode and a map from the    *)
(* cache do neither, and the cache does not look at the size.              *)
InstallMap(how) ==
    /\ pc = "update" /\ asked # NoMap
    /\ how = "decode" => compute
    /\ map' = asked /\ sizeOf' = asked /\ asked' = NoMap /\ ready' = TRUE
    /\ computeDirty' = TRUE
    /\ worldDirty' = (worldDirty \/ (how # "cache" /\ sizeOf # asked))
    /\ cancel' = (cancel \/ (how = "upload" /\ readPending))
    /\ requested' = (requested \/ how = "upload")
    /\ clicked' = FALSE
    /\ UNCHANGED <<gui, pick, pc, scale, screen, world, screenSpace,
                   gpu, buffer, readPending, readCount, wait, submitFrame, heights,
                   device, list, changes, clicks>>

(* readTexture into m_rectMaxReadback, resized to n, of a texture that     *)
(* holds row.                                                              *)
IssueRead(row, n) ==
    /\ buffer' = [i \in 1 .. n |-> IF i <= Len(buffer) THEN buffer[i]
                                                      ELSE Unmeasured]
    /\ gpuRead' = row
    /\ readPending' = TRUE /\ requested' = FALSE
    /\ readCount' = Len(world') /\ wait' = ReadLatency /\ submitFrame' = ended

NoNewRead == UNCHANGED <<buffer, gpuRead, readPending, readCount, wait, submitFrame>>

Dirty == worldDirty \/ computeDirty

(* A read in flight, or no map to measure on, stops updateOverlayGpuData.  *)
SkipUpdate ==
    /\ readPending \/ (Dirty /\ screen # <<>> /\ (~ready \/ map = NoMap))
    /\ UNCHANGED <<world, worldDirty, computeDirty, gpu, heights, requested>>
    /\ NoNewRead

(* Nothing to compute; a read that was asked for is issued.                *)
OnlyRead ==
    /\ ~readPending /\ ~Dirty
    /\ UNCHANGED <<world, worldDirty, computeDirty, gpu, heights>>
    /\ IF compute /\ requested /\ world # <<>> /\ tex.width > 0 /\ readWidth > 0
       THEN IssueRead(SubSeq(tex.cells, 1, readWidth), tex.width)
       ELSE NoNewRead /\ UNCHANGED requested

DropRects ==
    /\ ~readPending /\ Dirty /\ screen = <<>>
    /\ world' = <<>> /\ heights' = <<>>
    /\ worldDirty' = FALSE /\ computeDirty' = FALSE /\ requested' = FALSE
    /\ UNCHANGED gpu /\ NoNewRead

(* ensureOverlayMaxTexture for n quads.  The read texture is made once:    *)
(* when the other one grows it keeps its width.                            *)
EnsureTextures(n) ==
    LET width == IF tex.width < n \/ tex.compute # compute THEN NextPow2(n)
                                                           ELSE tex.width
    IN  /\ tex' = [width |-> width, compute |-> compute,
                   cells |-> MeasuredRow(width, world')]
        /\ readWidth' = IF compute /\ readWidth = 0 THEN width ELSE readWidth

(* The quads are built if need be, and measured.                           *)
Measure ==
    /\ ~readPending /\ Dirty /\ screen # <<>> /\ ready /\ map # NoMap
    /\ world' = IF worldDirty
                THEN Subsequence(screen, {i \in DOMAIN screen : Visible(screen[i])})
                ELSE world
    /\ worldDirty' = FALSE /\ computeDirty' = FALSE
    /\ IF world' = <<>>
       THEN UNCHANGED <<gpu, heights, requested>> /\ NoNewRead
       ELSE /\ EnsureTextures(Len(world'))
            /\ IF ~compute
               THEN heights' = tex'.cells /\ requested' = FALSE /\ NoNewRead
               ELSE IF requested
               THEN /\ IssueRead(SubSeq(tex'.cells, 1, readWidth'), tex'.width)
                    /\ UNCHANGED heights
               ELSE UNCHANGED <<heights, requested>> /\ NoNewRead

(* updateOverlayGpuData, in TerrainRenderer::update.                       *)
UpdateOverlayGpuData ==
    /\ pc = "update"
    /\ SkipUpdate \/ OnlyRead \/ DropRects \/ Measure
    /\ pc' = "end"
    /\ UNCHANGED <<gui, pick, basis, screen, screenSpace, cancel, compute,
                   ended, stash, ghosts>>

(* bgfx::frame: a read that is due has written the buffer.                 *)
BgfxFrame ==
    /\ ended' = TRUE
    /\ wait' = IF wait > 0 THEN wait - 1 ELSE wait
    /\ IF gpuRead # NoRead /\ wait = 1
       THEN buffer' = Delivered(gpuRead, buffer) /\ gpuRead' = NoRead
       ELSE UNCHANGED <<buffer, gpuRead>>

(* processOverlayMaxReadback.                                              *)
ProcessOverlayMaxReadback ==
    IF readPending /\ wait' = 0
    THEN /\ readPending' = FALSE /\ cancel' = FALSE
         /\ heights' = IF cancel THEN <<>>
                       ELSE SubSeq(buffer', 1, IF readCount < Len(buffer')
                                               THEN readCount ELSE Len(buffer'))
    ELSE UNCHANGED <<readPending, cancel, heights>>

LeavePickWaiting ==    \* mutant: a click that has to wait asks for no read
    /\ pick' = (pick /\ ~OverlayMaxReady(heights') /\ screen # <<>>)
    /\ UNCHANGED requested

(* The click of render().  Once the heights are there it is answered, by   *)
(* pickOverlayRect, hit or miss; before, it asks for them and waits.       *)
ResolvePick ==
    /\ pick' = (pick /\ ~OverlayMaxReady(heights') /\ screen # <<>>)
    /\ requested' = (requested \/ pick')

(* The end of render().  With no free slot in the readback ring it returns *)
(* before the click (stalled).                                             *)
EndRender(stalled) ==
    /\ pc = "end"
    /\ BgfxFrame
    /\ ProcessOverlayMaxReadback
    /\ IF stalled THEN UNCHANGED <<pick, requested>> ELSE ResolvePick
    /\ pc' = "idle"
    /\ UNCHANGED <<gui, basis, quads, gpu, readCount, submitFrame,
                   compute, stash, ghosts>>
-----------------------------------------------------------------------------
(* A frame of another viewport, or one that a drain pumps: bgfx moves on,  *)
(* and the delete queue runs what was safe after the frame before the one  *)
(* a read was submitted in.                                                *)
OtherFrame ==
    /\ pc \in {"idle", "gone"}
    /\ wait > 0 \/ stash \/ ~ended
    /\ BgfxFrame
    /\ stash' = (stash /\ ~submitFrame)
    /\ UNCHANGED <<gui, pick, pc, basis, quads, gpu, readPending, cancel,
                   requested, readCount, submitFrame, heights, compute, ghosts>>

(* The scene graph drops the renderer and makes a new one.  The scene is   *)
(* the item's and stays; the click goes with the renderer, and the new one *)
(* loads the map of the item's source.                                     *)
RecreateRenderer ==
    /\ pc = "idle" /\ Change
    /\ pick' = FALSE
    /\ asked' = IF asked = NoMap THEN map ELSE asked
    /\ ready' = FALSE
    /\ computeDirty' = (computeDirty \/ asked' # NoMap)
    /\ UNCHANGED <<gui, pc, map, sizeOf, scale, screen, world, screenSpace,
                   worldDirty, gpu, buffer, reads, heights, device, list,
                   clicks>>

(* The item is destroyed: TerrainRenderer::shutdown stashes the buffer of  *)
(* a pending read.                                                         *)
Shutdown ==
    /\ pc = "idle"
    /\ pc' = "gone"
    /\ stash' = readPending
    /\ readPending' = FALSE /\ cancel' = FALSE /\ requested' = FALSE
    /\ buffer' = <<>> /\ tex' = NoTexture /\ readWidth' = 0
    /\ screen' = <<>> /\ world' = <<>>
    /\ computeDirty' = TRUE /\ worldDirty' = FALSE
    /\ ready' = FALSE /\ map' = NoMap /\ sizeOf' = NoMap /\ asked' = NoMap
    /\ UNCHANGED <<gui, pick, scale, screenSpace, readCount, wait,
                   submitFrame, heights, compute, ended, gpuRead,
                   ghosts>>

Frame == \/ Synchronize \/ UpdateOverlayGpuData
         \/ \E stalled \in BOOLEAN : EndRender(stalled)

OverlayNext ==
    \/ \E l \in Lists : StageRects(l)
    \/ Click \/ SetUseScreenSpace \/ SetScale \/ ClearMap
    \/ \E m \in Maps : LoadMap(m)
    \/ \E how \in {"upload", "decode", "cache"} : InstallMap(how)
    \/ Frame
    \/ OtherFrame \/ RecreateRenderer \/ Shutdown

(* A viewport that waits for a click asks for frames, and its ring does    *)
(* not stay full (RenderLoop).                                             *)
OverlaySpec == /\ OverlayInit /\ [][OverlayNext]_overlayVars
               /\ WF_overlayVars(Frame) /\ SF_overlayVars(EndRender(FALSE))
-----------------------------------------------------------------------------
(* Once a list has quads, no height measured for another list is left: a   *)
(* read in flight when the list changes is dropped when it lands, and its  *)
(* successor is kept.                                                      *)
HeightsOfCurrentRects ==
    /\ OverlayTypeOK
    /\ world # <<>> => \A i \in DOMAIN heights :
                          heights[i].list \in {list, Unmeasured.list}

(* Quads on a map that is there.                                           *)
Usable == ready /\ world # <<>> /\ pc # "gone"

(* Heights of the quads as they are, as far as the read texture reaches.   *)
HeightsCurrent ==
    /\ Len(heights) >= Len(world)
    /\ \A i \in 1 .. Len(world) :
          (i <= readWidth \/ ~compute) => heights[i] = Measured(i, world)

(* After a click nothing stays stale: once rectangles, map and scale rest, *)
(* the heights become those of the scene.                                  *)
ClickedHeightsCatchUp == ~<>[](clicked /\ Usable /\ ~HeightsCurrent)

(* A click on usable rectangles is answered.                               *)
PickResolves == ~<>[](pick /\ Usable)

(* terrain_renderer_internal.h: the buffer of an overlay read in flight is *)
(* kept alive by the delete queue when the renderer goes away.             *)
BufferOutlivesRead == pc = "gone" /\ gpuRead # NoRead => stash

(* A read in flight serves the list it was made for, and writes to memory  *)
(* that is still there.                                                    *)
ReadsServeTheirList == HeightsOfCurrentRects /\ BufferOutlivesRead

(* Clicks have their effect, however the scene changes around them.        *)
ClicksServed == ClickedHeightsCatchUp /\ PickResolves
=============================================================================
