------------------------- MODULE ReadbackPresenter -------------------------
(***************************************************************************)
(* The present path of one viewport: ReadbackPresenter copies the frame    *)
(* bgfx rendered into a ring of readback textures, reads them back a few   *)
(* frames later and uploads the newest one into the FBO that Qt            *)
(* composites.  The module follows one call of                             *)
(* RenderViewportRenderer::render() step by step (pc); everything runs on  *)
(* the render thread, so between two calls only the frames other viewports *)
(* submit to the shared RenderDevice come in.                              *)
(*                                                                         *)
(* A picture is named by its shot, the number of bgfx frames submitted     *)
(* before the one it was blitted in.                                       *)
(***************************************************************************)
EXTENDS FrameIds, Sequences

CONSTANTS
    ReadbackCount,   \* RenderDevice::kReadbackBufferCount
    ReadLatency,     \* bgfx: frames from readTexture to data
    MaxDrainFrames,  \* kMaxDrainFrames
    Sizes,           \* sizes the item can take
    NoSurface,       \* the size of a surface that does not exist
    MaxFrame         \* bound: bgfx frames submitted

ASSUME PresenterAssumption ==
    /\ ReadbackCount \in Nat \ {0}
    /\ ReadLatency \in Nat \ {0}
    /\ ReadLatency <= IdMod \div 2
    /\ MaxDrainFrames \in Nat
    /\ NoSurface \notin Sizes
    /\ MaxFrame \in Nat

VARIABLES
    \* RenderDevice and bgfx
    frame,             \* frames submitted so far
    gpuReads,          \* readTexture calls bgfx still writes the buffer of
    deferred,          \* buffers in the delete queue
    \* ReadbackPresenter
    runtimeInited,
    surface,           \* size of m_surface, NoSurface when there is none
    lastSize,
    readyForRead,      \* m_readyForRead
    pendingReads,      \* m_pendingReads
    readbackInUse,     \* m_readbackInUse
    nextReadbackIndex,
    frameIndex,
    lastFrameId,
    \* one call of render()
    fbo,               \* the FBO Qt composites: its size and what it shows
    newest,            \* local of processCompletedReadbacks
    drained,           \* local "guard" of waitForPendingReadbacks
    pc

device == <<frame, gpuReads, deferred>>
ring   == <<readyForRead, pendingReads, readbackInUse, nextReadbackIndex,
            frameIndex, lastFrameId>>
vars   == <<device, runtimeInited, surface, lastSize, ring, fbo, newest,
            drained, pc>>

Slots     == 0 .. ReadbackCount - 1
Shots     == 0 .. MaxFrame
Cleared   == -1     \* the FBO holds the clear colour
Garbage   == -2     \* the FBO was just allocated by Qt
None      == -3     \* no completed read
Detached  == -1     \* the texture of a read was destroyed with its surface

(* numeric_limits<uint32_t>::max(): m_lastFrameId before the first frame   *)
NoFrame   == NeverRetired

Blit == [shot : Shots, index : Nat, size : Sizes, tex : Slots]
Read == [shot : Shots, frameId : FrameId, size : Sizes, tex : Slots]

TypeOK ==
    /\ frame \in Shots
    /\ gpuReads \subseteq [shot : Shots, tex : Slots \cup {Detached}, due : Nat]
    /\ deferred \subseteq [shot : Shots, safe : FrameId]
    /\ runtimeInited \in BOOLEAN
    /\ surface \in Sizes \cup {NoSurface}
    /\ lastSize \in Sizes \cup {NoSurface}
    /\ readyForRead \in Seq(Blit)
    /\ pendingReads \in Seq(Read)
    /\ readbackInUse \in [Slots -> BOOLEAN]
    /\ nextReadbackIndex \in Slots
    /\ frameIndex \in Nat
    /\ lastFrameId \in FrameId
    /\ fbo \in [size : Sizes, shot : Shots \cup {Cleared, Garbage}]
    /\ newest \in Shots \cup {None}
    /\ drained \in 0 .. MaxDrainFrames
    /\ pc \in {"idle", "ensure", "drain", "complete", "schedule", "blit",
               "endFrame", "finish", "teardown", "released"}
-----------------------------------------------------------------------------
(* RenderDevice::endFrame: bgfx retires one more frame, data of the reads  *)
(* due by then has arrived, and collect() frees what was waiting for it.   *)
DeviceEndFrame ==
    /\ frame < MaxFrame
    /\ frame' = frame + 1
    /\ gpuReads' = {r \in gpuReads : r.due > frame + 1}
    /\ deferred' = {d \in deferred : ~IsRetired(IdOf(frame + 1), d.safe)}

StashUntilNextFrame ==    \* mutant: safe after the last frame, not the read's
    deferred' = deferred \cup
        {[shot |-> pendingReads[i].shot, safe |-> lastFrameId] :
            i \in 1 .. Len(pendingReads)}

(* stashPendingReads: the pixel buffers move to the delete queue.          *)
StashPendingReads ==
    deferred' = deferred \cup
        {[shot |-> pendingReads[i].shot, safe |-> pendingReads[i].frameId] :
            i \in 1 .. Len(pendingReads)}

(* Destroying a surface destroys its textures; reads already issued keep   *)
(* writing to their buffers.                                               *)
DetachReads ==
    gpuReads' = {[r EXCEPT !.tex = Detached] : r \in gpuReads}

ResetKeepsSlots ==    \* mutant: m_readbackInUse is not reset
    /\ readyForRead' = <<>>
    /\ pendingReads' = <<>>
    /\ UNCHANGED readbackInUse
    /\ nextReadbackIndex' = 0
    /\ frameIndex' = 0
    /\ lastFrameId' = NoFrame
    /\ StashPendingReads

(* resetReadbackState, called once the surface has new textures.           *)
ResetReadbackState ==
    /\ readyForRead' = <<>>
    /\ pendingReads' = <<>>
    /\ readbackInUse' = [i \in Slots |-> FALSE]
    /\ nextReadbackIndex' = 0
    /\ frameIndex' = 0
    /\ lastFrameId' = NoFrame
    /\ StashPendingReads
-----------------------------------------------------------------------------
(* render() is entered with an FBO of size sz; Qt has just allocated it if *)
(* the size changed.                                                       *)
BeginRender(sz) ==
    /\ pc = "idle"
    /\ fbo' = IF sz = fbo.size THEN fbo ELSE [size |-> sz, shot |-> Garbage]
    /\ pc' = "ensure"
    /\ UNCHANGED <<device, runtimeInited, surface, lastSize, ring, newest,
                   drained>>

(* ensureSurface returns false and render() returns.                       *)
GiveUp ==
    /\ pc' = "idle"
    /\ UNCHANGED <<lastSize, fbo>>

BindClearsOnSizeOnly(recreated) ==    \* mutant: "recreated" is forgotten
    /\ pc' = "complete"
    /\ lastSize' = fbo.size
    /\ fbo' = IF lastSize # fbo.size THEN [fbo EXCEPT !.shot = Cleared] ELSE fbo

(* The tail of ensureSurface: the fresh FBO is cleared and the size noted. *)
BindTarget(recreated) ==
    /\ pc' = "complete"
    /\ lastSize' = fbo.size
    /\ fbo' = IF recreated \/ lastSize # fbo.size
                THEN [fbo EXCEPT !.shot = Cleared]
                ELSE fbo

(* ensureSurface: the device is acquired on the first call, and again on   *)
(* every call until bgfx::init has succeeded.                              *)
AcquireDevice(ok) ==
    /\ pc = "ensure"
    /\ ~runtimeInited
    /\ runtimeInited' = ok
    /\ IF ok THEN UNCHANGED <<pc, lastSize, fbo>> ELSE GiveUp
    /\ UNCHANGED <<device, surface, ring, newest, drained>>

CreateSurface(ok) ==
    /\ pc = "ensure"
    /\ runtimeInited
    /\ surface = NoSurface
    /\ IF ok
         THEN /\ surface' = fbo.size
              /\ ResetReadbackState
              /\ BindTarget(TRUE)
         ELSE /\ GiveUp
              /\ UNCHANGED <<surface, deferred, ring>>
    /\ UNCHANGED <<frame, gpuReads, runtimeInited, newest, drained>>

KeepSurface ==
    /\ pc = "ensure"
    /\ runtimeInited
    /\ surface = fbo.size
    /\ BindTarget(FALSE)
    /\ UNCHANGED <<device, runtimeInited, surface, ring, newest, drained>>

(* The size changed: waitForPendingReadbacks first.                        *)
BeginResize ==
    /\ pc = "ensure"
    /\ runtimeInited
    /\ surface \notin {NoSurface, fbo.size}
    /\ pc' = "drain"
    /\ drained' = 0
    /\ UNCHANGED <<device, runtimeInited, surface, lastSize, ring, fbo, newest>>

(* waitForPendingReadbacks still has to pump a frame.                      *)
MustDrain ==
    /\ lastFrameId # NoFrame
    /\ drained < MaxDrainFrames
    /\ \E i \in 1 .. Len(pendingReads) :
           /\ pendingReads[i].frameId # NoFrame
           /\ lastFrameId < pendingReads[i].frameId

DrainFrame ==
    /\ pc \in {"drain", "teardown"}
    /\ MustDrain
    /\ DeviceEndFrame
    /\ lastFrameId' = IdOf(frame + 1)
    /\ drained' = drained + 1
    /\ UNCHANGED <<runtimeInited, surface, lastSize, readyForRead, pendingReads,
                   readbackInUse, nextReadbackIndex, frameIndex, fbo, newest, pc>>

(* stashPendingReads, resizeSurface, resetReadbackState.                   *)
ResizeSurface(ok) ==
    /\ pc = "drain"
    /\ ~MustDrain
    /\ DetachReads
    /\ IF ok
         THEN /\ surface' = fbo.size
              /\ ResetReadbackState
              /\ BindTarget(TRUE)
         ELSE /\ surface' = NoSurface
              /\ StashPendingReads
              /\ pendingReads' = <<>>
              /\ GiveUp
              /\ UNCHANGED <<readyForRead, readbackInUse, nextReadbackIndex,
                             frameIndex, lastFrameId>>
    /\ UNCHANGED <<frame, runtimeInited, newest, drained>>
-----------------------------------------------------------------------------
(* processCompletedReadbacks: the condition of its loop.                   *)
Completed ==
    /\ lastFrameId # NoFrame
    /\ pendingReads # <<>>
    /\ Head(pendingReads).frameId <= lastFrameId

(* processCompletedReadbacks, its loop: the front read is popped, its slot *)
(* freed, and its pixels kept if they fit the FBO.                         *)
RetireRead ==
    /\ pc \in {"complete", "finish"}
    /\ Completed
    /\ pendingReads' = Tail(pendingReads)
    /\ readbackInUse' = [readbackInUse EXCEPT ![Head(pendingReads).tex] = FALSE]
    /\ newest' = IF Head(pendingReads).size = fbo.size
                   THEN Head(pendingReads).shot
                   ELSE newest
    /\ UNCHANGED <<device, runtimeInited, surface, lastSize, readyForRead,
                   nextReadbackIndex, frameIndex, lastFrameId, fbo, drained, pc>>

UploadNewest ==
    /\ fbo' = IF newest = None THEN fbo ELSE [fbo EXCEPT !.shot = newest]
    /\ newest' = None

(* The upload at the end of the first processCompletedReadbacks.           *)
Upload ==
    /\ pc = "complete"
    /\ ~Completed
    /\ UploadNewest
    /\ pc' = "schedule"
    /\ UNCHANGED <<device, runtimeInited, surface, lastSize, ring, drained>>

(* scheduleReadbacksFromQueue: the condition of its loop.                  *)
Readable ==
    /\ frameIndex # 0
    /\ readyForRead # <<>>
    /\ frameIndex - Head(readyForRead).index >= 1

PushFront(queue, read) == <<read>> \o queue    \* mutant

PushBack(queue, read) == Append(queue, read)

(* scheduleReadbacksFromQueue, its loop: bgfx::readTexture on the oldest   *)
(* blit, or its slot is freed when bgfx refuses.                           *)
ScheduleRead(ok) ==
    /\ pc = "schedule"
    /\ Readable
    /\ LET record == Head(readyForRead)
           id     == IdOf(frame + ReadLatency) IN
         /\ readyForRead' = Tail(readyForRead)
         /\ IF ok /\ id # NoFrame
              THEN /\ pendingReads' = PushBack(pendingReads,
                        [shot |-> record.shot, frameId |-> id,
                         size |-> record.size, tex |-> record.tex])
                   /\ UNCHANGED readbackInUse
              ELSE /\ readbackInUse' = [readbackInUse EXCEPT ![record.tex] = FALSE]
                   /\ UNCHANGED pendingReads
         /\ gpuReads' = IF ok
              THEN gpuReads \cup {[shot |-> record.shot, tex |-> record.tex,
                                   due |-> frame + ReadLatency]}
              ELSE gpuReads
    /\ UNCHANGED <<frame, deferred, runtimeInited, surface, lastSize,
                   nextReadbackIndex, frameIndex, lastFrameId, fbo, newest,
                   drained, pc>>

(* Nothing left to schedule: the scene renders into the surface.           *)
RenderScene ==
    /\ pc = "schedule"
    /\ ~Readable
    /\ pc' = "blit"
    /\ UNCHANGED <<device, runtimeInited, surface, lastSize, ring, fbo, newest,
                   drained>>

HasFreeReadbackSlot == \E i \in Slots : ~readbackInUse[i]

(* The first free slot from m_nextReadbackIndex on, round robin.           *)
IsNextFree(i) ==
    /\ ~readbackInUse[i]
    /\ \A j \in Slots : ~readbackInUse[j] =>
          (i - nextReadbackIndex) % ReadbackCount
            <= (j - nextReadbackIndex) % ReadbackCount

NextInRing(i) == (i + 1) % ReadbackCount

(* blitForReadback, into slot i.                                           *)
BlitForReadback(i) ==
    /\ pc = "blit"
    /\ IsNextFree(i)
    /\ readyForRead' = Append(readyForRead,
            [shot |-> frame, index |-> frameIndex, size |-> fbo.size, tex |-> i])
    /\ readbackInUse' = [readbackInUse EXCEPT ![i] = TRUE]
    /\ nextReadbackIndex' = NextInRing(i)
    /\ pc' = "endFrame"
    /\ UNCHANGED <<device, runtimeInited, surface, lastSize, pendingReads,
                   frameIndex, lastFrameId, fbo, newest, drained>>

(* The ring is full: the frame is submitted without a blit.                *)
SkipBlit ==
    /\ pc = "blit"
    /\ ~HasFreeReadbackSlot
    /\ pc' = "endFrame"
    /\ UNCHANGED <<device, runtimeInited, surface, lastSize, ring, fbo, newest,
                   drained>>

EndFrame ==
    /\ pc = "endFrame"
    /\ DeviceEndFrame
    /\ lastFrameId' = IdOf(frame + 1)
    /\ pc' = "finish"
    /\ UNCHANGED <<runtimeInited, surface, lastSize, readyForRead, pendingReads,
                   readbackInUse, nextReadbackIndex, frameIndex, fbo, newest,
                   drained>>

(* The upload of the second processCompletedReadbacks, and bumpFrameIndex. *)
FinishRender ==
    /\ pc = "finish"
    /\ ~Completed
    /\ UploadNewest
    /\ frameIndex' = frameIndex + 1
    /\ pc' = "idle"
    /\ UNCHANGED <<device, runtimeInited, surface, lastSize, readyForRead,
                   pendingReads, readbackInUse, nextReadbackIndex, lastFrameId,
                   drained>>
-----------------------------------------------------------------------------
(* Another viewport of the same RenderDevice submits a frame.              *)
OtherViewportFrame ==
    /\ pc \in {"idle", "released"}
    /\ DeviceEndFrame
    /\ UNCHANGED <<runtimeInited, surface, lastSize, ring, fbo, newest, drained,
                   pc>>

(* ~RenderViewportRenderer: drainAndRelease.                               *)
BeginTeardown ==
    /\ pc = "idle"
    /\ pc' = "teardown"
    /\ drained' = 0
    /\ UNCHANGED <<device, runtimeInited, surface, lastSize, ring, fbo, newest>>

Release ==
    /\ pc = "teardown"
    /\ ~MustDrain
    /\ StashPendingReads
    /\ pendingReads' = <<>>
    /\ readyForRead' = <<>>
    /\ IF runtimeInited
         THEN surface' = NoSurface /\ DetachReads
         ELSE UNCHANGED <<surface, gpuReads>>
    /\ runtimeInited' = FALSE
    /\ pc' = "released"
    /\ UNCHANGED <<frame, lastSize, readbackInUse, nextReadbackIndex, frameIndex,
                   lastFrameId, fbo, newest, drained>>
-----------------------------------------------------------------------------
Init ==
    /\ frame = 0
    /\ gpuReads = {}
    /\ deferred = {}
    /\ runtimeInited = FALSE
    /\ surface = NoSurface
    /\ lastSize = NoSurface
    /\ readyForRead = <<>>
    /\ pendingReads = <<>>
    /\ readbackInUse = [i \in Slots |-> FALSE]
    /\ nextReadbackIndex = 0
    /\ frameIndex = 0
    /\ lastFrameId = NoFrame
    /\ \E sz \in Sizes : fbo = [size |-> sz, shot |-> Garbage]
    /\ newest = None
    /\ drained = 0
    /\ pc = "idle"

EnsureSurface ==
    \/ \E ok \in BOOLEAN : AcquireDevice(ok) \/ CreateSurface(ok)
    \/ KeepSurface
    \/ BeginResize
    \/ \E ok \in BOOLEAN : ResizeSurface(ok)

Next ==
    \/ \E sz \in Sizes : BeginRender(sz)
    \/ EnsureSurface
    \/ DrainFrame
    \/ RetireRead \/ Upload
    \/ \E ok \in BOOLEAN : ScheduleRead(ok)
    \/ RenderScene
    \/ \E i \in Slots : BlitForReadback(i)
    \/ SkipBlit
    \/ EndFrame
    \/ FinishRender
    \/ OtherViewportFrame
    \/ BeginTeardown \/ Release

Spec == Init /\ [][Next]_vars
-----------------------------------------------------------------------------
(***************************************************************************)
(* Properties                                                              *)
(***************************************************************************)

(* While there is a surface, a readback texture is marked in use exactly   *)
(* while one record of the two queues holds it, and no two records share a *)
(* texture (blitForReadback, scheduleReadbacksFromQueue and                *)
(* processCompletedReadbacks hand m_readbackInUse from one to the other).  *)
DistinctTextures ==
    /\ \A j, k \in 1 .. Len(readyForRead) :
           readyForRead[j].tex = readyForRead[k].tex => j = k
    /\ \A j, k \in 1 .. Len(pendingReads) :
           pendingReads[j].tex = pendingReads[k].tex => j = k
    /\ \A j \in 1 .. Len(readyForRead), k \in 1 .. Len(pendingReads) :
           readyForRead[j].tex # pendingReads[k].tex

InUseIsHeld ==
    \A i \in Slots : readbackInUse[i] <=>
        \/ \E k \in 1 .. Len(readyForRead) : readyForRead[k].tex = i
        \/ \E k \in 1 .. Len(pendingReads) : pendingReads[k].tex = i

SlotOwnership == surface # NoSurface => DistinctTextures /\ InUseIsHeld

TexturesOwned == TypeOK /\ SlotOwnership

(* A texture bgfx is still reading belongs to the very read that was       *)
(* issued on it, so blitForReadback cannot overwrite it meanwhile.         *)
ReadsKeepTheirTexture ==
    \A r \in gpuReads : r.tex # Detached =>
        \E k \in 1 .. Len(pendingReads) :
            pendingReads[k].tex = r.tex /\ pendingReads[k].shot = r.shot

(* The buffer a read writes to is alive until bgfx has retired its frame:  *)
(* in m_pendingReads, or handed to the delete queue by stashPendingReads.  *)
BuffersOutliveReads ==
    \A r \in gpuReads :
        \/ \E k \in 1 .. Len(pendingReads) : pendingReads[k].shot = r.shot
        \/ \E d \in deferred : d.shot = r.shot

(* Pixels are uploaded, and their buffer dropped, only once bgfx retired   *)
(* the frame of their read ("ready to upload into the Qt FBO texture once  *)
(* bgfx retires frameId", readback_presenter.h:25).                        *)
UploadsAreRetired ==
    \A r \in gpuReads : r.shot # newest /\ r.shot # fbo.shot

(* Until bgfx has retired a read, in whatever state resize, drain and      *)
(* teardown leave it, its texture and its buffer are its own.              *)
ReadsUndisturbed == ReadsKeepTheirTexture /\ BuffersOutliveReads /\ UploadsAreRetired

(* Past ensureSurface, surface and FBO have the same size and the FBO no   *)
(* longer shows memory Qt just allocated ("clears the freshly bound Qt FBO *)
(* once", readback_presenter.h:53).                                        *)
CleanTarget ==
    pc \in {"complete", "schedule", "blit", "endFrame", "finish"} =>
        surface = fbo.size /\ fbo.shot # Garbage

(* The FBO never goes back to an older picture, and of several reads that  *)
(* complete together the freshest is kept for it ("m_pendingReads is FIFO  *)
(* by frameId, so the last one kept is the newest",                        *)
(* readback_presenter.cpp:267).                                            *)
PicturesInOrder ==
    [][/\ fbo.shot \in Shots /\ fbo'.shot \in Shots => fbo'.shot >= fbo.shot
       /\ newest \in Shots /\ newest' \in Shots => newest' >= newest]_<<fbo, newest>>
-----------------------------------------------------------------------------
(* The presenter as a FrameRing: ids become frames still to wait for.      *)
FramesLeft(id) == IF id > frame THEN id - frame ELSE 0

PicturesInFlight ==
    (IF newest = None THEN <<>> ELSE <<[picture |-> newest, left |-> 0]>>)
    \o [k \in 1 .. Len(pendingReads) |->
          [picture |-> pendingReads[k].shot,
           left    |-> FramesLeft(pendingReads[k].frameId)]]
    \o [k \in 1 .. Len(readyForRead) |->
          [picture |-> readyForRead[k].shot, left |-> ReadLatency + 1]]

Flight == IF surface = NoSurface THEN <<>> ELSE PicturesInFlight

Ring == INSTANCE FrameRing WITH
    Depth    <- ReadbackCount,
    Latency  <- ReadLatency,
    Pictures <- Shots,
    flight   <- Flight,
    shown    <- fbo.shot

(* The presenter keeps the promise of FrameRing.                           *)
ImplementsFrameRing == Ring!Spec
=============================================================================
