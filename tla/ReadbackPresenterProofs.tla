---------------------- MODULE ReadbackPresenterProofs ----------------------
(***************************************************************************)
(* Proofs about ReadbackPresenter, for every ring size, read latency,      *)
(* drain limit and set of sizes, as long as frame ids do not wrap, and     *)
(* about the loop of frames that RenderLoop puts on top of it.             *)
(***************************************************************************)
EXTENDS ReadbackPresenter, RenderLoop, SequenceTheorems, SubsequencesProofs, FunctionTheorems,
        TLAPS

(* The device has not submitted so many frames that an id wraps, or is the *)
(* one that stands for "no frame": 2^32 - 1 frames, two years at 60 Hz.    *)
NoWrap == MaxFrame + ReadLatency < NeverRetired

Rendering == {"complete", "schedule", "blit", "endFrame", "finish"}

(* An id is the number of its frame.                                       *)
LEMMA IdIsFrame ==
    ASSUME NoWrap, NEW n \in Nat, n <= MaxFrame + ReadLatency
    PROVE  IdOf(n) = n /\ IdOf(n) \in FrameId /\ IdOf(n) # NoFrame
<1>1. n \in 0 .. IdMod - 2
  BY IdModAssumption, PresenterAssumption DEF NoWrap, NeverRetired
<1>2. n % IdMod = n
  BY <1>1, IdModAssumption
<1>3. QED
  BY <1>1, <1>2, IdModAssumption DEF IdOf, FrameId, NoFrame, NeverRetired

LEMMA NoFrameType == NoFrame \in FrameId /\ NoFrame \in Nat
  BY IdModAssumption DEF NoFrame, NeverRetired, FrameId

(* isRetired never holds of a frame that is still to come, if it comes     *)
(* within half the range of ids.                                           *)
LEMMA FutureNotRetired ==
    ASSUME NoWrap, NEW n \in Nat, NEW m \in Nat, n < m, m <= n + ReadLatency,
           m <= MaxFrame + ReadLatency
    PROVE  ~IsRetired(IdOf(n), m)
<1>1. IdOf(n) = n
  BY IdIsFrame, PresenterAssumption
<1>2. n \in 0 .. IdMod - 1 /\ m \in 0 .. IdMod - 1 /\ m - n <= IdMod \div 2
  BY IdModAssumption, PresenterAssumption DEF NoWrap, NeverRetired
<1>3. (n - m) % IdMod >= IdMod \div 2
  BY <1>2, IdModAssumption
<1>4. (n - m) % IdMod \in Int /\ IdMod \div 2 \in Int
  BY <1>2, IdModAssumption
<1>5. QED
  BY <1>1, <1>3, <1>4 DEF IsRetired
-----------------------------------------------------------------------------
(* Every state is well typed.                                              *)
LEMMA InitType == Init => TypeOK
<1> SUFFICES ASSUME Init PROVE TypeOK
  OBVIOUS
<1>1. frame \in Shots /\ nextReadbackIndex \in Slots /\ drained \in 0 .. MaxDrainFrames
  BY PresenterAssumption DEF Init, Shots, Slots
<1>2. readyForRead \in Seq(Blit) /\ pendingReads \in Seq(Read)
  BY DEF Init
<1>3. lastFrameId \in FrameId
  BY NoFrameType DEF Init
<1>4. fbo \in [size : Sizes, shot : Shots \cup {Cleared, Garbage}]
  BY DEF Init
<1>5. QED
  BY <1>1, <1>2, <1>3, <1>4 DEF Init, TypeOK

LEMMA DeviceFrameType ==
    ASSUME TypeOK, DeviceEndFrame
    PROVE  /\ frame' \in Shots
           /\ (gpuReads \subseteq [shot : Shots, tex : Slots \cup {Detached}, due : Nat])'
           /\ (deferred \subseteq [shot : Shots, safe : FrameId])'
  BY PresenterAssumption DEF DeviceEndFrame, TypeOK, Shots

LEMMA StashType ==
    ASSUME TypeOK, StashPendingReads
    PROVE  (deferred \subseteq [shot : Shots, safe : FrameId])'
<1>1. \A i \in 1 .. Len(pendingReads) : pendingReads[i] \in Read
  BY DEF TypeOK
<1>2. QED
  BY <1>1 DEF StashPendingReads, TypeOK, Read

LEMMA DetachType ==
    ASSUME TypeOK, DetachReads
    PROVE  (gpuReads \subseteq [shot : Shots, tex : Slots \cup {Detached}, due : Nat])'
  BY DEF DetachReads, TypeOK

LEMMA ResetType ==
    ASSUME TypeOK, ResetReadbackState
    PROVE  /\ (readyForRead \in Seq(Blit))'
           /\ (pendingReads \in Seq(Read))'
           /\ (readbackInUse \in [Slots -> BOOLEAN])'
           /\ nextReadbackIndex' \in Slots
           /\ frameIndex' \in Nat
           /\ lastFrameId' \in FrameId
           /\ (deferred \subseteq [shot : Shots, safe : FrameId])'
  BY NoFrameType, StashType, PresenterAssumption DEF ResetReadbackState, Slots

LEMMA BindType ==
    ASSUME TypeOK, NEW b \in BOOLEAN, BindTarget(b)
    PROVE  /\ pc' = "complete"
           /\ lastSize' \in Sizes \cup {NoSurface}
           /\ (fbo \in [size : Sizes, shot : Shots \cup {Cleared, Garbage}])'
           /\ fbo'.size = fbo.size
  BY DEF BindTarget, TypeOK

(* What ensureSurface and an upload put on the screen.                     *)
LEMMA BindShot ==
    ASSUME TypeOK, NEW b \in BOOLEAN, BindTarget(b)
    PROVE  fbo'.shot \in {fbo.shot, Cleared} /\ (b => fbo'.shot = Cleared)
  BY DEF BindTarget, TypeOK

LEMMA UploadShot ==
    ASSUME TypeOK, UploadNewest
    PROVE  /\ newest' = None
           /\ fbo'.shot = IF newest = None THEN fbo.shot ELSE newest
  BY DEF UploadNewest, TypeOK

(* Detaching a read keeps its picture and the frame it is due.             *)
LEMMA DetachedReads ==
    ASSUME TypeOK, DetachReads
    PROVE  \A r \in gpuReads' :
             /\ r.tex = Detached
             /\ \E q \in gpuReads : q.shot = r.shot /\ q.due = r.due
  BY DEF DetachReads, TypeOK

LEMMA HeadType ==
    ASSUME NEW S, NEW q \in Seq(S), q # <<>>
    PROVE  /\ Head(q) \in S /\ Tail(q) \in Seq(S)
           /\ Head(q) = q[1]
           /\ Len(q) \in Nat /\ Len(q) >= 1
           /\ Len(Tail(q)) = Len(q) - 1
           /\ \A k \in 1 .. Len(Tail(q)) : Tail(q)[k] = q[k + 1]
  OBVIOUS

LEMMA StepType == TypeOK /\ [Next]_vars => TypeOK'
<1> SUFFICES ASSUME TypeOK, [Next]_vars PROVE TypeOK'
  OBVIOUS
<1> USE DEF device, ring
<1>1. ASSUME NEW sz \in Sizes, BeginRender(sz) PROVE TypeOK'
  BY <1>1 DEF BeginRender, TypeOK
<1>2. ASSUME NEW ok \in BOOLEAN, AcquireDevice(ok) PROVE TypeOK'
  BY <1>2 DEF AcquireDevice, GiveUp, TypeOK
<1>3. ASSUME NEW ok \in BOOLEAN, CreateSurface(ok) PROVE TypeOK'
  <2>1. CASE ok
    BY <1>3, <2>1, ResetType, BindType DEF CreateSurface, TypeOK
  <2>2. CASE ~ok
    BY <1>3, <2>2 DEF CreateSurface, GiveUp, TypeOK
  <2>3. QED
    BY <2>1, <2>2
<1>4. CASE KeepSurface
  BY <1>4, BindType DEF KeepSurface, TypeOK
<1>5. CASE BeginResize
  BY <1>5, PresenterAssumption DEF BeginResize, TypeOK
<1>6. CASE DrainFrame
  <2>1. lastFrameId' \in FrameId
    BY <1>6, IdModAssumption DEF DrainFrame, IdOf, FrameId, TypeOK, Shots
  <2>2. drained' \in 0 .. MaxDrainFrames
    BY <1>6, PresenterAssumption DEF DrainFrame, MustDrain, TypeOK
  <2>3. QED
    BY <1>6, <2>1, <2>2, DeviceFrameType DEF DrainFrame, TypeOK
<1>7. ASSUME NEW ok \in BOOLEAN, ResizeSurface(ok) PROVE TypeOK'
  <2>1. CASE ok
    BY <1>7, <2>1, ResetType, BindType, DetachType DEF ResizeSurface, TypeOK
  <2>2. CASE ~ok
    BY <1>7, <2>2, StashType, DetachType DEF ResizeSurface, GiveUp, TypeOK
  <2>3. QED
    BY <2>1, <2>2
<1>8. CASE RetireRead
  <2>1. Head(pendingReads) \in Read /\ Tail(pendingReads) \in Seq(Read)
    BY <1>8, HeadType DEF RetireRead, Completed, TypeOK
  <2>2. newest' \in Shots \cup {None}
    BY <1>8, <2>1 DEF RetireRead, TypeOK, Read
  <2>3. QED
    BY <1>8, <2>1, <2>2 DEF RetireRead, TypeOK
<1>9. CASE Upload
  BY <1>9 DEF Upload, UploadNewest, TypeOK
<1>10. ASSUME NEW ok \in BOOLEAN, ScheduleRead(ok) PROVE TypeOK'
  <2> DEFINE record == Head(readyForRead)
             id     == IdOf(frame + ReadLatency)
             read   == [shot |-> record.shot, frameId |-> id,
                        size |-> record.size, tex |-> record.tex]
  <2>1. record \in Blit /\ Tail(readyForRead) \in Seq(Blit)
    BY <1>10, HeadType DEF ScheduleRead, Readable, TypeOK
  <2>2. id \in FrameId /\ frame + ReadLatency \in Nat
    BY IdModAssumption, PresenterAssumption DEF IdOf, FrameId, TypeOK, Shots
  <2>3. read \in Read
    BY <2>1, <2>2 DEF Blit, Read
  <2> HIDE DEF read
  <2>4. pendingReads' \in Seq(Read)
    <3>1. pendingReads' = pendingReads \/ pendingReads' = PushBack(pendingReads, read)
      BY <1>10, Zenon DEF ScheduleRead, read
    <3>2. pendingReads \in Seq(Read)
      BY DEF TypeOK
    <3>3. PushBack(pendingReads, read) \in Seq(Read)
      BY <3>2, <2>3 DEF PushBack
    <3>4. QED
      BY <3>1, <3>2, <3>3
  <2>5. readbackInUse' \in [Slots -> BOOLEAN]
    <3>1. \/ readbackInUse' = readbackInUse
          \/ readbackInUse' = [readbackInUse EXCEPT ![record.tex] = FALSE]
      BY <1>10, Zenon DEF ScheduleRead
    <3>2. QED
      BY <3>1 DEF TypeOK
  <2>6. (gpuReads \subseteq [shot : Shots, tex : Slots \cup {Detached}, due : Nat])'
    BY <1>10, <2>1, <2>2 DEF ScheduleRead, TypeOK, Blit
  <2>7. QED
    BY <1>10, <2>1, <2>4, <2>5, <2>6 DEF ScheduleRead, TypeOK
<1>11. CASE RenderScene
  BY <1>11 DEF RenderScene, TypeOK
<1>12. ASSUME NEW i \in Slots, BlitForReadback(i) PROVE TypeOK'
  <2>1. [shot |-> frame, index |-> frameIndex, size |-> fbo.size, tex |-> i] \in Blit
    BY DEF TypeOK, Blit
  <2>2. nextReadbackIndex' \in Slots
    BY <1>12, PresenterAssumption DEF BlitForReadback, NextInRing, Slots
  <2>3. QED
    BY <1>12, <2>1, <2>2 DEF BlitForReadback, TypeOK
<1>13. CASE SkipBlit
  BY <1>13 DEF SkipBlit, TypeOK
<1>14. CASE EndFrame
  <2>1. lastFrameId' \in FrameId
    BY <1>14, IdModAssumption DEF EndFrame, IdOf, FrameId, TypeOK, Shots
  <2>2. QED
    BY <1>14, <2>1, DeviceFrameType DEF EndFrame, TypeOK
<1>15. CASE FinishRender
  BY <1>15 DEF FinishRender, UploadNewest, TypeOK
<1>16. CASE OtherViewportFrame
  BY <1>16, DeviceFrameType DEF OtherViewportFrame, TypeOK
<1>17. CASE BeginTeardown
  BY <1>17, PresenterAssumption DEF BeginTeardown, TypeOK
<1>18. CASE Release
  <2>1. (gpuReads \subseteq [shot : Shots, tex : Slots \cup {Detached}, due : Nat])'
    BY <1>18, DetachType DEF Release, TypeOK
  <2>2. surface' \in Sizes \cup {NoSurface}
    BY <1>18 DEF Release, TypeOK
  <2>3. (deferred \subseteq [shot : Shots, safe : FrameId])'
    BY <1>18, StashType DEF Release
  <2>4. /\ readyForRead' = <<>> /\ pendingReads' = <<>>
        /\ runtimeInited' = FALSE /\ pc' = "released"
        /\ UNCHANGED <<frame, lastSize, readbackInUse, nextReadbackIndex,
                       frameIndex, lastFrameId, fbo, newest, drained>>
    BY <1>18 DEF Release
  <2>5. /\ (readyForRead \in Seq(Blit))' /\ (pendingReads \in Seq(Read))'
    BY <2>4
  <2>6. fbo' \in [size : Sizes, shot : Shots \cup {Cleared, Garbage}]
    BY <2>4 DEF TypeOK
  <2>7. readbackInUse' \in [Slots -> BOOLEAN]
    BY <2>4 DEF TypeOK
  <2>8. QED
    BY <2>1, <2>2, <2>3, <2>4, <2>5, <2>6, <2>7 DEF TypeOK
<1>19. CASE UNCHANGED vars
  BY <1>19 DEF vars, TypeOK
<1>20. QED
  BY <1>1, <1>2, <1>3, <1>4, <1>5, <1>6, <1>7, <1>8, <1>9, <1>10, <1>11, <1>12,
     <1>13, <1>14, <1>15, <1>16, <1>17, <1>18, <1>19 DEF Next, EnsureSurface

THEOREM TypeCorrect == Spec => []TypeOK
  BY InitType, StepType, PTL DEF Spec
-----------------------------------------------------------------------------
(***************************************************************************)
(* The inductive invariant                                                 *)
(***************************************************************************)

(* Where in ensureSurface and render() the surface can differ from the FBO.*)
SurfaceInv ==
    /\ surface # NoSurface => runtimeInited
    /\ surface = NoSurface => pendingReads = <<>>
    /\ ~runtimeInited => readyForRead = <<>>
    /\ pc \in Rendering => surface = fbo.size
    /\ pc \in {"idle", "teardown"} => surface \in {NoSurface, fbo.size}
    /\ pc = "drain" => surface \notin {NoSurface, fbo.size}
    /\ pc # "released" => (fbo.shot = Garbage <=> surface # fbo.size)
    /\ newest # None => pc \in {"complete", "finish"}

(* Frames named anywhere are frames the device has seen, and a read that   *)
(* is outstanding is due within the latency.                               *)
FrameInv ==
    /\ lastFrameId # NoFrame => lastFrameId <= frame
    /\ \A k \in 1 .. Len(readyForRead) :
          /\ readyForRead[k].shot <= frame
          /\ pc # "endFrame" => readyForRead[k].shot < frame
    /\ \A k \in 1 .. Len(pendingReads) : pendingReads[k].shot < frame
    /\ \A r \in gpuReads :
          r.shot < frame /\ r.due > frame /\ r.due <= frame + ReadLatency
    /\ newest < frame /\ fbo.shot < frame

(* Pictures are in the ring in the order they were taken, and all of them  *)
(* are newer than the one shown.                                           *)
NewerThan(shot) ==
    /\ \A k \in 1 .. Len(pendingReads) : shot < pendingReads[k].shot
    /\ \A k \in 1 .. Len(readyForRead) : shot < readyForRead[k].shot

OrderInv ==
    /\ \A j, k \in 1 .. Len(pendingReads) :
          j < k => pendingReads[j].shot < pendingReads[k].shot
    /\ \A j, k \in 1 .. Len(readyForRead) :
          j < k => readyForRead[j].shot < readyForRead[k].shot
    /\ \A j \in 1 .. Len(pendingReads), k \in 1 .. Len(readyForRead) :
          pendingReads[j].shot < readyForRead[k].shot
    /\ newest # None => NewerThan(newest) /\ fbo.shot < newest
    /\ NewerThan(fbo.shot)

(* A read on a texture of the surface has its record; a read whose texture *)
(* is gone is older than everything in the ring; either way its buffer     *)
(* waits for it under the right id.                                        *)
HasRecord(r) ==
    \E k \in 1 .. Len(pendingReads) :
        /\ pendingReads[k].tex = r.tex
        /\ pendingReads[k].shot = r.shot
        /\ pendingReads[k].frameId = r.due

IsDeferred(r) == \E d \in deferred : d.shot = r.shot /\ d.safe = r.due

ReadInv ==
    /\ \A r \in gpuReads :
          IF r.tex = Detached
            THEN NewerThan(r.shot) /\ IsDeferred(r)
            ELSE HasRecord(r)
    /\ UploadsAreRetired

RingInv ==
    /\ SurfaceInv
    /\ SlotOwnership
    /\ FrameInv
    /\ OrderInv
    /\ ReadInv
-----------------------------------------------------------------------------
LEMMA InitRing == Init => RingInv
<1> SUFFICES ASSUME Init PROVE RingInv
  OBVIOUS
<1>1. /\ Len(pendingReads) = 0 /\ Len(readyForRead) = 0
      /\ gpuReads = {} /\ surface = NoSurface /\ newest = None
  BY DEF Init
<1>2. SurfaceInv
  BY PresenterAssumption DEF Init, SurfaceInv, Rendering
<1>3. FrameInv /\ OrderInv /\ ReadInv /\ SlotOwnership
  BY <1>1 DEF Init, FrameInv, OrderInv, ReadInv, NewerThan, SlotOwnership,
     UploadsAreRetired, None, Garbage
<1>4. QED
  BY <1>2, <1>3 DEF RingInv

LEMMA SurfaceStep == TypeOK /\ SurfaceInv /\ Next => SurfaceInv'
<1> SUFFICES ASSUME TypeOK, SurfaceInv, Next PROVE SurfaceInv'
  OBVIOUS
<1> USE PresenterAssumption DEF device, ring, Rendering, Garbage, Cleared, None
<1>0. fbo.size \in Sizes /\ NoSurface \notin Sizes
  BY DEF TypeOK
<1>1. ASSUME NEW sz \in Sizes, BeginRender(sz) PROVE SurfaceInv'
  BY <1>0, <1>1 DEF BeginRender, SurfaceInv, TypeOK
<1>2. ASSUME NEW ok \in BOOLEAN, AcquireDevice(ok) PROVE SurfaceInv'
  BY <1>0, <1>2 DEF AcquireDevice, GiveUp, SurfaceInv
<1>3. ASSUME NEW ok \in BOOLEAN, CreateSurface(ok) PROVE SurfaceInv'
  BY <1>0, <1>3 DEF CreateSurface, GiveUp, BindTarget, ResetReadbackState,
                    SurfaceInv, TypeOK
<1>4. CASE KeepSurface
  BY <1>0, <1>4 DEF KeepSurface, BindTarget, SurfaceInv, TypeOK
<1>5. CASE BeginResize
  BY <1>0, <1>5 DEF BeginResize, SurfaceInv
<1>6. CASE DrainFrame
  BY <1>0, <1>6 DEF DrainFrame, SurfaceInv
<1>7. ASSUME NEW ok \in BOOLEAN, ResizeSurface(ok) PROVE SurfaceInv'
  BY <1>0, <1>7 DEF ResizeSurface, GiveUp, BindTarget, ResetReadbackState,
                    SurfaceInv, TypeOK
<1>8. CASE RetireRead
  BY <1>0, <1>8 DEF RetireRead, SurfaceInv
<1>9. CASE Upload \/ FinishRender
  <2>1. /\ fbo'.shot = IF newest = None THEN fbo.shot ELSE newest
        /\ newest' = None /\ fbo'.size = fbo.size
    BY <1>9 DEF Upload, FinishRender, UploadNewest, TypeOK
  <2>2. newest # None => newest # Garbage
    BY DEF TypeOK, Shots
  <2>3. /\ UNCHANGED <<surface, runtimeInited, pendingReads, readyForRead>>
        /\ pc \in Rendering /\ pc' \in {"schedule", "idle"}
    BY <1>9 DEF Upload, FinishRender
  <2>4. QED
    BY <1>0, <2>1, <2>2, <2>3 DEF SurfaceInv
<1>10. ASSUME NEW ok \in BOOLEAN, ScheduleRead(ok) PROVE SurfaceInv'
  BY <1>0, <1>10 DEF ScheduleRead, SurfaceInv
<1>11. CASE RenderScene \/ SkipBlit \/ EndFrame
  BY <1>0, <1>11 DEF RenderScene, SkipBlit, EndFrame, SurfaceInv
<1>12. ASSUME NEW i \in Slots, BlitForReadback(i) PROVE SurfaceInv'
  BY <1>0, <1>12 DEF BlitForReadback, SurfaceInv
<1>13. CASE OtherViewportFrame \/ BeginTeardown
  BY <1>0, <1>13 DEF OtherViewportFrame, BeginTeardown, SurfaceInv
<1>14. CASE Release
  BY <1>0, <1>14 DEF Release, SurfaceInv
<1>15. QED
  BY <1>1, <1>2, <1>3, <1>4, <1>5, <1>6, <1>7, <1>8, <1>9, <1>10, <1>11, <1>12,
     <1>13, <1>14 DEF Next, EnsureSurface

(* What the queues and the marks become, whatever else a step does.        *)
LEMMA SlotStep == TypeOK /\ SurfaceInv /\ SlotOwnership /\ Next => SlotOwnership'
<1> SUFFICES ASSUME TypeOK, SurfaceInv, SlotOwnership, Next PROVE SlotOwnership'
  OBVIOUS
<1> USE DEF device, ring
<1>0. /\ readyForRead \in Seq(Blit) /\ pendingReads \in Seq(Read)
      /\ readbackInUse \in [Slots -> BOOLEAN]
      /\ fbo.size \in Sizes /\ NoSurface \notin Sizes
  BY PresenterAssumption DEF TypeOK
<1>1. CASE UNCHANGED <<surface, readyForRead, pendingReads, readbackInUse>>
  BY <1>1 DEF SlotOwnership, DistinctTextures, InUseIsHeld
<1>2. CASE surface' = NoSurface
  BY <1>2 DEF SlotOwnership
<1>3. ASSUME ResetReadbackState PROVE SlotOwnership'
  <2>1. /\ Len(readyForRead') = 0 /\ Len(pendingReads') = 0
        /\ readbackInUse' = [i \in Slots |-> FALSE]
    BY <1>3 DEF ResetReadbackState
  <2>2. QED
    BY <2>1 DEF SlotOwnership, DistinctTextures, InUseIsHeld
<1>4. CASE RetireRead
  <2> DEFINE read == Head(pendingReads)
  <2>1. /\ pendingReads # <<>> /\ pendingReads' = Tail(pendingReads)
        /\ readbackInUse' = [readbackInUse EXCEPT ![read.tex] = FALSE]
        /\ UNCHANGED <<readyForRead, surface>>
    BY <1>4 DEF RetireRead, Completed
  <2>2. surface # NoSurface
    BY <1>0, <1>4 DEF RetireRead, SurfaceInv, Rendering
  <2>3. /\ read = pendingReads[1] /\ Len(pendingReads) >= 1
        /\ Len(pendingReads') = Len(pendingReads) - 1
        /\ \A k \in 1 .. Len(pendingReads') : pendingReads'[k] = pendingReads[k + 1]
    BY <1>0, <2>1, HeadType
  <2>4. DistinctTextures /\ InUseIsHeld
    BY <2>2 DEF SlotOwnership
  <2>5. DistinctTextures'
    BY <1>0, <2>1, <2>3, <2>4 DEF DistinctTextures
  <2>6. ASSUME NEW i \in Slots
        PROVE  readbackInUse'[i] <=>
                 \/ \E k \in 1 .. Len(readyForRead') : readyForRead'[k].tex = i
                 \/ \E k \in 1 .. Len(pendingReads') : pendingReads'[k].tex = i
    <3>1. CASE i = read.tex
      <4>1. ~readbackInUse'[i]
        BY <1>0, <2>1, <3>1
      <4>2. \A k \in 1 .. Len(readyForRead) : readyForRead[k].tex # i
        BY <1>0, <2>3, <2>4, <3>1 DEF DistinctTextures
      <4>3. \A k \in 1 .. Len(pendingReads') : pendingReads'[k].tex # i
        BY <1>0, <2>3, <2>4, <3>1 DEF DistinctTextures
      <4>4. QED
        BY <2>1, <4>1, <4>2, <4>3
    <3>2. CASE i # read.tex
      <4>1. readbackInUse'[i] <=> readbackInUse[i]
        BY <1>0, <2>1, <3>2
      <4>2. (\E k \in 1 .. Len(pendingReads) : pendingReads[k].tex = i)
              <=> \E k \in 1 .. Len(pendingReads') : pendingReads'[k].tex = i
        <5>1. ASSUME NEW k \in 1 .. Len(pendingReads), pendingReads[k].tex = i
              PROVE  k - 1 \in 1 .. Len(pendingReads')
                       /\ pendingReads'[k - 1].tex = i
          BY <1>0, <2>3, <3>2, <5>1
        <5>2. ASSUME NEW k \in 1 .. Len(pendingReads'), pendingReads'[k].tex = i
              PROVE  k + 1 \in 1 .. Len(pendingReads)
                       /\ pendingReads[k + 1].tex = i
          BY <1>0, <2>3, <5>2
        <5>3. QED
          BY <5>1, <5>2
      <4>3. QED
        BY <2>1, <2>4, <4>1, <4>2 DEF InUseIsHeld
    <3>3. QED
      BY <3>1, <3>2
  <2>7. QED
    BY <2>5, <2>6 DEF SlotOwnership, InUseIsHeld
<1>5. ASSUME NEW ok \in BOOLEAN, ScheduleRead(ok) PROVE SlotOwnership'
  <2> DEFINE record == Head(readyForRead)
  <2>1. /\ readyForRead # <<>> /\ readyForRead' = Tail(readyForRead)
        /\ UNCHANGED surface
    BY <1>5 DEF ScheduleRead, Readable
  <2>2. DistinctTextures /\ InUseIsHeld
    BY <1>0, <1>5 DEF ScheduleRead, SurfaceInv, Rendering, SlotOwnership
  <2>3. /\ record = readyForRead[1] /\ Len(readyForRead) >= 1
        /\ record \in Blit
        /\ Len(readyForRead') = Len(readyForRead) - 1
        /\ \A k \in 1 .. Len(readyForRead') : readyForRead'[k] = readyForRead[k + 1]
    BY <1>0, <2>1, HeadType
  <2>4. CASE /\ pendingReads' = pendingReads
             /\ readbackInUse' = [readbackInUse EXCEPT ![record.tex] = FALSE]
    <3>1. DistinctTextures'
      <4>1. ASSUME NEW j \in 1 .. Len(readyForRead'),
                   NEW k \in 1 .. Len(readyForRead'),
                   readyForRead'[j].tex = readyForRead'[k].tex
            PROVE  j = k
        <5>1. j + 1 \in 1 .. Len(readyForRead) /\ k + 1 \in 1 .. Len(readyForRead)
          BY <1>0, <2>3
        <5>2. readyForRead[j + 1].tex = readyForRead[k + 1].tex
          BY <2>3, <4>1
        <5>3. j + 1 = k + 1
          BY <2>2, <5>1, <5>2 DEF DistinctTextures
        <5>4. QED
          BY <5>3
      <4>2. ASSUME NEW j \in 1 .. Len(readyForRead'), NEW k \in 1 .. Len(pendingReads)
            PROVE  readyForRead'[j].tex # pendingReads[k].tex
        <5>1. j + 1 \in 1 .. Len(readyForRead)
          BY <1>0, <2>3
        <5>2. QED
          BY <2>2, <2>3, <5>1 DEF DistinctTextures
      <4>3. QED
        BY <2>2, <2>4, <4>1, <4>2 DEF DistinctTextures
    <3>2. ASSUME NEW i \in Slots
          PROVE  readbackInUse'[i] <=>
                   \/ \E k \in 1 .. Len(readyForRead') : readyForRead'[k].tex = i
                   \/ \E k \in 1 .. Len(pendingReads') : pendingReads'[k].tex = i
      <4>1. CASE i = record.tex
        <5>1. ~readbackInUse'[i]
          BY <1>0, <2>4, <4>1
        <5>2. \A k \in 1 .. Len(pendingReads) : pendingReads[k].tex # i
          BY <1>0, <2>2, <2>3, <4>1 DEF DistinctTextures
        <5>3. \A k \in 1 .. Len(readyForRead') : readyForRead'[k].tex # i
          BY <1>0, <2>2, <2>3, <4>1 DEF DistinctTextures
        <5>4. QED
          BY <2>4, <5>1, <5>2, <5>3
      <4>2. CASE i # record.tex
        <5>1. readbackInUse'[i] <=> readbackInUse[i]
          BY <1>0, <2>4, <4>2
        <5>2. ASSUME NEW k \in 1 .. Len(readyForRead), readyForRead[k].tex = i
              PROVE  k - 1 \in 1 .. Len(readyForRead')
                       /\ readyForRead'[k - 1].tex = i
          BY <1>0, <2>3, <4>2, <5>2
        <5>3. ASSUME NEW k \in 1 .. Len(readyForRead'), readyForRead'[k].tex = i
              PROVE  k + 1 \in 1 .. Len(readyForRead)
                       /\ readyForRead[k + 1].tex = i
          BY <1>0, <2>3, <5>3
        <5>4. QED
          BY <2>2, <2>4, <5>1, <5>2, <5>3 DEF InUseIsHeld
      <4>3. QED
        BY <4>1, <4>2
    <3>3. QED
      BY <3>1, <3>2 DEF SlotOwnership, InUseIsHeld
  <2>5. CASE /\ \E read \in Read : /\ pendingReads' = Append(pendingReads, read)
                                   /\ read.tex = record.tex
             /\ readbackInUse' = readbackInUse
    <3>1. PICK read \in Read : /\ pendingReads' = Append(pendingReads, read)
                               /\ read.tex = record.tex
      BY <2>5
    <3>2. /\ Len(pendingReads') = Len(pendingReads) + 1
          /\ Len(pendingReads) \in Nat
          /\ \A k \in 1 .. Len(pendingReads) : pendingReads'[k] = pendingReads[k]
          /\ pendingReads'[Len(pendingReads) + 1] = read
      BY <1>0, <3>1
    <3>3. DistinctTextures'
      <4>1. ASSUME NEW j \in 1 .. Len(readyForRead'),
                   NEW k \in 1 .. Len(readyForRead'),
                   readyForRead'[j].tex = readyForRead'[k].tex
            PROVE  j = k
        <5>1. j + 1 \in 1 .. Len(readyForRead) /\ k + 1 \in 1 .. Len(readyForRead)
          BY <1>0, <2>3
        <5>2. readyForRead[j + 1].tex = readyForRead[k + 1].tex
          BY <2>3, <4>1
        <5>3. j + 1 = k + 1
          BY <2>2, <5>1, <5>2 DEF DistinctTextures
        <5>4. QED
          BY <5>3
      <4>2. \A k \in 1 .. Len(pendingReads') :
              \/ k \in 1 .. Len(pendingReads) /\ pendingReads'[k] = pendingReads[k]
              \/ k = Len(pendingReads) + 1 /\ pendingReads'[k].tex = readyForRead[1].tex
        BY <2>3, <3>1, <3>2
      <4>3. 1 \in 1 .. Len(readyForRead)
        BY <1>0, <2>3
      <4>4. \A k \in 1 .. Len(pendingReads) :
              pendingReads[k].tex # readyForRead[1].tex
        BY <2>2, <4>3 DEF DistinctTextures
      <4>5. ASSUME NEW j \in 1 .. Len(pendingReads'),
                   NEW k \in 1 .. Len(pendingReads'),
                   pendingReads'[j].tex = pendingReads'[k].tex
            PROVE  j = k
        BY <2>2, <4>2, <4>4, <4>5 DEF DistinctTextures
      <4>6. ASSUME NEW j \in 1 .. Len(readyForRead'), NEW k \in 1 .. Len(pendingReads')
            PROVE  readyForRead'[j].tex # pendingReads'[k].tex
        <5>1. /\ j + 1 \in 1 .. Len(readyForRead) /\ j + 1 # 1
              /\ readyForRead'[j] = readyForRead[j + 1]
          BY <1>0, <2>3
        <5>2. QED
          BY <2>2, <4>2, <4>3, <5>1 DEF DistinctTextures
      <4>7. QED
        BY <4>1, <4>5, <4>6 DEF DistinctTextures
    <3>4. ASSUME NEW i \in Slots
          PROVE  (\/ \E k \in 1 .. Len(readyForRead) : readyForRead[k].tex = i
                  \/ \E k \in 1 .. Len(pendingReads) : pendingReads[k].tex = i)
             <=> (\/ \E k \in 1 .. Len(readyForRead') : readyForRead'[k].tex = i
                  \/ \E k \in 1 .. Len(pendingReads') : pendingReads'[k].tex = i)
      <4>1. ASSUME NEW k \in 1 .. Len(readyForRead), readyForRead[k].tex = i
            PROVE  \/ pendingReads'[Len(pendingReads) + 1].tex = i
                   \/ /\ k - 1 \in 1 .. Len(readyForRead')
                      /\ readyForRead'[k - 1].tex = i
        <5>1. CASE k = 1
          BY <3>1, <3>2, <4>1, <5>1
        <5>2. CASE k # 1
          <6>1. k - 1 \in 1 .. Len(readyForRead') /\ k - 1 + 1 = k
            BY <1>0, <2>3, <5>2
          <6>2. readyForRead'[k - 1] = readyForRead[k]
            BY <2>3, <6>1
          <6>3. QED
            BY <4>1, <6>1, <6>2
        <5>3. QED
          BY <5>1, <5>2
      <4>2. ASSUME NEW k \in 1 .. Len(readyForRead'), readyForRead'[k].tex = i
            PROVE  k + 1 \in 1 .. Len(readyForRead) /\ readyForRead[k + 1].tex = i
        BY <1>0, <2>3, <4>2
      <4>3. ASSUME NEW k \in 1 .. Len(pendingReads'), pendingReads'[k].tex = i
            PROVE  \/ k \in 1 .. Len(pendingReads) /\ pendingReads[k].tex = i
                   \/ readyForRead[1].tex = i
        BY <1>0, <2>3, <3>1, <3>2, <4>3
      <4>4. 1 \in 1 .. Len(readyForRead)
              /\ Len(pendingReads) + 1 \in 1 .. Len(pendingReads')
        BY <1>0, <2>3, <3>2
      <4>5. \A k \in 1 .. Len(pendingReads) :
              k \in 1 .. Len(pendingReads') /\ pendingReads'[k] = pendingReads[k]
        BY <3>2
      <4>6. QED
        BY <4>1, <4>2, <4>3, <4>4, <4>5
    <3>5. QED
      BY <2>2, <2>5, <3>3, <3>4 DEF SlotOwnership, InUseIsHeld
  <2>6. \/ /\ pendingReads' = pendingReads
           /\ readbackInUse' = [readbackInUse EXCEPT ![record.tex] = FALSE]
        \/ /\ pendingReads' = Append(pendingReads,
                  [shot |-> record.shot, frameId |-> IdOf(frame + ReadLatency),
                   size |-> record.size, tex |-> record.tex])
           /\ readbackInUse' = readbackInUse
    BY <1>5, Zenon DEF ScheduleRead, PushBack
  <2>7. [shot |-> record.shot, frameId |-> IdOf(frame + ReadLatency),
         size |-> record.size, tex |-> record.tex] \in Read
    BY <2>3, IdModAssumption, PresenterAssumption
       DEF Blit, Read, IdOf, FrameId, TypeOK, Shots
  <2>8. QED
    BY <2>4, <2>5, <2>6, <2>7
<1>6. ASSUME NEW i \in Slots, BlitForReadback(i) PROVE SlotOwnership'
  <2> DEFINE record == [shot |-> frame, index |-> frameIndex,
                        size |-> fbo.size, tex |-> i]
  <2>1. /\ readyForRead' = Append(readyForRead, record)
        /\ readbackInUse' = [readbackInUse EXCEPT ![i] = TRUE]
        /\ ~readbackInUse[i]
        /\ UNCHANGED <<surface, pendingReads>>
    BY <1>6 DEF BlitForReadback, IsNextFree
  <2>2. DistinctTextures /\ InUseIsHeld
    BY <1>0, <1>6 DEF BlitForReadback, SurfaceInv, Rendering, SlotOwnership
  <2>3. /\ Len(readyForRead') = Len(readyForRead) + 1
        /\ Len(readyForRead) \in Nat
        /\ \A k \in 1 .. Len(readyForRead) : readyForRead'[k] = readyForRead[k]
        /\ readyForRead'[Len(readyForRead) + 1].tex = i
    BY <1>0, <2>1
  <2>4. /\ \A k \in 1 .. Len(readyForRead) : readyForRead[k].tex # i
        /\ \A k \in 1 .. Len(pendingReads) : pendingReads[k].tex # i
    BY <2>1, <2>2 DEF InUseIsHeld
  <2>5. DistinctTextures'
    BY <1>0, <2>1, <2>2, <2>3, <2>4 DEF DistinctTextures
  <2>6. ASSUME NEW j \in Slots
        PROVE  readbackInUse'[j] <=>
                 \/ \E k \in 1 .. Len(readyForRead') : readyForRead'[k].tex = j
                 \/ \E k \in 1 .. Len(pendingReads') : pendingReads'[k].tex = j
    <3>1. CASE j = i
      <4>1. readbackInUse'[j] /\ Len(readyForRead) + 1 \in 1 .. Len(readyForRead')
        BY <1>0, <2>1, <2>3, <3>1
      <4>2. QED
        BY <2>3, <3>1, <4>1
    <3>2. CASE j # i
      <4>1. readbackInUse'[j] <=> readbackInUse[j]
        BY <1>0, <2>1, <3>2
      <4>2. ASSUME NEW k \in 1 .. Len(readyForRead'), readyForRead'[k].tex = j
            PROVE  k \in 1 .. Len(readyForRead) /\ readyForRead[k].tex = j
        BY <1>0, <2>3, <3>2, <4>2
      <4>3. \A k \in 1 .. Len(readyForRead) :
              k \in 1 .. Len(readyForRead') /\ readyForRead'[k] = readyForRead[k]
        BY <2>3
      <4>4. QED
        BY <2>1, <2>2, <4>1, <4>2, <4>3 DEF InUseIsHeld
    <3>3. QED
      BY <3>1, <3>2
  <2>7. QED
    BY <2>5, <2>6 DEF SlotOwnership, InUseIsHeld
<1>7. ASSUME NEW ok \in BOOLEAN, AcquireDevice(ok) \/ CreateSurface(ok)
      PROVE  SlotOwnership'
  BY <1>1, <1>3, <1>7 DEF AcquireDevice, CreateSurface
<1>8. ASSUME NEW ok \in BOOLEAN, ResizeSurface(ok) PROVE SlotOwnership'
  BY <1>2, <1>3, <1>8 DEF ResizeSurface
<1>9. CASE Release
  BY <1>2, <1>9 DEF Release, SurfaceInv, SlotOwnership
<1>10. QED
  <2>1. ASSUME NEW sz \in Sizes, BeginRender(sz) PROVE SlotOwnership'
    BY <1>1, <2>1 DEF BeginRender
  <2>2. CASE KeepSurface \/ BeginResize \/ DrainFrame \/ Upload \/ RenderScene
             \/ SkipBlit \/ EndFrame \/ FinishRender \/ OtherViewportFrame
             \/ BeginTeardown
    BY <1>1, <2>2 DEF KeepSurface, BeginResize, DrainFrame, Upload, RenderScene,
       SkipBlit, EndFrame, FinishRender, OtherViewportFrame, BeginTeardown
  <2>3. QED
    BY <1>4, <1>5, <1>6, <1>7, <1>8, <1>9, <2>1, <2>2 DEF Next, EnsureSurface

(* A stuttering step changes nothing of it.                                *)
LEMMA SurfaceSame == SurfaceInv /\ UNCHANGED vars => SurfaceInv'
  BY DEF vars, device, ring, SurfaceInv

LEMMA SlotSame == SlotOwnership /\ UNCHANGED vars => SlotOwnership'
  BY DEF vars, ring, SlotOwnership, DistinctTextures, InUseIsHeld

(* Slots are owned as SlotOwnership says, whatever ids are handed out.     *)
THEOREM SlotsOwned == Spec => []SlotOwnership
<1> DEFINE Inv == TypeOK /\ SurfaceInv /\ SlotOwnership
<1>1. Init => Inv
  BY InitType, InitRing DEF RingInv
<1>2. Inv /\ [Next]_vars => Inv'
  <2> SUFFICES ASSUME Inv, [Next]_vars PROVE Inv'
    OBVIOUS
  <2>1. CASE Next
    BY <2>1, StepType, SurfaceStep, SlotStep
  <2>2. CASE UNCHANGED vars
    BY <2>2, StepType, SurfaceSame, SlotSame
  <2>3. QED
    BY <2>1, <2>2
<1>3. QED
  BY <1>1, <1>2, PTL DEF Spec

(* From the moment ensureSurface is through, surface and FBO agree and Qt's*)
(* fresh memory is not on the screen.                                      *)
THEOREM TargetIsClean == Spec => []CleanTarget
<1> DEFINE Inv == TypeOK /\ SurfaceInv
<1>1. Init => Inv
  BY InitType, InitRing DEF RingInv
<1>2. Inv /\ [Next]_vars => Inv'
  BY StepType, SurfaceStep, SurfaceSame
<1>3. Inv => CleanTarget
  BY DEF SurfaceInv, CleanTarget, Rendering
<1>4. QED
  BY <1>1, <1>2, <1>3, PTL DEF Spec
-----------------------------------------------------------------------------
LEMMA FrameStep == NoWrap /\ TypeOK /\ SurfaceInv /\ FrameInv /\ Next => FrameInv'
<1> SUFFICES ASSUME NoWrap, TypeOK, SurfaceInv, FrameInv, Next PROVE FrameInv'
  OBVIOUS
<1> USE DEF device, ring
<1>0. /\ readyForRead \in Seq(Blit) /\ pendingReads \in Seq(Read)
      /\ frame \in Nat /\ ReadLatency \in Nat /\ newest \in Int
      /\ fbo \in [size : Sizes, shot : Int]
      /\ gpuReads \subseteq [shot : Nat, tex : Slots \cup {Detached}, due : Nat]
  BY PresenterAssumption DEF TypeOK, Shots, None, Cleared, Garbage
<1>1. ASSUME fbo'.shot \in {fbo.shot, newest, Cleared, Garbage},
             newest' \in {newest, None}, frame' \in {frame, frame + 1}
      PROVE  newest' < frame' /\ fbo'.shot < frame'
  BY <1>0, <1>1 DEF FrameInv, None, Cleared, Garbage
<1>2. CASE /\ UNCHANGED <<frame, gpuReads, readyForRead, pendingReads, lastFrameId>>
           /\ pc = "endFrame" => pc' = "endFrame"
           /\ newest' < frame' /\ fbo'.shot < frame'
  BY <1>2 DEF FrameInv
<1>3. CASE /\ ResetReadbackState
           /\ frame' = frame /\ (DetachReads \/ UNCHANGED gpuReads)
           /\ newest' < frame' /\ fbo'.shot < frame'
  <2>1. Len(readyForRead') = 0 /\ Len(pendingReads') = 0 /\ lastFrameId' = NoFrame
    BY <1>3 DEF ResetReadbackState
  <2>2. \A r \in gpuReads' :
           r.shot < frame' /\ r.due > frame' /\ r.due <= frame' + ReadLatency
    BY <1>3, DetachedReads DEF FrameInv
  <2>3. QED
    BY <1>3, <2>1, <2>2 DEF FrameInv
<1>4. CASE /\ DeviceEndFrame
           /\ lastFrameId' \in {lastFrameId, IdOf(frame + 1)}
           /\ UNCHANGED <<readyForRead, pendingReads, newest, fbo>>
  <2>1. frame + 1 <= MaxFrame + ReadLatency /\ frame' = frame + 1
    BY <1>0, <1>4, PresenterAssumption DEF DeviceEndFrame
  <2>2. IdOf(frame + 1) = frame + 1
    BY <1>0, <2>1, IdIsFrame
  <2>3. lastFrameId' # NoFrame => lastFrameId' <= frame'
    BY <1>0, <1>4, <2>1, <2>2 DEF FrameInv, TypeOK, FrameId
  <2>4. \A r \in gpuReads' :
           r.shot < frame' /\ r.due > frame' /\ r.due <= frame' + ReadLatency
    BY <1>0, <1>4 DEF DeviceEndFrame, FrameInv
  <2>5. /\ \A k \in 1 .. Len(readyForRead) :
              readyForRead[k].shot < frame' /\ readyForRead[k].shot <= frame'
        /\ \A k \in 1 .. Len(pendingReads) : pendingReads[k].shot < frame'
    <3>1. /\ \A k \in 1 .. Len(readyForRead) : readyForRead[k].shot \in Nat
          /\ \A k \in 1 .. Len(pendingReads) : pendingReads[k].shot \in Nat
      <4>1. ASSUME NEW k \in 1 .. Len(readyForRead) PROVE readyForRead[k].shot \in Nat
        <5>1. readyForRead[k] \in Blit
          BY <1>0
        <5>2. QED
          BY <5>1, PresenterAssumption DEF Blit, Shots
      <4>2. ASSUME NEW k \in 1 .. Len(pendingReads) PROVE pendingReads[k].shot \in Nat
        <5>1. pendingReads[k] \in Read
          BY <1>0
        <5>2. QED
          BY <5>1, PresenterAssumption DEF Read, Shots
      <4>3. QED
        BY <4>1, <4>2
    <3>2. /\ \A k \in 1 .. Len(readyForRead) : readyForRead[k].shot <= frame
          /\ \A k \in 1 .. Len(pendingReads) : pendingReads[k].shot < frame
      BY DEF FrameInv
    <3>3. QED
      BY <1>0, <1>4, <2>1, <3>1, <3>2
  <2>6. newest' < frame' /\ fbo'.shot < frame'
    BY <1>1, <1>4, <2>1
  <2>7. QED
    BY <1>4, <2>3, <2>4, <2>5, <2>6 DEF FrameInv
<1>5. CASE RetireRead
  <2>1. /\ Head(pendingReads) = pendingReads[1] /\ 1 \in 1 .. Len(pendingReads)
        /\ pendingReads' = Tail(pendingReads)
        /\ \A k \in 1 .. Len(pendingReads') :
              k + 1 \in 1 .. Len(pendingReads) /\ pendingReads'[k] = pendingReads[k + 1]
    BY <1>0, <1>5, HeadType DEF RetireRead, Completed
  <2>2. newest' < frame'
    BY <1>5, <2>1 DEF RetireRead, FrameInv
  <2>3. QED
    BY <1>5, <2>1, <2>2 DEF RetireRead, FrameInv
<1>6. ASSUME NEW ok \in BOOLEAN, ScheduleRead(ok) PROVE FrameInv'
  <2> DEFINE record == Head(readyForRead)
  <2>1. /\ record = readyForRead[1] /\ 1 \in 1 .. Len(readyForRead)
        /\ record \in Blit
        /\ readyForRead' = Tail(readyForRead)
        /\ \A k \in 1 .. Len(readyForRead') :
              k + 1 \in 1 .. Len(readyForRead) /\ readyForRead'[k] = readyForRead[k + 1]
    BY <1>0, <1>6, HeadType DEF ScheduleRead, Readable
  <2>2. pc = "schedule" /\ record.shot < frame
    BY <1>6, <2>1 DEF ScheduleRead, FrameInv
  <2>3. \A k \in 1 .. Len(pendingReads') : pendingReads'[k].shot < frame
    <3>1. \/ pendingReads' = pendingReads
          \/ pendingReads' = Append(pendingReads,
                  [shot |-> record.shot, frameId |-> IdOf(frame + ReadLatency),
                   size |-> record.size, tex |-> record.tex])
      BY <1>6, Zenon DEF ScheduleRead, PushBack
    <3>2. QED
      BY <1>0, <2>2, <3>1 DEF FrameInv
  <2>4. \A r \in gpuReads' :
           r.shot < frame /\ r.due > frame /\ r.due <= frame + ReadLatency
    BY <1>0, <1>6, <2>2, PresenterAssumption DEF ScheduleRead, FrameInv
  <2>5. QED
    BY <1>6, <2>1, <2>3, <2>4 DEF ScheduleRead, FrameInv
<1>7. ASSUME NEW i \in Slots, BlitForReadback(i) PROVE FrameInv'
  <2>1. \A k \in 1 .. Len(readyForRead') : readyForRead'[k].shot <= frame
    BY <1>0, <1>7 DEF BlitForReadback, FrameInv
  <2>2. QED
    BY <1>7, <2>1 DEF BlitForReadback, FrameInv
<1>8. ASSUME NEW ok \in BOOLEAN, ResizeSurface(ok) PROVE FrameInv'
  <2>1. CASE ok
    BY <1>1, <1>3, <1>8, <2>1, BindShot DEF ResizeSurface
  <2>2. CASE ~ok
    <3>1. pendingReads' = <<>> /\ Len(pendingReads') = 0
      BY <1>8, <2>2 DEF ResizeSurface
    <3>2. \A r \in gpuReads' :
             r.shot < frame /\ r.due > frame /\ r.due <= frame + ReadLatency
      BY <1>8, DetachedReads DEF ResizeSurface, FrameInv
    <3>3. QED
      BY <1>8, <2>2, <3>1, <3>2 DEF ResizeSurface, GiveUp, FrameInv
  <2>3. QED
    BY <2>1, <2>2
<1>9. CASE Release
  <2>1. pendingReads' = <<>> /\ readyForRead' = <<>>
          /\ Len(pendingReads') = 0 /\ Len(readyForRead') = 0
    BY <1>9 DEF Release
  <2>2. \A r \in gpuReads' :
           r.shot < frame /\ r.due > frame /\ r.due <= frame + ReadLatency
    BY <1>9, DetachedReads DEF Release, FrameInv
  <2>3. QED
    BY <1>9, <2>1, <2>2 DEF Release, FrameInv
<1>10. ASSUME NEW ok \in BOOLEAN, CreateSurface(ok) PROVE FrameInv'
  <2>1. CASE ok
    BY <1>1, <1>3, <1>10, <2>1, BindShot DEF CreateSurface
  <2>2. CASE ~ok
    BY <1>1, <1>2, <1>10, <2>2 DEF CreateSurface, GiveUp
  <2>3. QED
    BY <2>1, <2>2
<1>11. ASSUME NEW sz \in Sizes, BeginRender(sz) PROVE FrameInv'
  BY <1>1, <1>2, <1>11 DEF BeginRender
<1>12. ASSUME NEW ok \in BOOLEAN, AcquireDevice(ok) PROVE FrameInv'
  BY <1>1, <1>2, <1>12 DEF AcquireDevice, GiveUp
<1>13. CASE KeepSurface
  BY <1>1, <1>2, <1>13 DEF KeepSurface, BindTarget
<1>14. CASE Upload \/ FinishRender
  <2>1. newest' = None /\ fbo'.shot \in {fbo.shot, newest}
    BY <1>14, UploadShot DEF Upload, FinishRender
  <2>2. QED
    BY <1>1, <1>2, <1>14, <2>1 DEF Upload, FinishRender
<1>15. CASE BeginResize \/ RenderScene \/ SkipBlit \/ BeginTeardown
  BY <1>1, <1>2, <1>15 DEF BeginResize, RenderScene, SkipBlit, BeginTeardown
<1>16. CASE DrainFrame \/ EndFrame \/ OtherViewportFrame
  BY <1>4, <1>16 DEF DrainFrame, EndFrame, OtherViewportFrame
<1>17. QED
  BY <1>5, <1>6, <1>7, <1>8, <1>9, <1>10, <1>11, <1>12, <1>13, <1>14, <1>15,
     <1>16 DEF Next, EnsureSurface

(* The records of the two queues, and the integers in them.                *)
LEMMA RecordTypes ==
    ASSUME TypeOK
    PROVE  /\ \A k \in 1 .. Len(readyForRead) :
                readyForRead[k] \in Blit /\ readyForRead[k].shot \in Nat
                /\ readyForRead[k].tex \in Slots
           /\ \A k \in 1 .. Len(pendingReads) :
                pendingReads[k] \in Read /\ pendingReads[k].shot \in Nat
                /\ pendingReads[k].frameId \in Nat /\ pendingReads[k].tex \in Slots
           /\ Len(readyForRead) \in Nat /\ Len(pendingReads) \in Nat
<1>1. readyForRead \in Seq(Blit) /\ pendingReads \in Seq(Read)
  BY DEF TypeOK
<1>2. ASSUME NEW k \in 1 .. Len(readyForRead)
      PROVE  readyForRead[k] \in Blit
  BY <1>1
<1>3. ASSUME NEW k \in 1 .. Len(pendingReads)
      PROVE  pendingReads[k] \in Read
  BY <1>1
<1>4. /\ \A b \in Blit : b.shot \in Nat /\ b.tex \in Slots
      /\ \A r \in Read : r.shot \in Nat /\ r.frameId \in Nat /\ r.tex \in Slots
  BY PresenterAssumption, IdModAssumption DEF Blit, Read, Shots, FrameId
<1>5. QED
  BY <1>1, <1>2, <1>3, <1>4

(* What popping and pushing do to the queues, by index.                    *)
LEMMA RetireQueues ==
    ASSUME TypeOK, RetireRead
    PROVE  /\ 1 \in 1 .. Len(pendingReads) /\ Head(pendingReads) = pendingReads[1]
           /\ Len(pendingReads') = Len(pendingReads) - 1
           /\ readyForRead' = readyForRead
           /\ \A k \in 1 .. Len(pendingReads') :
                 /\ k + 1 \in 1 .. Len(pendingReads)
                 /\ pendingReads'[k] = pendingReads[k + 1]
<1>1. pendingReads \in Seq(Read) /\ pendingReads # <<>>
        /\ pendingReads' = Tail(pendingReads) /\ readyForRead' = readyForRead
  BY DEF RetireRead, Completed, TypeOK
<1>2. QED
  BY <1>1, HeadType

LEMMA ScheduleQueues ==
    ASSUME TypeOK, NEW ok \in BOOLEAN, ScheduleRead(ok)
    PROVE  LET record == readyForRead[1]
               read   == [shot |-> record.shot,
                          frameId |-> IdOf(frame + ReadLatency),
                          size |-> record.size, tex |-> record.tex] IN
           /\ 1 \in 1 .. Len(readyForRead)
           /\ Len(readyForRead') = Len(readyForRead) - 1
           /\ \A k \in 1 .. Len(readyForRead') :
                 /\ k + 1 \in 1 .. Len(readyForRead)
                 /\ readyForRead'[k] = readyForRead[k + 1]
           /\ \/ pendingReads' = pendingReads
              \/ /\ Len(pendingReads') = Len(pendingReads) + 1
                 /\ \A k \in 1 .. Len(pendingReads) : pendingReads'[k] = pendingReads[k]
                 /\ pendingReads'[Len(pendingReads) + 1] = read
<1> DEFINE record == readyForRead[1]
           read   == [shot |-> record.shot,
                      frameId |-> IdOf(frame + ReadLatency),
                      size |-> record.size, tex |-> record.tex]
<1>1. readyForRead \in Seq(Blit) /\ readyForRead # <<>>
        /\ readyForRead' = Tail(readyForRead)
  BY DEF ScheduleRead, Readable, TypeOK
<1>2. /\ 1 \in 1 .. Len(readyForRead) /\ Head(readyForRead) = record
      /\ Len(readyForRead') = Len(readyForRead) - 1
      /\ \A k \in 1 .. Len(readyForRead') :
            /\ k + 1 \in 1 .. Len(readyForRead)
            /\ readyForRead'[k] = readyForRead[k + 1]
  BY <1>1, HeadType
<1>3. \/ pendingReads' = pendingReads
      \/ pendingReads' = Append(pendingReads, read)
  BY <1>2, Zenon DEF ScheduleRead, PushBack
<1> HIDE DEF read
<1>4. pendingReads' = Append(pendingReads, read) =>
         /\ Len(pendingReads') = Len(pendingReads) + 1
         /\ \A k \in 1 .. Len(pendingReads) : pendingReads'[k] = pendingReads[k]
         /\ pendingReads'[Len(pendingReads) + 1] = read
  <2>1. pendingReads \in Seq(Read)
    BY DEF TypeOK
  <2>2. QED
    BY <2>1
<1>5. QED
  BY <1>2, <1>3, <1>4 DEF read

LEMMA BlitQueues ==
    ASSUME TypeOK, NEW i \in Slots, BlitForReadback(i)
    PROVE  /\ pendingReads' = pendingReads
           /\ Len(readyForRead') = Len(readyForRead) + 1
           /\ \A k \in 1 .. Len(readyForRead) : readyForRead'[k] = readyForRead[k]
           /\ readyForRead'[Len(readyForRead) + 1].shot = frame
<1>1. readyForRead \in Seq(Blit)
  BY DEF TypeOK
<1>2. QED
  BY <1>1 DEF BlitForReadback, ring

LEMMA OrderStep ==
    TypeOK /\ SurfaceInv /\ FrameInv /\ OrderInv /\ Next => OrderInv'
<1> SUFFICES ASSUME TypeOK, SurfaceInv, FrameInv, OrderInv, Next PROVE OrderInv'
  OBVIOUS
<1> USE DEF device, ring
<1>0. /\ \A k \in 1 .. Len(readyForRead) : readyForRead[k].shot \in Nat
      /\ \A k \in 1 .. Len(pendingReads) : pendingReads[k].shot \in Nat
      /\ Len(readyForRead) \in Nat /\ Len(pendingReads) \in Nat
      /\ frame \in Nat /\ newest \in Int /\ fbo \in [size : Sizes, shot : Int]
  <2>1. /\ \A k \in 1 .. Len(readyForRead) : readyForRead[k].shot \in Nat
        /\ \A k \in 1 .. Len(pendingReads) : pendingReads[k].shot \in Nat
        /\ Len(readyForRead) \in Nat /\ Len(pendingReads) \in Nat
    BY RecordTypes
  <2>2. Shots \subseteq Nat /\ Shots \cup {None, Cleared, Garbage} \subseteq Int
    BY PresenterAssumption DEF Shots, None, Cleared, Garbage
  <2>3. frame \in Nat /\ newest \in Int
    BY <2>2 DEF TypeOK
  <2>4. fbo \in [size : Sizes, shot : Int]
    BY <2>2 DEF TypeOK
  <2>5. QED
    BY <2>1, <2>3, <2>4
<1>1. CASE /\ UNCHANGED <<readyForRead, pendingReads, newest>>
           /\ fbo'.shot \in {fbo.shot, Cleared, Garbage}
  <2>1. newest # None => fbo'.shot < newest
    BY <1>0, <1>1 DEF OrderInv, TypeOK, Shots, None, Cleared, Garbage
  <2>2. NewerThan(fbo'.shot)
    BY <1>0, <1>1 DEF OrderInv, NewerThan, Cleared, Garbage
  <2>3. QED
    BY <1>1, <2>1, <2>2 DEF OrderInv, NewerThan
<1>2. CASE Len(readyForRead') = 0 /\ Len(pendingReads') = 0 /\ newest' = None
  BY <1>2 DEF OrderInv, NewerThan
<1>3. CASE Upload \/ FinishRender
  <2>1. /\ newest' = None
        /\ fbo'.shot = IF newest = None THEN fbo.shot ELSE newest
        /\ UNCHANGED <<readyForRead, pendingReads>>
    BY <1>3, UploadShot DEF Upload, FinishRender
  <2>2. NewerThan(fbo'.shot)
    BY <2>1 DEF OrderInv
  <2>3. QED
    BY <2>1, <2>2 DEF OrderInv, NewerThan
<1>4. CASE RetireRead
  <2>1. newest' \in {newest, pendingReads[1].shot} /\ fbo' = fbo
    BY <1>4, RetireQueues DEF RetireRead
  <2>2. /\ \A j, k \in 1 .. Len(pendingReads') :
              j < k => pendingReads'[j].shot < pendingReads'[k].shot
        /\ \A j \in 1 .. Len(pendingReads'), k \in 1 .. Len(readyForRead) :
              pendingReads'[j].shot < readyForRead[k].shot
    <3>1. ASSUME NEW j \in 1 .. Len(pendingReads'), NEW k \in 1 .. Len(pendingReads'),
                 j < k
          PROVE  pendingReads'[j].shot < pendingReads'[k].shot
      <4>1. j + 1 < k + 1
        BY <1>0, <1>4, <3>1, RetireQueues
      <4>2. QED
        BY <1>4, <4>1, RetireQueues DEF OrderInv
    <3>2. QED
      BY <1>4, <3>1, RetireQueues DEF OrderInv
  <2>3. \A shot : NewerThan(shot) =>
             /\ \A k \in 1 .. Len(pendingReads') : shot < pendingReads'[k].shot
             /\ \A k \in 1 .. Len(readyForRead) : shot < readyForRead[k].shot
    BY <1>4, RetireQueues DEF NewerThan
  <2>4. /\ \A k \in 1 .. Len(pendingReads') :
              pendingReads[1].shot < pendingReads'[k].shot
        /\ \A k \in 1 .. Len(readyForRead) : pendingReads[1].shot < readyForRead[k].shot
    <3>1. \A k \in 1 .. Len(pendingReads') : 1 < k + 1
      BY <1>0, <1>4, RetireQueues
    <3>2. QED
      BY <1>4, <3>1, RetireQueues DEF OrderInv
  <2>5. fbo.shot < pendingReads[1].shot
    BY <1>4, RetireQueues DEF OrderInv, NewerThan
  <2>6. newest' # None =>
          /\ \A k \in 1 .. Len(pendingReads') : newest' < pendingReads'[k].shot
          /\ \A k \in 1 .. Len(readyForRead) : newest' < readyForRead[k].shot
          /\ fbo.shot < newest'
    BY <2>1, <2>3, <2>4, <2>5 DEF OrderInv
  <2>7. /\ \A k \in 1 .. Len(pendingReads') : fbo.shot < pendingReads'[k].shot
        /\ \A k \in 1 .. Len(readyForRead) : fbo.shot < readyForRead[k].shot
    BY <2>3 DEF OrderInv
  <2>8. readyForRead' = readyForRead
    BY <1>4, RetireQueues
  <2>9. QED
    BY <2>1, <2>2, <2>6, <2>7, <2>8 DEF OrderInv, NewerThan
<1>5. ASSUME NEW ok \in BOOLEAN, ScheduleRead(ok) PROVE OrderInv'
  <2>1. newest = None /\ newest' = None /\ fbo' = fbo
    BY <1>5 DEF ScheduleRead, SurfaceInv
  <2>2. ASSUME NEW k \in 1 .. Len(pendingReads')
        PROVE  \/ k \in 1 .. Len(pendingReads) /\ pendingReads'[k] = pendingReads[k]
               \/ /\ k = Len(pendingReads) + 1
                  /\ pendingReads'[k].shot = readyForRead[1].shot
    BY <1>0, <1>5, ScheduleQueues
  <2>3. ASSUME NEW k \in 1 .. Len(readyForRead')
        PROVE  /\ k + 1 \in 1 .. Len(readyForRead) /\ 1 < k + 1
               /\ readyForRead'[k] = readyForRead[k + 1]
    BY <1>0, <1>5, ScheduleQueues
  <2>4. 1 \in 1 .. Len(readyForRead)
    BY <1>5, ScheduleQueues
  <2>5. ASSUME NEW j \in 1 .. Len(pendingReads'), NEW k \in 1 .. Len(pendingReads'),
               j < k
        PROVE  pendingReads'[j].shot < pendingReads'[k].shot
    <3>1. j \in 1 .. Len(pendingReads) /\ pendingReads'[j] = pendingReads[j]
      BY <1>0, <1>5, <2>2, <2>5, ScheduleQueues
    <3>2. QED
      BY <2>2, <2>4, <2>5, <3>1 DEF OrderInv
  <2>6. ASSUME NEW j \in 1 .. Len(readyForRead'), NEW k \in 1 .. Len(readyForRead'),
               j < k
        PROVE  readyForRead'[j].shot < readyForRead'[k].shot
    <3>1. j + 1 < k + 1
      BY <2>6, <1>0, <1>5, ScheduleQueues
    <3>2. QED
      BY <2>3, <3>1 DEF OrderInv
  <2>7. ASSUME NEW j \in 1 .. Len(pendingReads'), NEW k \in 1 .. Len(readyForRead')
        PROVE  pendingReads'[j].shot < readyForRead'[k].shot
    BY <2>2, <2>3, <2>4 DEF OrderInv
  <2>8. NewerThan(fbo.shot)'
    BY <2>1, <2>2, <2>3, <2>4 DEF OrderInv, NewerThan
  <2>9. QED
    BY <2>1, <2>5, <2>6, <2>7, <2>8 DEF OrderInv
<1>6. ASSUME NEW i \in Slots, BlitForReadback(i) PROVE OrderInv'
  <2>1. newest = None /\ newest' = None /\ fbo' = fbo /\ pc = "blit"
    BY <1>6 DEF BlitForReadback, SurfaceInv
  <2>2. /\ \A k \in 1 .. Len(readyForRead) : readyForRead[k].shot < frame
        /\ \A k \in 1 .. Len(pendingReads) : pendingReads[k].shot < frame
        /\ fbo.shot < frame
    BY <2>1 DEF FrameInv
  <2>3. ASSUME NEW k \in 1 .. Len(readyForRead')
        PROVE  \/ k \in 1 .. Len(readyForRead) /\ readyForRead'[k] = readyForRead[k]
               \/ k = Len(readyForRead) + 1 /\ readyForRead'[k].shot = frame
    <3>1. /\ Len(readyForRead') = Len(readyForRead) + 1
          /\ \A m \in 1 .. Len(readyForRead) : readyForRead'[m] = readyForRead[m]
          /\ readyForRead'[Len(readyForRead) + 1].shot = frame
      BY <1>0, <1>6, BlitQueues, Zenon
    <3>2. Len(readyForRead) \in Nat
      BY <1>0, RecordTypes, Zenon
    <3>3. k \in 1 .. Len(readyForRead) \/ k = Len(readyForRead) + 1
      BY <3>1, <3>2
    <3> QED
      BY <3>1, <3>3, Zenon
  <2>4. ASSUME NEW j \in 1 .. Len(readyForRead'), NEW k \in 1 .. Len(readyForRead'),
               j < k
        PROVE  readyForRead'[j].shot < readyForRead'[k].shot
    <3>1. j \in 1 .. Len(readyForRead) /\ readyForRead'[j] = readyForRead[j]
      BY <1>0, <1>6, <2>3, <2>4, BlitQueues
    <3>2. QED
      BY <2>2, <2>3, <2>4, <3>1 DEF OrderInv
  <2>5. pendingReads' = pendingReads
    BY <1>6, BlitQueues
  <2>6. ASSUME NEW j \in 1 .. Len(pendingReads), NEW k \in 1 .. Len(readyForRead')
        PROVE  pendingReads[j].shot < readyForRead'[k].shot
    BY <2>2, <2>3 DEF OrderInv
  <2>7. NewerThan(fbo.shot)'
    BY <2>1, <2>2, <2>3, <2>5 DEF OrderInv, NewerThan
  <2>8. QED
    BY <2>1, <2>4, <2>5, <2>6, <2>7 DEF OrderInv
<1>7. ASSUME NEW ok \in BOOLEAN, ResizeSurface(ok) PROVE OrderInv'
  <2>1. newest' = None
    BY <1>7 DEF ResizeSurface, SurfaceInv
  <2>2. CASE ok
    <3>1. Len(readyForRead') = 0 /\ Len(pendingReads') = 0
      BY <1>7, <2>2 DEF ResizeSurface, ResetReadbackState
    <3>2. QED
      BY <1>2, <2>1, <3>1
  <2>3. CASE ~ok
    <3>1. Len(pendingReads') = 0 /\ readyForRead' = readyForRead /\ fbo' = fbo
      BY <1>7, <2>3 DEF ResizeSurface, GiveUp
    <3>2. QED
      BY <2>1, <3>1 DEF OrderInv, NewerThan
  <2>4. QED
    BY <2>2, <2>3
<1>8. CASE Release
  <2>1. Len(readyForRead') = 0 /\ Len(pendingReads') = 0 /\ newest' = None
    BY <1>8 DEF Release, SurfaceInv
  <2>2. QED
    BY <1>2, <2>1
<1>9. ASSUME NEW ok \in BOOLEAN, CreateSurface(ok) PROVE OrderInv'
  <2>1. newest' = None
    BY <1>9 DEF CreateSurface, SurfaceInv
  <2>2. CASE ok
    <3>1. Len(readyForRead') = 0 /\ Len(pendingReads') = 0
      BY <1>9, <2>2 DEF CreateSurface, ResetReadbackState
    <3>2. QED
      BY <1>2, <2>1, <3>1
  <2>3. CASE ~ok
    BY <1>1, <1>9, <2>3 DEF CreateSurface, GiveUp
  <2>4. QED
    BY <2>2, <2>3
<1>10. ASSUME NEW sz \in Sizes, BeginRender(sz) PROVE OrderInv'
  BY <1>1, <1>10 DEF BeginRender
<1>11. ASSUME NEW ok \in BOOLEAN, AcquireDevice(ok) PROVE OrderInv'
  BY <1>1, <1>11 DEF AcquireDevice, GiveUp
<1>12. CASE KeepSurface
  BY <1>1, <1>12, BindShot DEF KeepSurface
<1>13. CASE BeginResize \/ RenderScene \/ SkipBlit \/ BeginTeardown \/ DrainFrame
            \/ EndFrame \/ OtherViewportFrame
  BY <1>1, <1>13 DEF BeginResize, RenderScene, SkipBlit, BeginTeardown, DrainFrame,
     EndFrame, OtherViewportFrame
<1>14. QED
  BY <1>3, <1>4, <1>5, <1>6, <1>7, <1>8, <1>9, <1>10, <1>11, <1>12, <1>13
     DEF Next, EnsureSurface

(* Every outstanding read has its buffer in the delete queue once          *)
(* stashPendingReads is through.                                           *)
LEMMA StashKeepsBuffers ==
    ASSUME TypeOK, ReadInv, StashPendingReads, NEW r \in gpuReads
    PROVE  \E d \in deferred' : d.shot = r.shot /\ d.safe = r.due
<1>1. CASE r.tex = Detached
  BY <1>1 DEF ReadInv, IsDeferred, StashPendingReads
<1>2. CASE r.tex # Detached
  <2>1. PICK k \in 1 .. Len(pendingReads) :
           pendingReads[k].shot = r.shot /\ pendingReads[k].frameId = r.due
    BY <1>2 DEF ReadInv, HasRecord
  <2>2. [shot |-> pendingReads[k].shot, safe |-> pendingReads[k].frameId]
          \in deferred'
    BY DEF StashPendingReads
  <2>3. QED
    BY <2>1, <2>2
<1>3. QED
  BY <1>1, <1>2

LEMMA ReadStep ==
    NoWrap /\ TypeOK /\ SurfaceInv /\ FrameInv /\ OrderInv /\ ReadInv /\ Next
      => ReadInv'
<1> SUFFICES ASSUME NoWrap, TypeOK, SurfaceInv, FrameInv, OrderInv, ReadInv, Next
             PROVE  ReadInv'
  OBVIOUS
<1> USE DEF device, ring
<1>0. /\ frame \in Nat /\ ReadLatency \in Nat /\ ReadLatency > 0
      /\ fbo \in [size : Sizes, shot : Int]
      /\ gpuReads \subseteq [shot : Nat, tex : Slots \cup {Detached}, due : Nat]
      /\ \A r \in gpuReads : r.shot \notin {None, Cleared, Garbage}
      /\ Detached \notin Slots
  BY PresenterAssumption DEF TypeOK, Shots, None, Cleared, Garbage, Detached, Slots
<1>1. CASE /\ UNCHANGED <<readyForRead, pendingReads, gpuReads, deferred>>
           /\ newest' \in {newest, None}
           /\ fbo'.shot \in {fbo.shot, newest, Cleared, Garbage}
  <2>1. UploadsAreRetired'
    BY <1>0, <1>1 DEF ReadInv, UploadsAreRetired
  <2>2. QED
    BY <1>1, <2>1 DEF ReadInv, NewerThan, HasRecord, IsDeferred
<1>2. CASE /\ DeviceEndFrame
           /\ UNCHANGED <<readyForRead, pendingReads, newest, fbo>>
  <2>1. gpuReads' \subseteq gpuReads /\ \A r \in gpuReads' : r.due > frame + 1
    BY <1>2 DEF DeviceEndFrame
  <2>2. ASSUME NEW r \in gpuReads', IsDeferred(r) PROVE IsDeferred(r)'
    <3>1. PICK d \in deferred : d.shot = r.shot /\ d.safe = r.due
      BY <2>2 DEF IsDeferred
    <3>2. /\ frame + 1 < r.due /\ r.due <= frame + ReadLatency
          /\ frame + 1 <= MaxFrame /\ r.due \in Nat
      BY <1>0, <1>2, <2>1, PresenterAssumption DEF FrameInv, DeviceEndFrame
    <3>3. ~IsRetired(IdOf(frame + 1), r.due)
      <4>1. /\ frame + 1 \in Nat /\ r.due <= frame + 1 + ReadLatency
            /\ r.due <= MaxFrame + ReadLatency
        BY <1>0, <3>2, PresenterAssumption
      <4>2. QED
        BY <3>2, <4>1, FutureNotRetired
    <3>4. d \in deferred'
      BY <1>2, <3>1, <3>3 DEF DeviceEndFrame
    <3>5. QED
      BY <3>1, <3>4 DEF IsDeferred
  <2>3. UploadsAreRetired'
    BY <1>2, <2>1 DEF ReadInv, UploadsAreRetired
  <2>4. \A r \in gpuReads' : /\ NewerThan(r.shot) => NewerThan(r.shot)'
                             /\ HasRecord(r) => HasRecord(r)'
    BY <1>2 DEF NewerThan, HasRecord
  <2>5. QED
    BY <2>1, <2>2, <2>3, <2>4 DEF ReadInv
<1>3. ASSUME StashPendingReads, DetachReads \/ (gpuReads' = gpuReads /\ pendingReads = <<>>),
             Len(pendingReads') = 0,
             Len(readyForRead') = 0 \/ readyForRead' = readyForRead,
             newest' = None, fbo'.shot \in {fbo.shot, Cleared}
      PROVE  ReadInv'
  <2>1. \A r \in gpuReads' : r.tex = Detached
          /\ \E q \in gpuReads : q.shot = r.shot /\ q.due = r.due
    <3>1. pendingReads = <<>> => \A r \in gpuReads : r.tex = Detached
      BY DEF ReadInv, HasRecord
    <3>2. QED
      BY <1>3, <3>1, DetachedReads
  <2>2. ASSUME NEW r \in gpuReads' PROVE IsDeferred(r)'
    BY <1>3, <2>1, StashKeepsBuffers DEF IsDeferred
  <2>3. ASSUME NEW r \in gpuReads PROVE \A k \in 1 .. Len(readyForRead) :
                                           r.shot < readyForRead[k].shot
    BY DEF ReadInv, HasRecord, NewerThan, OrderInv
  <2>4. ASSUME NEW r \in gpuReads' PROVE NewerThan(r.shot)'
    BY <1>3, <2>1, <2>3 DEF NewerThan
  <2>5. UploadsAreRetired'
    BY <1>0, <1>3, <2>1 DEF ReadInv, UploadsAreRetired
  <2>6. QED
    BY <2>1, <2>2, <2>4, <2>5 DEF ReadInv
<1>4. CASE RetireRead
  <2> DEFINE head == pendingReads[1]
  <2>1. /\ newest' \in {newest, head.shot} /\ head.frameId <= lastFrameId
        /\ lastFrameId # NoFrame
        /\ UNCHANGED <<gpuReads, deferred, fbo, readyForRead>>
    BY <1>4, RetireQueues DEF RetireRead, Completed
  <2>2. head.frameId <= frame
    <3>1. head.frameId \in Nat /\ lastFrameId \in Nat
      BY <1>4, RetireQueues, RecordTypes, IdModAssumption DEF TypeOK, FrameId
    <3>2. QED
      BY <1>0, <2>1, <3>1 DEF FrameInv
  <2>3. ASSUME NEW r \in gpuReads, HasRecord(r)
        PROVE  HasRecord(r)' /\ head.shot < r.shot
    <3>1. PICK k \in 1 .. Len(pendingReads) :
             /\ pendingReads[k].tex = r.tex
             /\ pendingReads[k].shot = r.shot
             /\ pendingReads[k].frameId = r.due
      BY <2>3 DEF HasRecord
    <3>2. k # 1
      BY <1>0, <2>2, <3>1 DEF FrameInv
    <3>3. /\ k - 1 \in 1 .. Len(pendingReads') /\ pendingReads'[k - 1] = pendingReads[k]
          /\ 1 < k /\ 1 \in 1 .. Len(pendingReads)
      <4>1. k - 1 \in 1 .. Len(pendingReads') /\ 1 < k
        BY <1>4, <3>2, RetireQueues, RecordTypes
      <4>2. pendingReads'[k - 1] = pendingReads[(k - 1) + 1]
        BY <1>4, <4>1, RetireQueues
      <4>3. QED
        BY <1>4, <4>1, <4>2, RetireQueues
    <3>4. QED
      BY <3>1, <3>3 DEF HasRecord, OrderInv
  <2>4. ASSUME NEW r \in gpuReads, NewerThan(r.shot)
        PROVE  NewerThan(r.shot)' /\ r.shot < head.shot
    BY <1>4, <2>4, RetireQueues DEF NewerThan
  <2>5. \A r \in gpuReads : r.shot # head.shot
    <3>1. head.shot \in Nat
      BY <1>4, RetireQueues, RecordTypes
    <3>2. QED
      BY <1>0, <2>3, <2>4, <3>1 DEF ReadInv
  <2>6. UploadsAreRetired'
    BY <2>1, <2>5 DEF ReadInv, UploadsAreRetired
  <2>7. QED
    BY <2>1, <2>3, <2>4, <2>6 DEF ReadInv, IsDeferred
<1>5. ASSUME NEW ok \in BOOLEAN, ScheduleRead(ok) PROVE ReadInv'
  <2> DEFINE record == readyForRead[1]
             read   == [shot |-> record.shot, tex |-> record.tex,
                        due |-> frame + ReadLatency]
  <2>1. /\ newest = None /\ newest' = None /\ UNCHANGED <<deferred, fbo>>
    BY <1>5 DEF ScheduleRead, SurfaceInv
  <2>2. /\ record = Head(readyForRead) /\ 1 \in 1 .. Len(readyForRead)
        /\ record.tex \in Slots /\ record.shot \in Nat
    <3>1. readyForRead \in Seq(Blit) /\ readyForRead # <<>>
      BY <1>5 DEF ScheduleRead, Readable, TypeOK
    <3>2. QED
      BY <1>5, <3>1, HeadType, ScheduleQueues, RecordTypes
  <2>3. frame + ReadLatency <= MaxFrame + ReadLatency
    BY <1>0, PresenterAssumption DEF TypeOK, Shots
  <2>4. /\ IdOf(frame + ReadLatency) = frame + ReadLatency
        /\ IdOf(frame + ReadLatency) # NoFrame
    BY <1>0, <2>3, IdIsFrame
  <2>5. ASSUME NEW r \in gpuReads, HasRecord(r) PROVE HasRecord(r)'
    <3>1. PICK k \in 1 .. Len(pendingReads) :
             /\ pendingReads[k].tex = r.tex
             /\ pendingReads[k].shot = r.shot
             /\ pendingReads[k].frameId = r.due
      BY <2>5 DEF HasRecord
    <3>2. k \in 1 .. Len(pendingReads') /\ pendingReads'[k] = pendingReads[k]
      BY <1>5, ScheduleQueues, RecordTypes
    <3>3. QED
      BY <3>1, <3>2 DEF HasRecord
  <2>6. ASSUME NEW r \in gpuReads, NewerThan(r.shot) PROVE NewerThan(r.shot)'
    <3>1. ASSUME NEW k \in 1 .. Len(pendingReads') PROVE r.shot < pendingReads'[k].shot
      <4>1. \/ k \in 1 .. Len(pendingReads) /\ pendingReads'[k] = pendingReads[k]
            \/ pendingReads'[k].shot = record.shot
        <5>1. \/ pendingReads' = pendingReads
              \/ /\ Len(pendingReads') = Len(pendingReads) + 1
                 /\ \A m \in 1 .. Len(pendingReads) : pendingReads'[m] = pendingReads[m]
                 /\ pendingReads'[Len(pendingReads) + 1].shot = record.shot
          BY <1>5, ScheduleQueues
        <5>2. Len(pendingReads) \in Nat
          BY RecordTypes, Zenon
        <5> HIDE DEF record
        <5> QED
          BY <5>1, <5>2
      <4>2. QED
        BY <2>2, <2>6, <4>1 DEF NewerThan
    <3>2. ASSUME NEW k \in 1 .. Len(readyForRead') PROVE r.shot < readyForRead'[k].shot
      BY <1>5, <2>6, ScheduleQueues DEF NewerThan
    <3>3. QED
      BY <3>1, <3>2 DEF NewerThan
  <2>7. fbo.shot < record.shot
    BY <2>2 DEF OrderInv, NewerThan
  <2>8. CASE ok
    <3>1. gpuReads' = gpuReads \cup {read} /\ pendingReads' # pendingReads
      <4>1. gpuReads' = gpuReads \cup {read}
        BY <1>5, <2>2, <2>8 DEF ScheduleRead
      <4>2. pendingReads' = Append(pendingReads,
               [shot |-> record.shot, frameId |-> IdOf(frame + ReadLatency),
                size |-> record.size, tex |-> record.tex])
        BY <1>5, <2>2, <2>4, <2>8, Zenon DEF ScheduleRead, PushBack
      <4>3. pendingReads \in Seq(Read)
        BY DEF TypeOK
      <4>4. Len(pendingReads') = Len(pendingReads) + 1
        BY <4>2, <4>3
      <4>5. QED
        BY <4>1, <4>4, RecordTypes
    <3>2. ASSUME NEW r, r = read PROVE HasRecord(r)'
      <4> DEFINE n == Len(pendingReads) + 1
      <4>1. /\ Len(pendingReads') = n
            /\ pendingReads'[n].tex = r.tex
            /\ pendingReads'[n].shot = r.shot
            /\ pendingReads'[n].frameId = r.due
        BY <1>5, <2>4, <3>1, <3>2, ScheduleQueues
      <4>2. n \in 1 .. Len(pendingReads')
        BY <4>1, RecordTypes
      <4> HIDE DEF n
      <4>3. QED
        BY <4>1, <4>2 DEF HasRecord
    <3>3. read.shot # None /\ read.shot # fbo.shot /\ read.tex # Detached
      BY <1>0, <2>2, <2>7 DEF None
    <3> HIDE DEF read
    <3>4. UploadsAreRetired'
      BY <2>1, <3>1, <3>3 DEF ReadInv, UploadsAreRetired
    <3>5. QED
      <4>1. ASSUME NEW r \in gpuReads'
            PROVE  IF r.tex = Detached THEN (NewerThan(r.shot) /\ IsDeferred(r))'
                                       ELSE HasRecord(r)'
        BY <2>1, <2>5, <2>6, <3>1, <3>2, <3>3 DEF ReadInv, IsDeferred
      <4>2. QED
        BY <3>4, <4>1 DEF ReadInv
  <2>9. CASE ~ok
    <3>1. gpuReads' = gpuReads
      BY <1>5, <2>9 DEF ScheduleRead
    <3>2. UploadsAreRetired'
      BY <2>1, <3>1 DEF ReadInv, UploadsAreRetired
    <3>3. QED
      BY <2>1, <2>5, <2>6, <3>1, <3>2 DEF ReadInv, IsDeferred
  <2>10. QED
    BY <2>8, <2>9
<1>6. ASSUME NEW i \in Slots, BlitForReadback(i) PROVE ReadInv'
  <2>1. UNCHANGED <<gpuReads, deferred, pendingReads, newest, fbo>>
    BY <1>6 DEF BlitForReadback
  <2>2. ASSUME NEW r \in gpuReads, NewerThan(r.shot) PROVE NewerThan(r.shot)'
    <3>1. ASSUME NEW k \in 1 .. Len(readyForRead')
          PROVE  \/ k \in 1 .. Len(readyForRead) /\ readyForRead'[k] = readyForRead[k]
                 \/ readyForRead'[k].shot = frame
      BY <1>6, BlitQueues, RecordTypes
    <3>2. r.shot < frame
      BY DEF FrameInv
    <3>3. QED
      BY <2>1, <2>2, <3>1, <3>2 DEF NewerThan
  <2>3. QED
    BY <2>1, <2>2 DEF ReadInv, HasRecord, IsDeferred, UploadsAreRetired
<1>7. ASSUME NEW ok \in BOOLEAN, ResizeSurface(ok) PROVE ReadInv'
  <2>1. /\ StashPendingReads /\ DetachReads /\ Len(pendingReads') = 0
        /\ Len(readyForRead') = 0 \/ readyForRead' = readyForRead
        /\ newest' = None /\ fbo'.shot \in {fbo.shot, Cleared}
    <3>1. newest' = None /\ DetachReads
      BY <1>7 DEF ResizeSurface, SurfaceInv
    <3>2. CASE ok
      BY <1>7, <3>1, <3>2, BindShot DEF ResizeSurface, ResetReadbackState
    <3>3. CASE ~ok
      BY <1>7, <3>1, <3>3 DEF ResizeSurface, GiveUp
    <3>4. QED
      BY <3>2, <3>3
  <2>2. QED
    BY <1>3, <2>1
<1>8. ASSUME NEW ok \in BOOLEAN, CreateSurface(ok) PROVE ReadInv'
  <2>1. CASE ok
    <3>1. /\ StashPendingReads /\ pendingReads = <<>> /\ gpuReads' = gpuReads
          /\ Len(pendingReads') = 0 /\ Len(readyForRead') = 0
          /\ newest' = None /\ fbo'.shot \in {fbo.shot, Cleared}
      BY <1>8, <2>1, BindShot DEF CreateSurface, ResetReadbackState, SurfaceInv
    <3>2. QED
      BY <1>3, <3>1
  <2>2. CASE ~ok
    BY <1>1, <1>8, <2>2 DEF CreateSurface, GiveUp
  <2>3. QED
    BY <2>1, <2>2
<1>9. CASE Release
  <2>1. /\ StashPendingReads /\ Len(pendingReads') = 0 /\ Len(readyForRead') = 0
        /\ newest' = None /\ fbo'.shot = fbo.shot
    BY <1>9 DEF Release, SurfaceInv
  <2>2. DetachReads \/ (gpuReads' = gpuReads /\ pendingReads = <<>>)
    BY <1>9 DEF Release, SurfaceInv
  <2>3. QED
    BY <1>3, <2>1, <2>2
<1>10. ASSUME NEW sz \in Sizes, BeginRender(sz) PROVE ReadInv'
  BY <1>1, <1>10 DEF BeginRender
<1>11. ASSUME NEW ok \in BOOLEAN, AcquireDevice(ok) PROVE ReadInv'
  BY <1>1, <1>11 DEF AcquireDevice, GiveUp
<1>12. CASE KeepSurface
  BY <1>1, <1>12, BindShot DEF KeepSurface
<1>13. CASE Upload \/ FinishRender
  <2>1. newest' = None /\ fbo'.shot \in {fbo.shot, newest}
    BY <1>13, UploadShot DEF Upload, FinishRender
  <2>2. QED
    BY <1>1, <1>13, <2>1 DEF Upload, FinishRender
<1>14. CASE BeginResize \/ RenderScene \/ SkipBlit \/ BeginTeardown
  BY <1>1, <1>14 DEF BeginResize, RenderScene, SkipBlit, BeginTeardown
<1>15. CASE DrainFrame \/ EndFrame \/ OtherViewportFrame
  BY <1>2, <1>15 DEF DrainFrame, EndFrame, OtherViewportFrame
<1>16. QED
  BY <1>4, <1>5, <1>6, <1>7, <1>8, <1>9, <1>10, <1>11, <1>12, <1>13, <1>14, <1>15
     DEF Next, EnsureSurface
-----------------------------------------------------------------------------
LEMMA RingStep == NoWrap /\ TypeOK /\ RingInv /\ [Next]_vars => RingInv'
<1>1. NoWrap /\ TypeOK /\ RingInv /\ Next => RingInv'
  BY SurfaceStep, SlotStep, FrameStep, OrderStep, ReadStep DEF RingInv
<1>2. RingInv /\ UNCHANGED vars => RingInv'
  <2> SUFFICES ASSUME RingInv, UNCHANGED vars PROVE RingInv'
    OBVIOUS
  <2> USE DEF RingInv, vars, device, ring
  <2>1. SurfaceInv' /\ SlotOwnership'
    BY SurfaceSame, SlotSame
  <2>2. FrameInv'
    BY DEF FrameInv
  <2>3. OrderInv'
    BY DEF OrderInv, NewerThan
  <2>4. ReadInv'
    BY DEF ReadInv, NewerThan, HasRecord, IsDeferred, UploadsAreRetired
  <2>5. QED
    BY <2>1, <2>2, <2>3, <2>4
<1>3. QED
  BY <1>1, <1>2

LEMMA RingCorrect ==
    ASSUME NoWrap
    PROVE  Spec => [](TypeOK /\ RingInv)
<1>1. Init => TypeOK /\ RingInv
  BY InitType, InitRing
<1>2. TypeOK /\ RingInv /\ [Next]_vars => (TypeOK /\ RingInv)'
  BY StepType, RingStep
<1>3. QED
  BY <1>1, <1>2, PTL DEF Spec

(* A texture bgfx still reads belongs to the read that was issued on it.   *)
THEOREM TexturesKept ==
    ASSUME NoWrap
    PROVE  Spec => []ReadsKeepTheirTexture
<1>1. RingInv => ReadsKeepTheirTexture
  BY DEF RingInv, ReadInv, HasRecord, ReadsKeepTheirTexture
<1>2. QED
  BY <1>1, RingCorrect, PTL

(* bgfx never writes to a buffer that was freed, across resizes, failed    *)
(* resizes, a drain that gave up, and the end of the viewport.             *)
THEOREM BuffersKept ==
    ASSUME NoWrap
    PROVE  Spec => []BuffersOutliveReads
<1>1. RingInv => BuffersOutliveReads
  BY DEF RingInv, ReadInv, HasRecord, IsDeferred, BuffersOutliveReads
<1>2. QED
  BY <1>1, RingCorrect, PTL

(* What is uploaded to the FBO is a picture bgfx has finished.             *)
THEOREM UploadsRetired ==
    ASSUME NoWrap
    PROVE  Spec => []UploadsAreRetired
<1>1. RingInv => UploadsAreRetired
  BY DEF RingInv, ReadInv
<1>2. QED
  BY <1>1, RingCorrect, PTL

(* The FBO never goes back to an older picture, nor does the choice of the *)
(* read to upload among those that completed together.                     *)
THEOREM InOrder ==
    ASSUME NoWrap
    PROVE  Spec => PicturesInOrder
<1> DEFINE A == fbo.shot \in Shots /\ fbo'.shot \in Shots => fbo'.shot >= fbo.shot
           B == newest \in Shots /\ newest' \in Shots => newest' >= newest
<1>1. TypeOK /\ RingInv /\ [Next]_vars => A /\ B
  <2> SUFFICES ASSUME TypeOK, RingInv, [Next]_vars PROVE A /\ B
    OBVIOUS
  <2> USE DEF device, ring
  <2>1. /\ fbo \in [size : Sizes, shot : Int] /\ Shots \subseteq Nat
        /\ newest \in Int /\ None \notin Shots
    BY PresenterAssumption DEF TypeOK, Shots, Cleared, Garbage, None
  <2>2. CASE fbo' = fbo /\ newest' = newest
    BY <2>1, <2>2
  <2>3. CASE fbo'.shot \in {fbo.shot, Cleared, Garbage} /\ newest' = newest
    BY <2>1, <2>3 DEF Cleared, Garbage
  <2>4. CASE Upload \/ FinishRender
    <3>1. /\ fbo'.shot = IF newest = None THEN fbo.shot ELSE newest
          /\ newest' = None
      BY <2>4, UploadShot DEF Upload, FinishRender, UploadNewest
    <3>2. newest # None => fbo.shot < newest
      BY DEF RingInv, OrderInv
    <3>3. QED
      BY <2>1, <3>1, <3>2
  <2>5. CASE RetireRead
    <3>1. pendingReads # <<>> /\ pendingReads \in Seq(Read)
      BY <2>5 DEF RetireRead, Completed, TypeOK
    <3>2. Len(pendingReads) \in Nat /\ Len(pendingReads) >= 1
      BY <3>1
    <3>3. Head(pendingReads) = pendingReads[1]
      BY <3>1
    <3>4. newest # None => newest < Head(pendingReads).shot
      BY <3>2, <3>3 DEF RingInv, OrderInv, NewerThan
    <3>5. fbo' = fbo /\ newest' \in {newest, Head(pendingReads).shot}
      BY <2>5 DEF RetireRead
    <3>6. QED
      BY <2>1, <3>4, <3>5
  <2>6. ASSUME NEW sz \in Sizes, BeginRender(sz) PROVE A /\ B
    BY <2>2, <2>3, <2>6 DEF BeginRender
  <2>7. ASSUME NEW ok \in BOOLEAN, AcquireDevice(ok) \/ ScheduleRead(ok)
        PROVE  A /\ B
    BY <2>2, <2>7 DEF AcquireDevice, GiveUp, ScheduleRead
  <2>8. ASSUME NEW ok \in BOOLEAN, CreateSurface(ok) \/ ResizeSurface(ok)
        PROVE  A /\ B
    BY <2>2, <2>3, <2>8, BindShot DEF CreateSurface, ResizeSurface, GiveUp
  <2>9. CASE KeepSurface
    BY <2>3, <2>9, BindShot DEF KeepSurface
  <2>10. CASE \/ BeginResize \/ DrainFrame \/ RenderScene
              \/ (\E i \in Slots : BlitForReadback(i)) \/ SkipBlit \/ EndFrame
              \/ OtherViewportFrame \/ BeginTeardown \/ Release \/ UNCHANGED vars
    BY <2>2, <2>10 DEF BeginResize, DrainFrame, RenderScene,
       BlitForReadback, SkipBlit, EndFrame, OtherViewportFrame, BeginTeardown,
       Release, vars
  <2>11. QED
    BY <2>4, <2>5, <2>6, <2>7, <2>8, <2>9, <2>10 DEF Next, EnsureSurface
<1>2. TypeOK /\ RingInv /\ [Next]_vars => [A /\ B]_<<fbo, newest>>
  BY <1>1
<1>3. QED
  BY <1>2, RingCorrect, PTL DEF PicturesInOrder, Spec

(* A readback texture has one owner or none, for every ring and latency.   *)
THEOREM TexturesHaveOwner == Spec => []TexturesOwned
  BY TypeCorrect, SlotsOwned, PTL DEF TexturesOwned

(* No read loses its texture or buffer, and none is shown before its end.  *)
THEOREM ReadsComplete ==
    ASSUME NoWrap
    PROVE  Spec => []ReadsUndisturbed
  BY TexturesKept, BuffersKept, UploadsRetired, PTL DEF ReadsUndisturbed
-----------------------------------------------------------------------------
(***************************************************************************)
(* The presenter implements FrameRing.                                     *)
(***************************************************************************)

(* What the order of pictures does not need to know: sizes and due frames. *)
MatchInv ==
    /\ surface # NoSurface =>
          /\ lastSize = surface
          /\ \A k \in 1 .. Len(readyForRead) : readyForRead[k].size = surface
          /\ \A k \in 1 .. Len(pendingReads) : pendingReads[k].size = surface
    /\ \A k \in 1 .. Len(pendingReads) : pendingReads[k].frameId <= frame + ReadLatency

LEMMA InitMatch == Init => MatchInv
  BY DEF Init, MatchInv

LEMMA MatchStep == NoWrap /\ TypeOK /\ RingInv /\ MatchInv /\ [Next]_vars => MatchInv'
<1> SUFFICES ASSUME NoWrap, TypeOK, RingInv, MatchInv, [Next]_vars PROVE MatchInv'
  OBVIOUS
<1> USE DEF device, ring
<1>0. SurfaceInv /\ NoSurface \notin Sizes /\ fbo.size \in Sizes /\ frame \in Nat /\ ReadLatency \in Nat
  BY PresenterAssumption DEF RingInv, TypeOK, Shots
<1>1. ASSUME UNCHANGED <<surface, lastSize, readyForRead, pendingReads, frame>> PROVE MatchInv'
  BY <1>1 DEF MatchInv
<1>2. ASSUME UNCHANGED <<surface, lastSize, readyForRead, pendingReads>>, frame' = frame + 1
      PROVE  MatchInv'
  <2>1. \A k \in 1 .. Len(pendingReads) : pendingReads[k].frameId \in Nat
    BY RecordTypes
  <2> QED
    BY <1>0, <1>2, <2>1 DEF MatchInv
<1>3. ASSUME pendingReads' = <<>>, surface' = NoSurface \/ (readyForRead' = <<>> /\ lastSize' = surface')
      PROVE  MatchInv'
  BY <1>3 DEF MatchInv
<1>4. ASSUME NEW sz \in Sizes, BeginRender(sz) PROVE MatchInv'
  BY <1>1, <1>4 DEF BeginRender
<1>5. ASSUME NEW ok \in BOOLEAN, AcquireDevice(ok) PROVE MatchInv'
  BY <1>1, <1>5 DEF AcquireDevice, GiveUp
<1>6. ASSUME NEW ok \in BOOLEAN, CreateSurface(ok) PROVE MatchInv'
  BY <1>1, <1>3, <1>6 DEF CreateSurface, ResetReadbackState, BindTarget, GiveUp
<1>7. CASE KeepSurface
  BY <1>0, <1>7 DEF KeepSurface, BindTarget, MatchInv
<1>8. ASSUME NEW ok \in BOOLEAN, ResizeSurface(ok) PROVE MatchInv'
  BY <1>3, <1>8 DEF ResizeSurface, ResetReadbackState, BindTarget, GiveUp
<1>9. CASE RetireRead
  <2>1. UNCHANGED <<surface, lastSize, frame>>
    BY <1>9 DEF RetireRead
  <2> QED
    BY <1>9, <2>1, RetireQueues DEF MatchInv
<1>10. ASSUME NEW ok \in BOOLEAN, ScheduleRead(ok) PROVE MatchInv'
  <2>1. UNCHANGED <<surface, lastSize, frame>>
    BY <1>10 DEF ScheduleRead
  <2>2. IdOf(frame + ReadLatency) = frame + ReadLatency
    <3>1. MaxFrame \in Nat /\ frame <= MaxFrame
      BY PresenterAssumption DEF TypeOK, Shots
    <3>2. frame + ReadLatency \in Nat /\ frame + ReadLatency <= MaxFrame + ReadLatency
      BY <1>0, <3>1
    <3> QED
      BY IdIsFrame, <3>2
  <2> DEFINE record == readyForRead[1]
             read   == [shot |-> record.shot,
                        frameId |-> IdOf(frame + ReadLatency),
                        size |-> record.size, tex |-> record.tex]
  <2>3. /\ 1 \in 1 .. Len(readyForRead)
        /\ \A k \in 1 .. Len(readyForRead') :
              k + 1 \in 1 .. Len(readyForRead) /\ readyForRead'[k] = readyForRead[k + 1]
        /\ \/ pendingReads' = pendingReads
           \/ /\ Len(pendingReads') = Len(pendingReads) + 1
              /\ \A k \in 1 .. Len(pendingReads) : pendingReads'[k] = pendingReads[k]
              /\ pendingReads'[Len(pendingReads) + 1] = read
    BY <1>10, ScheduleQueues
  <2>4. read.size = record.size /\ read.frameId = frame + ReadLatency
    BY <2>2
  <2>5. Len(pendingReads) \in Nat
    BY DEF TypeOK
  <2> HIDE DEF read
  <2>6. ASSUME NEW k \in 1 .. Len(pendingReads')
        PROVE  pendingReads'[k] = read \/ (k \in 1 .. Len(pendingReads) /\ pendingReads'[k] = pendingReads[k])
    <3>1. CASE pendingReads' = pendingReads
      BY <3>1
    <3>2. CASE /\ Len(pendingReads') = Len(pendingReads) + 1
               /\ \A j \in 1 .. Len(pendingReads) : pendingReads'[j] = pendingReads[j]
               /\ pendingReads'[Len(pendingReads) + 1] = read
      <4>1. k = Len(pendingReads) + 1 \/ k \in 1 .. Len(pendingReads)
        BY <2>5, <3>2
      <4> QED
        BY <3>2, <4>1
    <3> QED
      BY <2>3, <3>1, <3>2
  <2>7. \A k \in 1 .. Len(pendingReads') : pendingReads'[k].frameId <= frame + ReadLatency
    BY <1>0, <2>4, <2>6 DEF MatchInv
  <2> QED
    <3>1. surface # NoSurface =>
             /\ lastSize = surface
             /\ \A k \in 1 .. Len(readyForRead) : readyForRead[k].size = surface
             /\ \A k \in 1 .. Len(pendingReads) : pendingReads[k].size = surface
      BY DEF MatchInv
    <3>2. \A k \in 1 .. Len(readyForRead') : k + 1 \in 1 .. Len(readyForRead) /\ readyForRead'[k] = readyForRead[k + 1]
      BY <2>3
    <3>3. surface # NoSurface => \A k \in 1 .. Len(readyForRead') : readyForRead'[k].size = surface
      BY <3>1, <3>2
    <3>4. surface # NoSurface => \A k \in 1 .. Len(pendingReads') : pendingReads'[k].size = surface
      <4>1. 1 \in 1 .. Len(readyForRead)
        BY <2>3
      <4> QED
        BY <2>4, <2>6, <3>1, <4>1
    <3> QED
      BY <2>1, <2>7, <3>1, <3>3, <3>4 DEF MatchInv
<1>11. ASSUME NEW i \in Slots, BlitForReadback(i) PROVE MatchInv'
  <2>1. UNCHANGED <<surface, lastSize, frame, pendingReads>> /\ surface = fbo.size
    BY <1>0, <1>11 DEF BlitForReadback, SurfaceInv, Rendering
  <2>2. readyForRead \in Seq(Blit)
    BY DEF TypeOK
  <2>3. \A k \in 1 .. Len(readyForRead') :
           readyForRead'[k].size = fbo.size
           \/ (k \in 1 .. Len(readyForRead) /\ readyForRead'[k] = readyForRead[k])
    BY <1>11, <2>2 DEF BlitForReadback
  <2> QED
    BY <2>1, <2>3 DEF MatchInv
<1>12. CASE Upload \/ FinishRender \/ BeginResize \/ RenderScene \/ SkipBlit \/ BeginTeardown
  BY <1>1, <1>12 DEF Upload, FinishRender, BeginResize, RenderScene, SkipBlit, BeginTeardown
<1>13. CASE DrainFrame \/ EndFrame \/ OtherViewportFrame
  BY <1>2, <1>13 DEF DrainFrame, EndFrame, OtherViewportFrame, DeviceEndFrame
<1>14. CASE Release
  BY <1>0, <1>3, <1>14 DEF Release, SurfaceInv
<1>15. CASE UNCHANGED vars
  BY <1>1, <1>15 DEF vars
<1> QED
  BY <1>4, <1>5, <1>6, <1>7, <1>8, <1>9, <1>10, <1>11, <1>12, <1>13, <1>14, <1>15
     DEF Next, EnsureSurface
-----------------------------------------------------------------------------
(* The pictures in flight, one by one.                                     *)
Item == [picture : Shots, left : Nat]

Lead(n) == IF n = None THEN 0 ELSE 1

Left(id, now) == IF id > now THEN id - now ELSE 0

PictureAt(n, p, r, now, k) ==
    IF k <= Lead(n) THEN [picture |-> n, left |-> 0]
    ELSE IF k <= Lead(n) + Len(p)
         THEN [picture |-> p[k - Lead(n)].shot, left |-> Left(p[k - Lead(n)].frameId, now)]
         ELSE [picture |-> r[k - (Lead(n) + Len(p))].shot, left |-> ReadLatency + 1]

FlightOf(n, p, r, now) ==
    (IF n = None THEN <<>> ELSE <<[picture |-> n, left |-> 0]>>)
    \o [k \in 1 .. Len(p) |-> [picture |-> p[k].shot, left |-> Left(p[k].frameId, now)]]
    \o [k \in 1 .. Len(r) |-> [picture |-> r[k].shot, left |-> ReadLatency + 1]]

LEMMA ItemsConcat ==
    \A s, t \in Seq(Item) :
        /\ s \o t \in Seq(Item) /\ Len(s \o t) = Len(s) + Len(t)
        /\ \A k \in 1 .. Len(s) + Len(t) :
              (s \o t)[k] = IF k <= Len(s) THEN s[k] ELSE t[k - Len(s)]
<1> TAKE s, t \in Seq(Item)
<1> QED
  BY ConcatProperties

LEMMA FlightElements ==
    ASSUME NEW n \in Shots \cup {None}, NEW p \in Seq(Read), NEW r \in Seq(Blit), NEW now \in Nat
    PROVE  /\ FlightOf(n, p, r, now) \in Seq(Item)
           /\ Len(FlightOf(n, p, r, now)) = Lead(n) + Len(p) + Len(r)
           /\ \A k \in 1 .. Lead(n) + Len(p) + Len(r) :
                 FlightOf(n, p, r, now)[k] = PictureAt(n, p, r, now, k)
<1> DEFINE a == IF n = None THEN <<>> ELSE <<[picture |-> n, left |-> 0]>>
           b == [k \in 1 .. Len(p) |-> [picture |-> p[k].shot, left |-> Left(p[k].frameId, now)]]
           c == [k \in 1 .. Len(r) |-> [picture |-> r[k].shot, left |-> ReadLatency + 1]]
<1>1. /\ a \in Seq(Item) /\ Len(a) = Lead(n)
      /\ \A k \in 1 .. Lead(n) : a[k] = [picture |-> n, left |-> 0]
  <2>1. CASE n = None
    BY <2>1 DEF Lead
  <2>2. CASE n # None
    <3>1. [picture |-> n, left |-> 0] \in Item
      BY <2>2 DEF Item
    <3>2. a = <<[picture |-> n, left |-> 0]>>
      BY <2>2
    <3>3. Lead(n) = 1
      BY <2>2 DEF Lead
    <3> QED
      BY <3>1, <3>2, <3>3
  <2> QED
    BY <2>1, <2>2
<1>2. b \in Seq(Item) /\ Len(b) = Len(p)
  <2>1. ASSUME NEW k \in 1 .. Len(p)
        PROVE  [picture |-> p[k].shot, left |-> Left(p[k].frameId, now)] \in Item
    <3>0. p[k] \in Read
      OBVIOUS
    <3>1. p[k].shot \in Shots /\ p[k].frameId \in Nat
      BY <3>0, IdModAssumption DEF Read, FrameId
    <3> QED
      BY <3>1 DEF Left, Item
  <2>2. Len(p) \in Nat
    OBVIOUS
  <2>3. b \in [1 .. Len(p) -> Item]
    BY <2>1
  <2> HIDE DEF b
  <2> QED
    BY <2>2, <2>3
<1>3. c \in Seq(Item) /\ Len(c) = Len(r)
  <2>1. ASSUME NEW k \in 1 .. Len(r)
        PROVE  [picture |-> r[k].shot, left |-> ReadLatency + 1] \in Item
    <3>0. r[k] \in Blit
      OBVIOUS
    <3>1. r[k].shot \in Shots
      BY <3>0 DEF Blit
    <3> QED
      BY <3>1, PresenterAssumption DEF Item
  <2>2. Len(r) \in Nat
    OBVIOUS
  <2>3. c \in [1 .. Len(r) -> Item]
    BY <2>1
  <2> HIDE DEF c
  <2> QED
    BY <2>2, <2>3
<1>4. FlightOf(n, p, r, now) = a \o b \o c
  BY DEF FlightOf
<1>5. /\ Lead(n) \in Nat /\ Len(p) \in Nat /\ Len(r) \in Nat
      /\ \A k \in 1 .. Len(p) : b[k] = [picture |-> p[k].shot, left |-> Left(p[k].frameId, now)]
      /\ \A k \in 1 .. Len(r) : c[k] = [picture |-> r[k].shot, left |-> ReadLatency + 1]
  BY DEF Lead
<1> HIDE DEF a, b, c
<1>6. /\ a \o b \in Seq(Item) /\ Len(a \o b) = Lead(n) + Len(p)
      /\ \A k \in 1 .. Lead(n) + Len(p) :
            (a \o b)[k] = IF k <= Lead(n) THEN a[k] ELSE b[k - Lead(n)]
  <2>1. /\ a \o b \in Seq(Item) /\ Len(a \o b) = Len(a) + Len(b)
        /\ \A k \in 1 .. Len(a) + Len(b) :
              (a \o b)[k] = IF k <= Len(a) THEN a[k] ELSE b[k - Len(a)]
    BY <1>1, <1>2, ItemsConcat
  <2> QED
    BY <1>1, <1>2, <2>1
<1>7. /\ a \o b \o c \in Seq(Item) /\ Len(a \o b \o c) = Lead(n) + Len(p) + Len(r)
      /\ \A k \in 1 .. Lead(n) + Len(p) + Len(r) :
            (a \o b \o c)[k] = IF k <= Lead(n) + Len(p) THEN (a \o b)[k]
                               ELSE c[k - (Lead(n) + Len(p))]
  <2> DEFINE ab == a \o b
  <2>0. ab \in Seq(Item) /\ Len(ab) = Lead(n) + Len(p)
    BY <1>6
  <2> HIDE DEF ab
  <2>1. /\ ab \o c \in Seq(Item) /\ Len(ab \o c) = Len(ab) + Len(c)
        /\ \A k \in 1 .. Len(ab) + Len(c) :
              (ab \o c)[k] = IF k <= Len(ab) THEN ab[k] ELSE c[k - Len(ab)]
    BY <1>3, <2>0, ItemsConcat
  <2> QED
    BY <1>3, <2>0, <2>1 DEF ab
<1>8. ASSUME NEW k \in 1 .. Lead(n) + Len(p) + Len(r)
      PROVE  (a \o b \o c)[k] = PictureAt(n, p, r, now, k)
  <2>1. CASE k <= Lead(n)
    <3>1. k \in 1 .. Lead(n) /\ k <= Lead(n) + Len(p) /\ k \in 1 .. Lead(n) + Len(p)
      BY <1>5, <2>1
    <3> QED
      BY <1>1, <1>6, <1>7, <2>1, <3>1 DEF PictureAt
  <2>2. CASE ~ (k <= Lead(n)) /\ k <= Lead(n) + Len(p)
    <3>1. k - Lead(n) \in 1 .. Len(p) /\ k \in 1 .. Lead(n) + Len(p)
      BY <1>5, <2>2
    <3> QED
      BY <1>5, <1>6, <1>7, <2>2, <3>1 DEF PictureAt
  <2>3. CASE ~ (k <= Lead(n) + Len(p))
    <3>1. k - (Lead(n) + Len(p)) \in 1 .. Len(r) /\ ~ (k <= Lead(n))
      BY <1>5, <2>3
    <3> QED
      BY <1>5, <1>7, <2>3, <3>1 DEF PictureAt
  <2> QED
    BY <2>1, <2>2, <2>3
<1> QED
  BY <1>4, <1>7, <1>8

LEMMA ItemsEqual ==
    \A s, t \in Seq(Item) :
        Len(s) = Len(t) /\ (\A k \in 1 .. Len(s) : s[k] = t[k]) => s = t
  BY SeqEqual

LEMMA LeadType == \A n : Lead(n) \in {0, 1}
  BY DEF Lead

(* A frame passes.                                                         *)
LEMMA FlightTicks ==
    ASSUME NEW n \in Shots \cup {None}, NEW p \in Seq(Read), NEW r \in Seq(Blit), NEW now \in Nat,
           \A k \in 1 .. Len(p) : p[k].frameId <= now + ReadLatency
    PROVE  LET F == FlightOf(n, p, r, now) IN
           FlightOf(n, p, r, now + 1) = [i \in 1 .. Len(F) |-> Ring!Later(F[i])]
<1> DEFINE F == FlightOf(n, p, r, now)
           G == FlightOf(n, p, r, now + 1)
           H == [i \in 1 .. Len(F) |-> Ring!Later(F[i])]
           N == Lead(n) + Len(p) + Len(r)
<1>1. /\ F \in Seq(Item) /\ Len(F) = N
      /\ \A k \in 1 .. N : F[k] = PictureAt(n, p, r, now, k)
  BY FlightElements
<1>2. /\ G \in Seq(Item) /\ Len(G) = N
      /\ \A k \in 1 .. N : G[k] = PictureAt(n, p, r, now + 1, k)
  <2>1. PICK next \in Nat : next = now + 1
    OBVIOUS
  <2>2. /\ FlightOf(n, p, r, next) \in Seq(Item) /\ Len(FlightOf(n, p, r, next)) = N
        /\ \A k \in 1 .. N : FlightOf(n, p, r, next)[k] = PictureAt(n, p, r, next, k)
    BY FlightElements
  <2> QED
    BY <2>1, <2>2, Zenon
<1>3. Len(p) \in Nat /\ Len(r) \in Nat /\ Lead(n) \in {0, 1} /\ ReadLatency \in Nat \ {0} /\ N \in Nat
  BY LeadType, PresenterAssumption
<1> HIDE DEF F, G
<1>4. ASSUME NEW k \in 1 .. N
      PROVE  G[k] = Ring!Later(F[k])
  <2>1. CASE k <= Lead(n)
    BY <1>1, <1>2, <2>1 DEF PictureAt, Ring!Later
  <2>2. CASE ~ (k <= Lead(n)) /\ k <= Lead(n) + Len(p)
    <3>1. k - Lead(n) \in 1 .. Len(p)
      BY <1>3, <2>2
    <3>2. PICK j \in 1 .. Len(p) : j = k - Lead(n)
      BY <3>1
    <3>3. p[j] \in Read
      OBVIOUS
    <3>4. p[j].frameId \in Nat /\ p[j].frameId <= now + ReadLatency
      BY <3>3, IdModAssumption DEF Read, FrameId
    <3>5. /\ F[k] = [picture |-> p[j].shot, left |-> Left(p[j].frameId, now)]
          /\ G[k] = [picture |-> p[j].shot, left |-> Left(p[j].frameId, now + 1)]
      BY <1>1, <1>2, <2>2, <3>2 DEF PictureAt
    <3>6. Left(p[j].frameId, now + 1) = IF Left(p[j].frameId, now) \in 1 .. ReadLatency
                                       THEN Left(p[j].frameId, now) - 1
                                       ELSE Left(p[j].frameId, now)
      <4>1. PICK id \in Nat : id = p[j].frameId
        BY <3>4
      <4>2. id <= now + ReadLatency /\ ReadLatency \in Nat
        BY <1>3, <3>4, <4>1
      <4>3. Left(id, now + 1) = IF Left(id, now) \in 1 .. ReadLatency
                                  THEN Left(id, now) - 1 ELSE Left(id, now)
        BY <4>2 DEF Left
      <4> QED
        BY <4>1, <4>3
    <3> QED
      BY <3>5, <3>6 DEF Ring!Later
  <2>3. CASE ~ (k <= Lead(n) + Len(p))
    <3>1. ~ (k <= Lead(n))
      BY <1>3, <2>3
    <3>2. /\ F[k] = [picture |-> r[k - (Lead(n) + Len(p))].shot, left |-> ReadLatency + 1]
          /\ G[k] = F[k]
      BY <1>1, <1>2, <2>3, <3>1 DEF PictureAt
    <3>3. ReadLatency + 1 \notin 1 .. ReadLatency
      BY <1>3
    <3> QED
      BY <3>2, <3>3 DEF Ring!Later
  <2> QED
    BY <2>1, <2>2, <2>3
<1>5. ASSUME NEW k \in 1 .. N PROVE Ring!Later(F[k]) \in Item
  <2>1. G \in Seq(Item) /\ k \in 1 .. Len(G)
    BY <1>2
  <2> QED
    BY <1>4, <2>1
<1>6. H \in Seq(Item) /\ Len(H) = N /\ \A k \in 1 .. N : H[k] = G[k]
  <2>1. H = [i \in 1 .. N |-> Ring!Later(F[i])]
    BY <1>1
  <2>2. H \in [1 .. N -> Item]
    BY <1>5, <2>1
  <2>3. \A k \in 1 .. N : H[k] = G[k]
    BY <1>4, <2>1
  <2> HIDE DEF H
  <2> QED
    BY <1>3, <2>2, <2>3
<1> HIDE DEF H
<1>7. G = H
  BY <1>2, <1>6, ItemsEqual
<1> QED
  BY <1>7 DEF F, G, H

(* The first complete read becomes the picture to show.                    *)
LEMMA FlightRetires ==
    ASSUME NEW p \in Seq(Read), NEW r \in Seq(Blit), NEW now \in Nat,
           p # <<>>, p[1].frameId <= now
    PROVE  FlightOf(p[1].shot, Tail(p), r, now) = FlightOf(None, p, r, now)
<1> DEFINE n == p[1].shot
           q == Tail(p)
           F == FlightOf(None, p, r, now)
           G == FlightOf(n, q, r, now)
           N == Len(p) + Len(r)
<1>1. /\ q \in Seq(Read) /\ Len(q) = Len(p) - 1 /\ Len(p) \in Nat \ {0}
      /\ \A k \in 1 .. Len(q) : q[k] = p[k + 1]
      /\ p[1] \in Read
  OBVIOUS
<1>2. n \in Shots /\ p[1].frameId \in Nat /\ n # None
  BY <1>1, PresenterAssumption, IdModAssumption DEF Read, Shots, FrameId, None
<1>3. Lead(None) = 0 /\ Lead(n) = 1 /\ Len(r) \in Nat
  BY <1>2 DEF Lead
<1> HIDE DEF n, q
<1>4. /\ F \in Seq(Item) /\ Len(F) = N
      /\ \A k \in 1 .. N : F[k] = PictureAt(None, p, r, now, k)
  BY <1>1, <1>3, FlightElements
<1>5. /\ G \in Seq(Item) /\ Len(G) = N
      /\ \A k \in 1 .. N : G[k] = PictureAt(n, q, r, now, k)
  <2> DEFINE M == Lead(n) + Len(q) + Len(r)
  <2>1. /\ G \in Seq(Item) /\ Len(G) = M
        /\ \A k \in 1 .. M : G[k] = PictureAt(n, q, r, now, k)
    <3>1. n \in Shots \cup {None} /\ q \in Seq(Read) /\ r \in Seq(Blit) /\ now \in Nat
      BY <1>1, <1>2
    <3> QED
      BY <3>1, FlightElements, Zenon
  <2>2. M = N
    <3>1. Len(p) \in Int /\ Len(r) \in Int /\ Len(q) = Len(p) - 1 /\ Lead(n) = 1
      BY <1>1, <1>3
    <3> QED
      BY <3>1
  <2> HIDE DEF G, M, N
  <2> QED
    BY <2>1, <2>2
<1> HIDE DEF F, G
<1>6. ASSUME NEW k \in 1 .. N
      PROVE  G[k] = F[k]
  <2>1. CASE k = 1
    <3>1. F[1] = [picture |-> p[1].shot, left |-> Left(p[1].frameId, now)]
      BY <1>1, <1>3, <1>4, <2>1 DEF PictureAt
    <3>2. G[1] = [picture |-> n, left |-> 0]
      BY <1>1, <1>3, <1>5, <2>1 DEF PictureAt
    <3>3. Left(p[1].frameId, now) = 0
      BY <1>2 DEF Left
    <3> QED
      BY <2>1, <3>1, <3>2, <3>3 DEF n
  <2>2. CASE k # 1 /\ k <= Len(p)
    <3>1. /\ k - 1 \in 1 .. Len(q) /\ q[k - 1] = p[k] /\ ~ (k <= 0) /\ ~ (k <= 1)
          /\ k <= 1 + Len(q) /\ k - 0 = k
          /\ k <= 0 + Len(p)
      BY <1>1, <2>2
    <3>2. F[k] = [picture |-> p[k].shot, left |-> Left(p[k].frameId, now)]
      BY <1>3, <1>4, <3>1 DEF PictureAt
    <3>3. G[k] = [picture |-> q[k - 1].shot, left |-> Left(q[k - 1].frameId, now)]
      BY <1>3, <1>5, <3>1 DEF PictureAt
    <3> QED
      BY <3>1, <3>2, <3>3
  <2>3. CASE ~ (k <= Len(p))
    <3>1. ~ (k <= 0) /\ ~ (k <= 1) /\ ~ (k <= 1 + Len(q)) /\ 1 + Len(q) = Len(p) /\ 0 + Len(p) = Len(p)
      BY <1>1, <2>3
    <3>2. F[k] = [picture |-> r[k - Len(p)].shot, left |-> ReadLatency + 1]
      BY <1>3, <1>4, <3>1 DEF PictureAt
    <3>3. G[k] = [picture |-> r[k - Len(p)].shot, left |-> ReadLatency + 1]
      BY <1>3, <1>5, <3>1 DEF PictureAt
    <3> QED
      BY <3>2, <3>3
  <2> QED
    BY <2>1, <2>2, <2>3
<1>7. G = F
  BY <1>4, <1>5, <1>6, ItemsEqual
<1> QED
  BY <1>7 DEF F, G, n, q

(* A later complete read takes its place.                                  *)
LEMMA FlightSkips ==
    ASSUME NEW n \in Shots, NEW p \in Seq(Read), NEW r \in Seq(Blit), NEW now \in Nat,
           p # <<>>, p[1].frameId <= now
    PROVE  LET F == FlightOf(n, p, r, now) IN
           /\ Len(F) > 1 /\ F[1].left = 0 /\ F[2].left = 0
           /\ FlightOf(p[1].shot, Tail(p), r, now) = Tail(F)
<1> DEFINE F == FlightOf(n, p, r, now)
           G == FlightOf(None, p, r, now)
<1>1. p[1] \in Read /\ Len(p) \in Nat \ {0} /\ Len(r) \in Nat
  OBVIOUS
<1>2. n # None /\ p[1].frameId \in Nat
  BY <1>1, PresenterAssumption, IdModAssumption DEF Read, Shots, FrameId, None
<1>3. Lead(n) = 1 /\ Lead(None) = 0
  BY <1>2 DEF Lead
<1>4. /\ F \in Seq(Item) /\ Len(F) = 1 + Len(p) + Len(r)
      /\ \A k \in 1 .. 1 + Len(p) + Len(r) : F[k] = PictureAt(n, p, r, now, k)
  BY <1>3, FlightElements
<1>5. /\ G \in Seq(Item) /\ Len(G) = Len(p) + Len(r)
      /\ \A k \in 1 .. Len(p) + Len(r) : G[k] = PictureAt(None, p, r, now, k)
  BY <1>1, <1>3, FlightElements
<1> HIDE DEF F, G
<1>6. F # <<>> /\ Len(F) > 1
  BY <1>1, <1>4
<1>7. /\ Tail(F) \in Seq(Item) /\ Len(Tail(F)) = Len(p) + Len(r)
      /\ \A k \in 1 .. Len(p) + Len(r) : Tail(F)[k] = F[k + 1]
  BY <1>1, <1>4, <1>6
<1>8. F[1].left = 0 /\ F[2].left = 0
  <2>1. F[1] = [picture |-> n, left |-> 0]
    BY <1>1, <1>3, <1>4 DEF PictureAt
  <2>2. F[2] = [picture |-> p[1].shot, left |-> Left(p[1].frameId, now)]
    <3>1. 2 \in 1 .. 1 + Len(p) + Len(r) /\ ~ (2 <= 1) /\ 2 <= 1 + Len(p) /\ 2 - 1 = 1
      BY <1>1
    <3> QED
      BY <1>3, <1>4, <3>1 DEF PictureAt
  <2>3. Left(p[1].frameId, now) = 0
    BY <1>2 DEF Left
  <2> QED
    BY <2>1, <2>2, <2>3
<1>9. ASSUME NEW k \in 1 .. Len(p) + Len(r)
      PROVE  Tail(F)[k] = G[k]
  <2>1. k + 1 \in 1 .. 1 + Len(p) + Len(r) /\ ~ (k + 1 <= 1) /\ ~ (k <= 0)
    BY <1>1
  <2>2. CASE k <= Len(p)
    <3>1. k + 1 <= 1 + Len(p) /\ k + 1 - 1 = k /\ k - 0 = k /\ k <= 0 + Len(p)
      BY <1>1, <2>2
    <3>2. G[k] = [picture |-> p[k].shot, left |-> Left(p[k].frameId, now)]
      BY <1>3, <1>5, <2>1, <3>1 DEF PictureAt
    <3>3. F[k + 1] = [picture |-> p[k].shot, left |-> Left(p[k].frameId, now)]
      BY <1>3, <1>4, <2>1, <3>1 DEF PictureAt
    <3> QED
      BY <1>7, <3>2, <3>3
  <2>3. CASE ~ (k <= Len(p))
    <3>1. /\ ~ (k + 1 <= 1 + Len(p)) /\ ~ (k <= 0 + Len(p))
          /\ k + 1 - (1 + Len(p)) = k - Len(p) /\ k - (0 + Len(p)) = k - Len(p)
      BY <1>1, <2>3
    <3>2. G[k] = [picture |-> r[k - Len(p)].shot, left |-> ReadLatency + 1]
      BY <1>3, <1>5, <2>1, <3>1 DEF PictureAt
    <3>3. F[k + 1] = [picture |-> r[k - Len(p)].shot, left |-> ReadLatency + 1]
      BY <1>3, <1>4, <2>1, <3>1 DEF PictureAt
    <3> QED
      BY <1>7, <3>2, <3>3
  <2> QED
    BY <2>2, <2>3
<1>10. Tail(F) = G
  BY <1>5, <1>7, <1>9, ItemsEqual
<1>11. FlightOf(p[1].shot, Tail(p), r, now) = G
  BY FlightRetires DEF G
<1> QED
  BY <1>6, <1>8, <1>10, <1>11 DEF F

(* The picture to show leaves the ring.                                    *)
LEMMA FlightShows ==
    ASSUME NEW n \in Shots, NEW p \in Seq(Read), NEW r \in Seq(Blit), NEW now \in Nat
    PROVE  LET F == FlightOf(n, p, r, now) IN
           /\ F # <<>> /\ F[1].left = 0 /\ F[1].picture = n
           /\ FlightOf(None, p, r, now) = Tail(F)
<1> DEFINE F == FlightOf(n, p, r, now)
           G == FlightOf(None, p, r, now)
<1>1. Len(p) \in Nat /\ Len(r) \in Nat
  OBVIOUS
<1>2. Lead(n) = 1 /\ Lead(None) = 0
  BY PresenterAssumption DEF Lead, Shots, None
<1>3. /\ F \in Seq(Item) /\ Len(F) = 1 + Len(p) + Len(r)
      /\ \A k \in 1 .. 1 + Len(p) + Len(r) : F[k] = PictureAt(n, p, r, now, k)
  BY <1>2, FlightElements
<1>4. /\ G \in Seq(Item) /\ Len(G) = Len(p) + Len(r)
      /\ \A k \in 1 .. Len(p) + Len(r) : G[k] = PictureAt(None, p, r, now, k)
  BY <1>1, <1>2, FlightElements
<1> HIDE DEF F, G
<1>5. F # <<>> /\ F[1] = [picture |-> n, left |-> 0]
  BY <1>1, <1>2, <1>3 DEF PictureAt
<1>6. /\ Tail(F) \in Seq(Item) /\ Len(Tail(F)) = Len(p) + Len(r)
      /\ \A k \in 1 .. Len(p) + Len(r) : Tail(F)[k] = F[k + 1]
  BY <1>1, <1>3, <1>5
<1>7. ASSUME NEW k \in 1 .. Len(p) + Len(r)
      PROVE  Tail(F)[k] = G[k]
  <2>1. k + 1 \in 1 .. 1 + Len(p) + Len(r) /\ ~ (k + 1 <= 1) /\ ~ (k <= 0)
    BY <1>1
  <2>2. CASE k <= Len(p)
    <3>1. k + 1 <= 1 + Len(p) /\ k + 1 - 1 = k /\ k - 0 = k /\ k <= 0 + Len(p)
      BY <1>1, <2>2
    <3>2. G[k] = [picture |-> p[k].shot, left |-> Left(p[k].frameId, now)]
      BY <1>2, <1>4, <2>1, <3>1 DEF PictureAt
    <3>3. F[k + 1] = [picture |-> p[k].shot, left |-> Left(p[k].frameId, now)]
      BY <1>2, <1>3, <2>1, <3>1 DEF PictureAt
    <3> QED
      BY <1>6, <3>2, <3>3
  <2>3. CASE ~ (k <= Len(p))
    <3>1. /\ ~ (k + 1 <= 1 + Len(p)) /\ ~ (k <= 0 + Len(p))
          /\ k + 1 - (1 + Len(p)) = k - Len(p) /\ k - (0 + Len(p)) = k - Len(p)
      BY <1>1, <2>3
    <3>2. G[k] = [picture |-> r[k - Len(p)].shot, left |-> ReadLatency + 1]
      BY <1>2, <1>4, <2>1, <3>1 DEF PictureAt
    <3>3. F[k + 1] = [picture |-> r[k - Len(p)].shot, left |-> ReadLatency + 1]
      BY <1>2, <1>3, <2>1, <3>1 DEF PictureAt
    <3> QED
      BY <1>6, <3>2, <3>3
  <2> QED
    BY <2>2, <2>3
<1>8. Tail(F) = G
  BY <1>4, <1>6, <1>7, ItemsEqual
<1> QED
  BY <1>5, <1>8 DEF F, G

(* A blit is added at the end.                                             *)
LEMMA FlightTakes ==
    ASSUME NEW p \in Seq(Read), NEW r \in Seq(Blit), NEW now \in Nat, NEW blit \in Blit
    PROVE  FlightOf(None, p, Append(r, blit), now)
             = Append(FlightOf(None, p, r, now), Ring!InFlight(blit.shot, Ring!Unread))
<1> DEFINE s == Append(r, blit)
           x == [picture |-> blit.shot, left |-> ReadLatency + 1]
           F == FlightOf(None, p, r, now)
           G == FlightOf(None, p, s, now)
           N == Len(p) + Len(r)
<1>1. /\ Len(p) \in Nat /\ Len(r) \in Nat
      /\ s \in Seq(Blit) /\ Len(s) = Len(r) + 1 /\ s[Len(r) + 1] = blit
      /\ \A k \in 1 .. Len(r) : s[k] = r[k]
  OBVIOUS
<1>2. Lead(None) = 0 /\ x \in Item
  BY PresenterAssumption DEF Lead, Item, Blit
<1> HIDE DEF s
<1>3. /\ F \in Seq(Item) /\ Len(F) = N
      /\ \A k \in 1 .. N : F[k] = PictureAt(None, p, r, now, k)
  BY <1>1, <1>2, FlightElements
<1>4. /\ G \in Seq(Item) /\ Len(G) = N + 1
      /\ \A k \in 1 .. N + 1 : G[k] = PictureAt(None, p, s, now, k)
  <2>1. 0 + Len(p) + Len(s) = N + 1
    BY <1>1
  <2> QED
    BY <1>1, <1>2, <2>1, FlightElements
<1> HIDE DEF F, G, x
<1>5. /\ Append(F, x) \in Seq(Item) /\ Len(Append(F, x)) = N + 1
      /\ Append(F, x)[N + 1] = x
      /\ \A k \in 1 .. N : Append(F, x)[k] = F[k]
  <2>1. \A S : F \in Seq(S) /\ x \in S =>
            /\ Append(F, x) \in Seq(S) /\ Len(Append(F, x)) = Len(F) + 1
            /\ Append(F, x)[Len(F) + 1] = x
            /\ \A k \in 1 .. Len(F) : Append(F, x)[k] = F[k]
    OBVIOUS
  <2>2. F \in Seq(Item) /\ x \in Item /\ Len(F) = N
    BY <1>2, <1>3 DEF x
  <2> QED
    BY <2>1, <2>2, Zenon
<1>6. ASSUME NEW k \in 1 .. N + 1
      PROVE  G[k] = Append(F, x)[k]
  <2>1. CASE k = N + 1
    <3>1. ~ (k <= 0) /\ ~ (k <= 0 + Len(p)) /\ k - (0 + Len(p)) = Len(r) + 1
      BY <1>1, <2>1
    <3>2. G[k] = [picture |-> s[Len(r) + 1].shot, left |-> ReadLatency + 1]
      BY <1>2, <1>4, <3>1 DEF PictureAt
    <3> QED
      BY <1>1, <1>5, <2>1, <3>2 DEF x
  <2>2. CASE k # N + 1 /\ k <= Len(p)
    <3>1. ~ (k <= 0) /\ k <= 0 + Len(p) /\ k \in 1 .. N
      BY <1>1, <2>2
    <3> QED
      BY <1>2, <1>3, <1>4, <1>5, <3>1 DEF PictureAt
  <2>3. CASE k # N + 1 /\ ~ (k <= Len(p))
    <3>1. /\ ~ (k <= 0) /\ ~ (k <= 0 + Len(p)) /\ k \in 1 .. N
          /\ k - (0 + Len(p)) \in 1 .. Len(r)
      BY <1>1, <2>3
    <3>2. /\ G[k] = [picture |-> s[k - (0 + Len(p))].shot, left |-> ReadLatency + 1]
          /\ F[k] = [picture |-> r[k - (0 + Len(p))].shot, left |-> ReadLatency + 1]
      BY <1>2, <1>3, <1>4, <3>1 DEF PictureAt
    <3> QED
      BY <1>1, <1>5, <3>1, <3>2
  <2> QED
    BY <2>1, <2>2, <2>3
<1>7. G = Append(F, x)
  BY <1>4, <1>5, <1>6, ItemsEqual
<1> QED
  BY <1>7 DEF F, G, s, x, Ring!InFlight, Ring!Unread

(* The oldest blit is the first picture not yet read.                      *)
FirstUnread(F, i) ==
    /\ i \in 1 .. Len(F)
    /\ F[i].left = Ring!Unread
    /\ \A j \in 1 .. i - 1 : F[j].left < Ring!Unread

LEMMA FlightUnread ==
    ASSUME NEW n \in Shots \cup {None}, NEW p \in Seq(Read), NEW r \in Seq(Blit), NEW now \in Nat,
           r # <<>>, \A k \in 1 .. Len(p) : p[k].frameId <= now + ReadLatency
    PROVE  FirstUnread(FlightOf(n, p, r, now), Lead(n) + Len(p) + 1)
<1> DEFINE F == FlightOf(n, p, r, now)
           N == Lead(n) + Len(p) + Len(r)
           i == Lead(n) + Len(p) + 1
<1>1. Len(p) \in Nat /\ Len(r) \in Nat \ {0} /\ Lead(n) \in {0, 1} /\ ReadLatency \in Nat \ {0}
  BY LeadType, PresenterAssumption
<1>2. /\ F \in Seq(Item) /\ Len(F) = N
      /\ \A k \in 1 .. N : F[k] = PictureAt(n, p, r, now, k)
  BY FlightElements
<1> HIDE DEF F
<1>3. i \in 1 .. N /\ ~ (i <= Lead(n)) /\ ~ (i <= Lead(n) + Len(p))
  BY <1>1
<1>4. F[i].left = ReadLatency + 1
  BY <1>2, <1>3 DEF PictureAt
<1>5. ASSUME NEW j \in 1 .. i - 1
      PROVE  F[j].left < ReadLatency + 1
  <2>1. j \in 1 .. N /\ j <= Lead(n) + Len(p)
    BY <1>1
  <2>2. CASE j <= Lead(n)
    BY <1>1, <1>2, <2>1, <2>2 DEF PictureAt
  <2>3. CASE ~ (j <= Lead(n))
    <3>1. j - Lead(n) \in 1 .. Len(p)
      BY <1>1, <2>1, <2>3
    <3>2. PICK m \in 1 .. Len(p) : m = j - Lead(n)
      BY <3>1
    <3>3. p[m] \in Read
      OBVIOUS
    <3>4. p[m].frameId \in Nat /\ p[m].frameId <= now + ReadLatency
      BY <3>3, IdModAssumption DEF Read, FrameId
    <3>5. F[j].left = Left(p[m].frameId, now)
      BY <1>2, <2>1, <2>3, <3>2 DEF PictureAt
    <3> QED
      BY <1>1, <3>4, <3>5 DEF Left
  <2> QED
    BY <2>2, <2>3
<1> QED
  BY <1>2, <1>3, <1>4, <1>5 DEF F, FirstUnread, Ring!Unread

(* It is read: it moves to the reads, and has the latency to wait.         *)
LEMMA FlightReads ==
    ASSUME NEW n \in Shots \cup {None}, NEW p \in Seq(Read), NEW r \in Seq(Blit), NEW now \in Nat,
           r # <<>>, NEW read \in Read, read.shot = r[1].shot, read.frameId = now + ReadLatency
    PROVE  FlightOf(n, Append(p, read), Tail(r), now)
             = [FlightOf(n, p, r, now) EXCEPT ![Lead(n) + Len(p) + 1].left = ReadLatency]
<1> DEFINE F == FlightOf(n, p, r, now)
           q == Append(p, read)
           s == Tail(r)
           G == FlightOf(n, q, s, now)
           L == Lead(n) + Len(p)
           N == L + Len(r)
           H == [F EXCEPT ![L + 1].left = ReadLatency]
<1>1. Len(p) \in Nat /\ Len(r) \in Nat \ {0} /\ Lead(n) \in {0, 1} /\ ReadLatency \in Nat \ {0}
  BY LeadType, PresenterAssumption
<1>2. /\ q \in Seq(Read) /\ Len(q) = Len(p) + 1 /\ q[Len(p) + 1] = read
      /\ \A k \in 1 .. Len(p) : q[k] = p[k]
  OBVIOUS
<1>3. /\ s \in Seq(Blit) /\ Len(s) = Len(r) - 1
      /\ \A k \in 1 .. Len(s) : s[k] = r[k + 1]
  OBVIOUS
<1> HIDE DEF q, s
<1>4. /\ F \in Seq(Item) /\ Len(F) = N
      /\ \A k \in 1 .. N : F[k] = PictureAt(n, p, r, now, k)
  BY FlightElements
<1>5. /\ G \in Seq(Item) /\ Len(G) = N
      /\ \A k \in 1 .. N : G[k] = PictureAt(n, q, s, now, k)
  <2>0. /\ Lead(n) \in Int /\ Len(p) \in Int /\ Len(r) \in Int
        /\ Len(q) = Len(p) + 1 /\ Len(s) = Len(r) - 1
    BY <1>1, <1>2, <1>3
  <2>1. Lead(n) + Len(q) + Len(s) = Lead(n) + Len(p) + Len(r)
    BY <2>0
  <2> DEFINE M == Lead(n) + Len(q) + Len(s)
  <2>2. /\ G \in Seq(Item) /\ Len(G) = M
        /\ \A k \in 1 .. M : G[k] = PictureAt(n, q, s, now, k)
    BY <1>2, <1>3, FlightElements
  <2>3. M = N
    BY <2>1
  <2> HIDE DEF G, M, N
  <2> QED
    BY <2>2, <2>3
<1> HIDE DEF F, G
<1>6. /\ H \in Seq(Item) /\ Len(H) = N
      /\ \A k \in 1 .. N : k # L + 1 => H[k] = F[k]
      /\ H[L + 1] = [F[L + 1] EXCEPT !.left = ReadLatency]
  <2>1. L + 1 \in 1 .. N
    BY <1>1
  <2>2. F \in [1 .. N -> Item]
    BY <1>4
  <2>3. [F[L + 1] EXCEPT !.left = ReadLatency] \in Item
    BY <1>1, <2>1, <2>2 DEF Item
  <2>4. H \in [1 .. N -> Item]
    BY <2>1, <2>2, <2>3
  <2>5. N \in Nat
    BY <1>1
  <2>6. H \in Seq(Item) /\ Len(H) = N
    <3> HIDE DEF H
    <3> QED
      BY <2>4, <2>5
  <2> QED
    BY <2>1, <2>2, <2>6
<1> HIDE DEF H
<1>7. ASSUME NEW k \in 1 .. N
      PROVE  G[k] = H[k]
  <2>1. CASE k = L + 1
    <3>1. /\ ~ (k <= Lead(n)) /\ ~ (k <= Lead(n) + Len(p)) /\ k <= Lead(n) + Len(q)
          /\ k - Lead(n) = Len(p) + 1 /\ k - (Lead(n) + Len(p)) = 1
      BY <1>1, <1>2, <2>1
    <3>2. F[k] = [picture |-> r[1].shot, left |-> ReadLatency + 1]
      BY <1>4, <3>1 DEF PictureAt
    <3>3. G[k] = [picture |-> read.shot, left |-> Left(read.frameId, now)]
      BY <1>2, <1>5, <3>1 DEF PictureAt
    <3>4. Left(read.frameId, now) = ReadLatency
      BY <1>1 DEF Left
    <3> QED
      BY <1>6, <2>1, <3>2, <3>3, <3>4
  <2>2. CASE k <= Lead(n)
    <3>1. k # L + 1
      BY <1>1, <2>2
    <3> QED
      BY <1>4, <1>5, <1>6, <2>2, <3>1 DEF PictureAt
  <2>3. CASE ~ (k <= Lead(n)) /\ k <= L
    <3>1. /\ k # L + 1 /\ k <= Lead(n) + Len(q) /\ k <= Lead(n) + Len(p)
          /\ k - Lead(n) \in 1 .. Len(p)
      BY <1>1, <1>2, <2>3
    <3>2. F[k] = [picture |-> p[k - Lead(n)].shot, left |-> Left(p[k - Lead(n)].frameId, now)]
      BY <1>4, <2>3, <3>1 DEF PictureAt
    <3>3. G[k] = [picture |-> q[k - Lead(n)].shot, left |-> Left(q[k - Lead(n)].frameId, now)]
      BY <1>5, <2>3, <3>1 DEF PictureAt
    <3> QED
      BY <1>2, <1>6, <3>1, <3>2, <3>3
  <2>4. CASE ~ (k <= L) /\ k # L + 1
    <3>1. /\ ~ (k <= Lead(n)) /\ ~ (k <= Lead(n) + Len(p)) /\ ~ (k <= Lead(n) + Len(q))
          /\ k - (Lead(n) + Len(q)) \in 1 .. Len(s)
          /\ k - (Lead(n) + Len(q)) + 1 = k - (Lead(n) + Len(p))
      BY <1>1, <1>2, <1>3, <2>4
    <3>2. F[k] = [picture |-> r[k - (Lead(n) + Len(p))].shot, left |-> ReadLatency + 1]
      BY <1>4, <3>1 DEF PictureAt
    <3>3. G[k] = [picture |-> s[k - (Lead(n) + Len(q))].shot, left |-> ReadLatency + 1]
      BY <1>5, <3>1 DEF PictureAt
    <3>4. s[k - (Lead(n) + Len(q))] = r[k - (Lead(n) + Len(p))]
      BY <1>3, <3>1
    <3> QED
      BY <1>6, <2>4, <3>2, <3>3, <3>4
  <2> QED
    BY <1>1, <2>1, <2>2, <2>3, <2>4
<1>8. G = H
  BY <1>5, <1>6, <1>7, ItemsEqual
<1> QED
  BY <1>8 DEF F, G, H, q, s

(* A sequence without its i-th element.                                    *)
LEMMA ItemsWithout ==
    ASSUME NEW s \in Seq(Item), NEW i \in 1 .. Len(s)
    PROVE  LET w == SubSeq(s, 1, i - 1) \o SubSeq(s, i + 1, Len(s)) IN
           /\ w \in Seq(Item) /\ Len(w) = Len(s) - 1
           /\ \A k \in 1 .. Len(s) - 1 : w[k] = IF k < i THEN s[k] ELSE s[k + 1]
<1> DEFINE a == SubSeq(s, 1, i - 1)
           b == SubSeq(s, i + 1, Len(s))
<1>1. Len(s) \in Nat /\ \A k \in 1 .. Len(s) : s[k] \in Item
  OBVIOUS
<1>2. /\ a \in Seq(Item) /\ Len(a) = i - 1
      /\ \A k \in 1 .. i - 1 : a[k] = s[k]
  <2>1. i - 1 \in Int /\ 1 \in Int /\ \A k \in 1 .. i - 1 : s[k] \in Item
    BY <1>1
  <2>2. /\ a \in Seq(Item) /\ Len(a) = IF 1 <= i - 1 THEN (i - 1) - 1 + 1 ELSE 0
        /\ \A k \in 1 .. (i - 1) - 1 + 1 : a[k] = s[1 + k - 1]
    BY <2>1, SubSeqProperties
  <2> HIDE DEF a
  <2> QED
    BY <1>1, <2>2
<1>3. /\ b \in Seq(Item) /\ Len(b) = Len(s) - i
      /\ \A k \in 1 .. Len(s) - i : b[k] = s[i + k]
  <2>1. i + 1 \in Int /\ Len(s) \in Int /\ \A k \in i + 1 .. Len(s) : s[k] \in Item
    BY <1>1
  <2>2. /\ b \in Seq(Item) /\ Len(b) = IF i + 1 <= Len(s) THEN Len(s) - (i + 1) + 1 ELSE 0
        /\ \A k \in 1 .. Len(s) - (i + 1) + 1 : b[k] = s[i + 1 + k - 1]
    BY <2>1, SubSeqProperties
  <2> HIDE DEF b
  <2> QED
    BY <1>1, <2>2
<1> HIDE DEF a, b
<1>4. /\ a \o b \in Seq(Item) /\ Len(a \o b) = Len(a) + Len(b)
      /\ \A k \in 1 .. Len(a) + Len(b) :
            (a \o b)[k] = IF k <= Len(a) THEN a[k] ELSE b[k - Len(a)]
  BY <1>2, <1>3, ItemsConcat
<1>5. Len(a) + Len(b) = Len(s) - 1
  BY <1>1, <1>2, <1>3
<1>6. ASSUME NEW k \in 1 .. Len(s) - 1
      PROVE  (a \o b)[k] = IF k < i THEN s[k] ELSE s[k + 1]
  <2>1. CASE k < i
    <3>1. k \in 1 .. i - 1 /\ k <= Len(a)
      BY <1>1, <1>2, <2>1
    <3> QED
      BY <1>2, <1>4, <1>5, <2>1, <3>1
  <2>2. CASE ~ (k < i)
    <3>1. k - (i - 1) \in 1 .. Len(s) - i /\ ~ (k <= Len(a)) /\ i + (k - (i - 1)) = k + 1
      BY <1>1, <1>2, <2>2
    <3>2. k - Len(a) = k - (i - 1)
      BY <1>2
    <3>3. (a \o b)[k] = b[k - (i - 1)]
      BY <1>4, <1>5, <3>1, <3>2
    <3>4. b[k - (i - 1)] = s[k + 1]
      BY <1>3, <3>1
    <3> QED
      BY <2>2, <3>3, <3>4
  <2> QED
    BY <2>1, <2>2
<1> QED
  BY <1>4, <1>5, <1>6 DEF a, b

(* The read of the oldest blit fails: it leaves the ring.                  *)
LEMMA FlightDrops ==
    ASSUME NEW n \in Shots \cup {None}, NEW p \in Seq(Read), NEW r \in Seq(Blit), NEW now \in Nat,
           r # <<>>
    PROVE  LET F == FlightOf(n, p, r, now)
               i == Lead(n) + Len(p) + 1 IN
           FlightOf(n, p, Tail(r), now) = SubSeq(F, 1, i - 1) \o SubSeq(F, i + 1, Len(F))
<1> DEFINE F == FlightOf(n, p, r, now)
           s == Tail(r)
           G == FlightOf(n, p, s, now)
           L == Lead(n) + Len(p)
           N == L + Len(r)
           i == L + 1
           W == SubSeq(F, 1, i - 1) \o SubSeq(F, i + 1, Len(F))
<1>1. Len(p) \in Nat /\ Len(r) \in Nat \ {0} /\ Lead(n) \in {0, 1} /\ L \in Nat
  BY LeadType
<1>2. /\ s \in Seq(Blit) /\ Len(s) = Len(r) - 1
      /\ \A k \in 1 .. Len(s) : s[k] = r[k + 1]
  OBVIOUS
<1> HIDE DEF s
<1>3. /\ F \in Seq(Item) /\ Len(F) = N
      /\ \A k \in 1 .. N : F[k] = PictureAt(n, p, r, now, k)
  BY FlightElements
<1>4. /\ G \in Seq(Item) /\ Len(G) = L + Len(s)
      /\ \A k \in 1 .. L + Len(s) : G[k] = PictureAt(n, p, s, now, k)
  BY <1>2, FlightElements
<1>5. L + Len(s) = N - 1 /\ i \in 1 .. N
  <2>1. Len(p) \in Int /\ Len(r) \in Int /\ Lead(n) \in Int /\ Len(s) = Len(r) - 1 /\ Len(r) >= 1
        /\ L >= 0
    BY <1>1, <1>2
  <2> QED
    BY <2>1
<1> HIDE DEF F, G
<1>6. /\ W \in Seq(Item) /\ Len(W) = N - 1
      /\ \A k \in 1 .. N - 1 : W[k] = IF k < i THEN F[k] ELSE F[k + 1]
  <2>1. F \in Seq(Item) /\ i \in 1 .. Len(F)
    BY <1>3, <1>5
  <2>2. /\ W \in Seq(Item) /\ Len(W) = Len(F) - 1
        /\ \A k \in 1 .. Len(F) - 1 : W[k] = IF k < i THEN F[k] ELSE F[k + 1]
    BY <2>1, ItemsWithout
  <2>3. Len(F) = N
    BY <1>3
  <2> HIDE DEF W, N, i
  <2> QED
    BY <2>2, <2>3
<1> HIDE DEF W
<1>7. ASSUME NEW k \in 1 .. N - 1
      PROVE  G[k] = W[k]
  <2>0. k \in 1 .. N /\ k + 1 \in 1 .. N /\ k \in 1 .. L + Len(s)
    BY <1>1, <1>5
  <2>1. CASE k <= L
    <3>1. F[k] = G[k]
      BY <1>3, <1>4, <2>0, <2>1 DEF PictureAt
    <3> QED
      BY <1>1, <1>6, <2>1, <3>1
  <2>2. CASE ~ (k <= L)
    <3>0. /\ k \in Int /\ L \in Int /\ Len(s) \in Int /\ Lead(n) \in Int /\ Lead(n) <= L
          /\ 1 <= k /\ k <= L + Len(s) /\ i = L + 1
      <4>1. Lead(n) \in Int /\ Len(p) \in Nat /\ Len(s) \in Int
        BY <1>1, <1>2
      <4>2. L \in Int /\ Lead(n) <= L
        BY <4>1
      <4>3. k \in Int /\ 1 <= k /\ k <= L + Len(s)
        <5> HIDE DEF L
        <5> QED
          BY <2>0, <4>1, <4>2
      <4> QED
        BY <4>1, <4>2, <4>3
    <3>1. /\ ~ (k <= Lead(n)) /\ ~ (k + 1 <= Lead(n)) /\ ~ (k + 1 <= L) /\ ~ (k < i)
          /\ k - L \in 1 .. Len(s) /\ k + 1 - L = k - L + 1
      <4> HIDE DEF L, i
      <4> QED
        BY <2>2, <3>0
    <3>2. PICK m \in 1 .. N : m = k + 1
      BY <2>0
    <3>3. F[m] = [picture |-> r[m - L].shot, left |-> ReadLatency + 1]
      BY <1>3, <3>1, <3>2 DEF PictureAt
    <3>4. G[k] = [picture |-> s[k - L].shot, left |-> ReadLatency + 1]
      BY <1>4, <2>0, <2>2, <3>1 DEF PictureAt
    <3>5. k - L + 1 = m - L
      BY <3>0, <3>2
    <3>6. s[k - L] = r[m - L]
      BY <1>2, <3>1, <3>5
    <3> QED
      BY <1>6, <3>1, <3>2, <3>3, <3>4, <3>6
  <2> QED
    BY <2>1, <2>2
<1>8. G = W
  <2>1. Len(G) = N - 1
    BY <1>4, <1>5
  <2> HIDE DEF N
  <2> QED
    BY <1>4, <1>6, <1>7, <2>1, ItemsEqual
<1> QED
  BY <1>8 DEF F, G, s, W

(* A free texture is one that no picture in flight holds, so there is room *)
(* for one more.                                                           *)
LEMMA RoomForBlit ==
    ASSUME TypeOK, DistinctTextures, InUseIsHeld, NEW i \in Slots, ~readbackInUse[i]
    PROVE  Len(pendingReads) + Len(readyForRead) < ReadbackCount
<1> DEFINE P == Len(pendingReads)
           R == Len(readyForRead)
           S == 1 .. P + R
           f == [k \in S |-> IF k <= P THEN pendingReads[k].tex ELSE readyForRead[k - P].tex]
           T == Slots \ {i}
<1>1. /\ P \in Nat /\ R \in Nat /\ ReadbackCount \in Nat \ {0}
      /\ \A k \in 1 .. P : pendingReads[k].tex \in Slots
      /\ \A k \in 1 .. R : readyForRead[k].tex \in Slots
  BY RecordTypes, PresenterAssumption
<1>2. ASSUME NEW k \in S
      PROVE  f[k] \in T
  <2>1. CASE k <= P
    <3>1. k \in 1 .. P
      BY <1>1, <2>1
    <3> QED
      BY <1>1, <2>1, <3>1 DEF InUseIsHeld
  <2>2. CASE ~ (k <= P)
    <3>1. k - P \in 1 .. R
      BY <1>1, <2>2
    <3> QED
      BY <1>1, <2>2, <3>1 DEF InUseIsHeld
  <2> QED
    BY <2>1, <2>2
<1>3. ASSUME NEW j \in S, NEW k \in S, f[j] = f[k]
      PROVE  j = k
  <2>1. CASE j <= P /\ k <= P
    <3>1. j \in 1 .. P /\ k \in 1 .. P
      BY <1>1, <2>1
    <3> QED
      BY <1>3, <2>1, <3>1 DEF DistinctTextures
  <2>2. CASE ~ (j <= P) /\ ~ (k <= P)
    <3>1. j - P \in 1 .. R /\ k - P \in 1 .. R
      BY <1>1, <2>2
    <3>2. j - P = k - P
      BY <1>3, <2>2, <3>1 DEF DistinctTextures
    <3> QED
      BY <1>1, <3>2
  <2>3. CASE j <= P /\ ~ (k <= P)
    <3>1. j \in 1 .. P /\ k - P \in 1 .. R
      BY <1>1, <2>3
    <3> QED
      BY <1>3, <2>3, <3>1 DEF DistinctTextures
  <2>4. CASE ~ (j <= P) /\ k <= P
    <3>1. k \in 1 .. P /\ j - P \in 1 .. R
      BY <1>1, <2>4
    <3> QED
      BY <1>3, <2>4, <3>1 DEF DistinctTextures
  <2> QED
    BY <2>1, <2>2, <2>3, <2>4
<1>4. IsFiniteSet(S) /\ Cardinality(S) = P + R
  <2>1. 1 \in Int /\ P + R \in Int /\ (1 > P + R => P + R = 0) /\ P + R - 1 + 1 = P + R
    BY <1>1
  <2>2. IsFiniteSet(1 .. P + R) /\ Cardinality(1 .. P + R) = IF 1 > P + R THEN 0 ELSE P + R - 1 + 1
    BY <2>1, FS_Interval
  <2> QED
    BY <2>1, <2>2
<1>5. IsFiniteSet(Slots) /\ Cardinality(Slots) = ReadbackCount
  <2>1. 0 \in Int /\ ReadbackCount - 1 \in Int /\ ~ (0 > ReadbackCount - 1)
        /\ ReadbackCount - 1 - 0 + 1 = ReadbackCount
    BY <1>1
  <2>2. /\ IsFiniteSet(0 .. ReadbackCount - 1)
        /\ Cardinality(0 .. ReadbackCount - 1)
             = IF 0 > ReadbackCount - 1 THEN 0 ELSE ReadbackCount - 1 - 0 + 1
    BY <2>1, FS_Interval
  <2> QED
    BY <2>1, <2>2 DEF Slots
<1>6. IsFiniteSet(T) /\ Cardinality(T) = ReadbackCount - 1
  BY <1>1, <1>5, FS_RemoveElement
<1>7. f \in Injection(S, T)
  <2> f \in [S -> T]
    BY <1>2
  <2> HIDE DEF f, S, T
  <2> QED
    BY <1>3, Fun_IsInj
<1>8. Cardinality(S) <= Cardinality(T)
  BY <1>6, <1>7, FS_Injection
<1> QED
  BY <1>1, <1>4, <1>6, <1>8
-----------------------------------------------------------------------------
LEMMA FlightNow == surface # NoSurface => Flight = FlightOf(newest, pendingReads, readyForRead, frame)
  BY DEF Flight, PicturesInFlight, FramesLeft, FlightOf, Left

LEMMA FlightNext ==
    surface' # NoSurface => Flight' = FlightOf(newest', pendingReads', readyForRead', frame')
  BY DEF Flight, PicturesInFlight, FramesLeft, FlightOf, Left

LEMMA FlightGone == surface' = NoSurface => Flight' = <<>>
  BY DEF Flight

LEMMA FlightEmpty == \A now : FlightOf(None, <<>>, <<>>, now) = <<>>
<1> TAKE now
<1>1. <<>> \in Seq(Read) /\ <<>> \in Seq(Blit) /\ Len(<<>>) = 0
  OBVIOUS
<1>2. /\ [k \in 1 .. 0 |-> [picture |-> <<>>[k].shot, left |-> Left(<<>>[k].frameId, now)]] = <<>>
      /\ [k \in 1 .. 0 |-> [picture |-> <<>>[k].shot, left |-> ReadLatency + 1]] = <<>>
  OBVIOUS
<1> QED
  BY <1>1, <1>2 DEF FlightOf

LEMMA RingInit == Init => Ring!Init
  BY DEF Init, Ring!Init, Ring!Blank, Flight, Garbage

(* What a step of the present path does to the pictures in flight.         *)
LEMMA RingSame ==
    ASSUME UNCHANGED <<surface, newest, pendingReads, readyForRead, frame>>, fbo'.shot = fbo.shot
    PROVE  UNCHANGED Ring!ringVars
  BY DEF Ring!ringVars, Flight, PicturesInFlight, FramesLeft

LEMMA RingTick ==
    ASSUME TypeOK, MatchInv,
           UNCHANGED <<surface, newest, pendingReads, readyForRead, fbo>>, frame' = frame + 1
    PROVE  [Ring!Next]_Ring!ringVars
<1>1. CASE surface = NoSurface
  BY <1>1 DEF Flight, Ring!ringVars
<1>2. CASE surface # NoSurface
  <2>1. /\ newest \in Shots \cup {None} /\ pendingReads \in Seq(Read) /\ readyForRead \in Seq(Blit)
        /\ frame \in Nat
        /\ \A k \in 1 .. Len(pendingReads) : pendingReads[k].frameId <= frame + ReadLatency
    BY DEF TypeOK, Shots, MatchInv
  <2>2. FlightOf(newest, pendingReads, readyForRead, frame + 1)
          = [i \in 1 .. Len(Flight) |-> Ring!Later(Flight[i])]
    <3> DEFINE F == FlightOf(newest, pendingReads, readyForRead, frame)
    <3>1. FlightOf(newest, pendingReads, readyForRead, frame + 1)
            = [i \in 1 .. Len(F) |-> Ring!Later(F[i])]
      BY <2>1, FlightTicks
    <3>2. F = Flight
      BY <1>2, FlightNow
    <3> HIDE DEF F
    <3> QED
      BY <3>1, <3>2, Zenon
  <2>3. Flight' = FlightOf(newest, pendingReads, readyForRead, frame + 1)
    BY <1>2, FlightNext
  <2>4. Ring!Tick
    BY <2>2, <2>3 DEF Ring!Tick
  <2> QED
    BY <2>4 DEF Ring!Next
<1> QED
  BY <1>1, <1>2

LEMMA RingRetire ==
    ASSUME TypeOK, RingInv, MatchInv, RetireRead
    PROVE  [Ring!Next]_Ring!ringVars
<1> DEFINE head == pendingReads[1]
<1>1. /\ newest \in Shots \cup {None} /\ pendingReads \in Seq(Read) /\ readyForRead \in Seq(Blit)
      /\ frame \in Nat /\ pendingReads # <<>> /\ lastFrameId # NoFrame
      /\ head.frameId <= lastFrameId
  BY RetireQueues DEF TypeOK, Shots, RetireRead, Completed
<1>2. 1 \in 1 .. Len(pendingReads)
  BY RetireQueues
<1>3. surface = fbo.size /\ surface # NoSurface /\ head.size = surface
  BY <1>2, PresenterAssumption DEF RingInv, SurfaceInv, Rendering, RetireRead, MatchInv, TypeOK
<1>4. head.frameId <= frame
  <2>1. lastFrameId <= frame /\ lastFrameId \in Int
    BY <1>1, IdModAssumption DEF RingInv, FrameInv, TypeOK, FrameId
  <2>2. head.frameId \in Int
    BY <1>2, RecordTypes
  <2> QED
    BY <1>1, <2>1, <2>2
<1>5. /\ newest' = head.shot /\ pendingReads' = Tail(pendingReads)
      /\ UNCHANGED <<surface, readyForRead, frame, fbo>>
  BY <1>3, RetireQueues DEF RetireRead, device
<1>6. Flight' = FlightOf(head.shot, Tail(pendingReads), readyForRead, frame)
  BY <1>3, <1>5, FlightNext
<1>7. CASE newest = None
  <2>1. Flight' = Flight
    BY <1>1, <1>3, <1>4, <1>6, <1>7, FlightNow, FlightRetires
  <2> QED
    BY <1>5, <2>1 DEF Ring!ringVars
<1>8. CASE newest # None
  <2>1. newest \in Shots
    BY <1>1, <1>8
  <2>2. /\ Len(Flight) > 1 /\ Flight[1].left = 0 /\ Flight[2].left = 0
        /\ Flight' = Tail(Flight)
    BY <1>1, <1>3, <1>4, <1>6, <2>1, FlightNow, FlightSkips
  <2>3. Ring!Skip
    BY <1>5, <2>2 DEF Ring!Skip
  <2> QED
    BY <2>3 DEF Ring!Next
<1> QED
  BY <1>7, <1>8

LEMMA RingUpload ==
    ASSUME TypeOK, RingInv, Upload \/ FinishRender
    PROVE  [Ring!Next]_Ring!ringVars
<1>1. /\ newest \in Shots \cup {None} /\ pendingReads \in Seq(Read) /\ readyForRead \in Seq(Blit)
      /\ frame \in Nat
  BY DEF TypeOK, Shots
<1>2. surface # NoSurface
  BY PresenterAssumption DEF RingInv, SurfaceInv, Rendering, Upload, FinishRender, TypeOK
<1>3. /\ UNCHANGED <<surface, pendingReads, readyForRead, frame>>
      /\ newest' = None /\ fbo'.shot = IF newest = None THEN fbo.shot ELSE newest
  BY UploadShot DEF Upload, FinishRender, device, ring, UploadNewest
<1>4. CASE newest = None
  BY <1>3, <1>4, RingSame
<1>5. CASE newest # None
  <2>1. newest \in Shots
    BY <1>1, <1>5
  <2>2. /\ Flight # <<>> /\ Flight[1].left = 0 /\ Flight[1].picture = newest
        /\ Flight' = Tail(Flight)
    BY <1>1, <1>2, <1>3, <2>1, FlightNow, FlightNext, FlightShows
  <2>3. Ring!Show
    BY <1>3, <1>5, <2>2 DEF Ring!Show
  <2> QED
    BY <2>3 DEF Ring!Next
<1> QED
  BY <1>4, <1>5

LEMMA RingSchedule ==
    ASSUME NoWrap, TypeOK, RingInv, MatchInv, NEW ok \in BOOLEAN, ScheduleRead(ok)
    PROVE  [Ring!Next]_Ring!ringVars
<1> DEFINE record == readyForRead[1]
           id     == IdOf(frame + ReadLatency)
           read   == [shot |-> record.shot, frameId |-> id, size |-> record.size,
                      tex |-> record.tex]
           i      == Lead(newest) + Len(pendingReads) + 1
<1>1. /\ newest \in Shots \cup {None} /\ pendingReads \in Seq(Read) /\ readyForRead \in Seq(Blit)
      /\ frame \in Nat /\ readyForRead # <<>> /\ Head(readyForRead) = record
      /\ \A k \in 1 .. Len(pendingReads) : pendingReads[k].frameId <= frame + ReadLatency
  BY HeadType DEF TypeOK, Shots, ScheduleRead, Readable, MatchInv
<1>2. surface # NoSurface
  BY PresenterAssumption DEF RingInv, SurfaceInv, Rendering, ScheduleRead, TypeOK
<1>3. id = frame + ReadLatency /\ id \in FrameId
  <2>1. MaxFrame \in Nat /\ frame <= MaxFrame /\ ReadLatency \in Nat
    BY PresenterAssumption DEF TypeOK, Shots
  <2>2. frame + ReadLatency \in Nat /\ frame + ReadLatency <= MaxFrame + ReadLatency
    BY <1>1, <2>1
  <2> QED
    BY IdIsFrame, <2>2
<1>4. /\ readyForRead' = Tail(readyForRead) /\ UNCHANGED <<surface, newest, frame, fbo>>
      /\ pendingReads' = pendingReads \/ pendingReads' = Append(pendingReads, read)
  BY <1>1, Zenon DEF ScheduleRead, PushBack
<1>5. read \in Read /\ read.shot = record.shot /\ read.frameId = frame + ReadLatency
  <2>1. record \in Blit
    BY <1>1
  <2> QED
    BY <1>3, <2>1 DEF Blit, Read
<1> HIDE DEF read
<1>6. FirstUnread(Flight, i)
  BY <1>1, <1>2, FlightNow, FlightUnread
<1>7. \/ Flight' = [Flight EXCEPT ![i].left = ReadLatency]
      \/ Flight' = SubSeq(Flight, 1, i - 1) \o SubSeq(Flight, i + 1, Len(Flight))
  <2>1. CASE pendingReads' = pendingReads
    <3>1. Flight' = FlightOf(newest, pendingReads, Tail(readyForRead), frame)
      BY <1>2, <1>4, <2>1, FlightNext
    <3> QED
      BY <1>1, <1>2, <3>1, FlightNow, FlightDrops
  <2>2. CASE pendingReads' = Append(pendingReads, read)
    <3>1. Flight' = FlightOf(newest, Append(pendingReads, read), Tail(readyForRead), frame)
      BY <1>2, <1>4, <2>2, FlightNext
    <3> DEFINE F == FlightOf(newest, pendingReads, readyForRead, frame)
    <3>2. FlightOf(newest, Append(pendingReads, read), Tail(readyForRead), frame)
            = [F EXCEPT ![i].left = ReadLatency]
      BY <1>1, <1>5, FlightReads
    <3>3. F = Flight
      BY <1>2, FlightNow
    <3> HIDE DEF F
    <3> QED
      BY <3>1, <3>2, <3>3
  <2> QED
    BY <1>4, <2>1, <2>2
<1> HIDE DEF i
<1>8. Ring!StartRead
  BY <1>4, <1>6, <1>7 DEF Ring!StartRead, FirstUnread
<1> QED
  BY <1>8 DEF Ring!Next

LEMMA RingTake ==
    ASSUME TypeOK, RingInv, NEW i \in Slots, BlitForReadback(i)
    PROVE  [Ring!Next]_Ring!ringVars
<1> DEFINE blit == [shot |-> frame, index |-> frameIndex, size |-> fbo.size, tex |-> i]
           F    == FlightOf(None, pendingReads, readyForRead, frame)
           N    == Len(pendingReads) + Len(readyForRead)
<1>1. /\ pendingReads \in Seq(Read) /\ readyForRead \in Seq(Blit)
      /\ frame \in Nat /\ frame \in Shots /\ blit \in Blit
      /\ fbo \in [size : Sizes, shot : Int] /\ ~readbackInUse[i]
  BY PresenterAssumption DEF TypeOK, Shots, Blit, BlitForReadback, IsNextFree, Cleared, Garbage
<1>2. surface # NoSurface /\ newest = None
  BY PresenterAssumption DEF RingInv, SurfaceInv, Rendering, BlitForReadback, TypeOK
<1>3. /\ readyForRead' = Append(readyForRead, blit)
      /\ UNCHANGED <<surface, newest, pendingReads, frame, fbo>>
  BY DEF BlitForReadback, device
<1>4. Flight = F
  BY <1>2, FlightNow
<1>5. Flight' = Append(F, Ring!InFlight(frame, Ring!Unread))
  <2>1. Flight' = FlightOf(None, pendingReads, Append(readyForRead, blit), frame)
    BY <1>2, <1>3, FlightNext
  <2>2. FlightOf(None, pendingReads, Append(readyForRead, blit), frame)
          = Append(F, Ring!InFlight(blit.shot, Ring!Unread))
    <3> HIDE DEF blit
    <3> QED
      BY <1>1, FlightTakes
  <2> QED
    BY <2>1, <2>2
<1> HIDE DEF blit
<1>6. /\ F \in Seq(Item) /\ Len(F) = N
      /\ \A k \in 1 .. N : F[k] = PictureAt(None, pendingReads, readyForRead, frame, k)
  <2>1. Lead(None) = 0 /\ 0 + Len(pendingReads) + Len(readyForRead) = N
    BY <1>1 DEF Lead
  <2>2. /\ F \in Seq(Item) /\ Len(F) = Lead(None) + Len(pendingReads) + Len(readyForRead)
        /\ \A k \in 1 .. Lead(None) + Len(pendingReads) + Len(readyForRead) :
              F[k] = PictureAt(None, pendingReads, readyForRead, frame, k)
    BY <1>1, FlightElements
  <2> HIDE DEF F, N
  <2> QED
    BY <2>1, <2>2
<1>7. Len(Flight) < ReadbackCount
  <2>1. N < ReadbackCount
    BY <1>1, <1>2, RoomForBlit DEF RingInv, SlotOwnership
  <2> QED
    BY <1>4, <1>6, <2>1
<1>8. /\ \A k \in 1 .. Len(pendingReads) : pendingReads[k].shot < frame
      /\ \A k \in 1 .. Len(readyForRead) : readyForRead[k].shot < frame
      /\ fbo.shot < frame
  BY DEF RingInv, FrameInv, BlitForReadback
<1> HIDE DEF F
<1>9. ASSUME NEW k \in 1 .. N
      PROVE  frame > F[k].picture
  <2>1. Lead(None) = 0 /\ Len(pendingReads) \in Nat /\ Len(readyForRead) \in Nat
    BY <1>1 DEF Lead
  <2>2. CASE k <= Len(pendingReads)
    <3>1. k \in 1 .. Len(pendingReads) /\ ~ (k <= 0) /\ k <= 0 + Len(pendingReads) /\ k - 0 = k
      BY <2>1, <2>2
    <3>2. F[k].picture = pendingReads[k].shot
      BY <1>6, <2>1, <3>1 DEF PictureAt
    <3>3. pendingReads[k].shot \in Int
      BY <3>1, RecordTypes
    <3> QED
      BY <1>1, <1>8, <3>1, <3>2, <3>3
  <2>3. CASE ~ (k <= Len(pendingReads))
    <3>1. /\ ~ (k <= 0) /\ ~ (k <= 0 + Len(pendingReads))
          /\ k - (0 + Len(pendingReads)) \in 1 .. Len(readyForRead)
      BY <2>1, <2>3
    <3>2. PICK m \in 1 .. Len(readyForRead) : m = k - (0 + Len(pendingReads))
      BY <3>1
    <3>3. F[k].picture = readyForRead[m].shot
      BY <1>6, <2>1, <3>1, <3>2 DEF PictureAt
    <3>4. readyForRead[m].shot \in Int
      BY <3>2, RecordTypes
    <3> QED
      BY <1>1, <1>8, <3>2, <3>3, <3>4
  <2> QED
    BY <2>2, <2>3
<1>10. Ring!Newer(frame)
  BY <1>1, <1>4, <1>6, <1>8, <1>9 DEF Ring!Newer
<1>11. Ring!Take(frame)
  BY <1>3, <1>4, <1>5, <1>7, <1>10 DEF Ring!Take
<1> QED
  BY <1>1, <1>11 DEF Ring!Next

LEMMA RingSteps ==
    NoWrap /\ TypeOK /\ RingInv /\ MatchInv /\ [Next]_vars => [Ring!Next]_Ring!ringVars
<1> SUFFICES ASSUME NoWrap, TypeOK, RingInv, MatchInv, [Next]_vars
             PROVE  [Ring!Next]_Ring!ringVars
  OBVIOUS
<1> USE DEF device, ring
<1>0. SurfaceInv /\ NoSurface \notin Sizes /\ fbo.size \in Sizes
  BY PresenterAssumption DEF RingInv, TypeOK
<1>1. ASSUME Flight' = <<>>, fbo'.shot \in {fbo.shot, Cleared}
      PROVE  [Ring!Next]_Ring!ringVars
  <2>1. Ring!Discard
    BY <1>1 DEF Ring!Discard, Ring!Blank, Cleared
  <2> QED
    BY <2>1 DEF Ring!Next
<1>2. ASSUME NEW b \in BOOLEAN, BindTarget(b), ResetReadbackState, newest' = newest, newest = None
      PROVE  [Ring!Next]_Ring!ringVars
  <2>1. Flight' = <<>>
    BY <1>2, FlightNext, FlightGone, FlightEmpty DEF ResetReadbackState
  <2> QED
    BY <1>1, <1>2, <2>1, BindShot
<1>3. ASSUME NEW sz \in Sizes, BeginRender(sz) PROVE [Ring!Next]_Ring!ringVars
  <2>1. UNCHANGED <<surface, newest, pendingReads, readyForRead, frame>>
    BY <1>3 DEF BeginRender
  <2>2. CASE sz = fbo.size
    BY <1>3, <2>1, <2>2, RingSame DEF BeginRender
  <2>3. CASE sz # fbo.size
    <3>1. Flight' = Flight
      BY <2>1 DEF Flight, PicturesInFlight, FramesLeft
    <3>2. fbo'.shot = -2
      BY <1>3, <2>3 DEF BeginRender, Garbage
    <3>3. Ring!NewTarget
      BY <3>1, <3>2 DEF Ring!NewTarget
    <3> QED
      BY <3>3 DEF Ring!Next
  <2> QED
    BY <2>2, <2>3
<1>4. ASSUME NEW ok \in BOOLEAN, AcquireDevice(ok) PROVE [Ring!Next]_Ring!ringVars
  BY <1>4, RingSame DEF AcquireDevice, GiveUp
<1>5. ASSUME NEW ok \in BOOLEAN, CreateSurface(ok) PROVE [Ring!Next]_Ring!ringVars
  <2>1. CASE ok
    <3>1. newest = None
      BY <1>0, <1>5 DEF SurfaceInv, CreateSurface
    <3> QED
      BY <1>2, <1>5, <2>1, <3>1 DEF CreateSurface
  <2>2. CASE ~ok
    BY <1>5, <2>2, RingSame DEF CreateSurface, GiveUp
  <2> QED
    BY <2>1, <2>2
<1>6. CASE KeepSurface
  <2>1. fbo' = fbo
    <3>1. lastSize = fbo.size
      BY <1>0, <1>6 DEF KeepSurface, MatchInv
    <3> QED
      BY <1>6, <3>1 DEF KeepSurface, BindTarget
  <2> QED
    BY <1>6, <2>1, RingSame DEF KeepSurface
<1>7. ASSUME NEW ok \in BOOLEAN, ResizeSurface(ok) PROVE [Ring!Next]_Ring!ringVars
  <2>1. CASE ok
    <3>1. newest = None
      BY <1>0, <1>7 DEF SurfaceInv, ResizeSurface
    <3> QED
      BY <1>2, <1>7, <2>1, <3>1 DEF ResizeSurface
  <2>2. CASE ~ok
    BY <1>1, <1>7, <2>2, FlightGone DEF ResizeSurface, GiveUp
  <2> QED
    BY <2>1, <2>2
<1>8. CASE RetireRead
  BY <1>8, RingRetire
<1>9. CASE Upload \/ FinishRender
  BY <1>9, RingUpload
<1>10. ASSUME NEW ok \in BOOLEAN, ScheduleRead(ok) PROVE [Ring!Next]_Ring!ringVars
  BY <1>10, RingSchedule
<1>11. ASSUME NEW i \in Slots, BlitForReadback(i) PROVE [Ring!Next]_Ring!ringVars
  BY <1>11, RingTake
<1>12. CASE BeginResize \/ RenderScene \/ SkipBlit \/ BeginTeardown
  BY <1>12, RingSame DEF BeginResize, RenderScene, SkipBlit, BeginTeardown
<1>13. CASE DrainFrame \/ EndFrame \/ OtherViewportFrame
  BY <1>13, RingTick DEF DrainFrame, EndFrame, OtherViewportFrame, DeviceEndFrame
<1>14. CASE Release
  <2>1. surface' = NoSurface /\ fbo' = fbo
    BY <1>0, <1>14 DEF Release, SurfaceInv
  <2> QED
    BY <1>1, <2>1, FlightGone
<1>15. CASE UNCHANGED vars
  BY <1>15, RingSame DEF vars
<1> QED
  BY <1>3, <1>4, <1>5, <1>6, <1>7, <1>8, <1>9, <1>10, <1>11, <1>12, <1>13, <1>14, <1>15
     DEF Next, EnsureSurface

(* The present path is a bounded queue of pictures: each is shown once its *)
(* read is complete, in the order taken, and none is invented, whatever    *)
(* resizes, failures and other viewports' frames come between.             *)
THEOREM PresenterIsFrameRing ==
    ASSUME NoWrap
    PROVE  Spec => ImplementsFrameRing
<1>1. Init => TypeOK /\ RingInv /\ MatchInv
  BY InitType, InitRing, InitMatch
<1>2. TypeOK /\ RingInv /\ MatchInv /\ [Next]_vars => (TypeOK /\ RingInv /\ MatchInv)'
  BY StepType, RingStep, MatchStep
<1>3. TypeOK /\ RingInv /\ MatchInv /\ [Next]_vars => [Ring!Next]_Ring!ringVars
  BY RingSteps
<1>4. Init => Ring!Init
  BY RingInit
<1> QED
  BY <1>1, <1>2, <1>3, <1>4, PTL DEF Spec, ImplementsFrameRing, Ring!Spec
-----------------------------------------------------------------------------
(***************************************************************************)
(* RenderLoop: the ring has room, for every depth above the latency.       *)
(***************************************************************************)

Flights(N) == Seq([picture : Picture, left : N])

(* One read begins each frame, so no two pictures wait for as many.        *)
Apart(q) == \A i, j \in 1 .. Len(q) : q[i].left = q[j].left => i = j

(* What a picture in flight may wait for between two frames.               *)
Waits == (1 .. Latency - 1) \cup {Unread}

(* The camera was moved by the GUI, and at most once by the auto-fit of    *)
(* each source and edit, but for the one whose fit is still to come.       *)
FitsAreCounted ==
    /\ loaded <= source /\ edited <= edits
    /\ autoFit => loaded + edited >= 1
    /\ view <= MaxEdits + loaded + edited - (IF autoFit THEN 1 ELSE 0)

FlightApart == flight \in Flights(Waits) /\ Apart(flight)

RoomInv == LoopTypeOK /\ FitsAreCounted /\ FlightApart

LEMMA FlightIs ==
    ASSUME NEW N, NEW q \in Flights(N)
    PROVE  /\ Len(q) \in Nat /\ DOMAIN q = 1 .. Len(q)
           /\ \A i \in 1 .. Len(q) : /\ q[i] \in [picture : Picture, left : N]
                                    /\ q[i].left \in N /\ q[i].picture \in Picture
  <1> DEFINE S == [picture : Picture, left : N]
  <1>1. q \in Seq(S)
    BY DEF Flights
  <1>2. \A f \in S : f.left \in N /\ f.picture \in Picture
    OBVIOUS
  <1> HIDE DEF S
  <1>3. Len(q) \in Nat /\ DOMAIN q = 1 .. Len(q) /\ \A i \in 1 .. Len(q) : q[i] \in S
    BY <1>1
  <1> QED
    BY <1>2, <1>3 DEF S

LEMMA BecomesFlight ==
    ASSUME NEW N, NEW S, NEW q \in Seq(S),
           \A i \in 1 .. Len(q) : q[i] \in [picture : Picture, left : N]
    PROVE  q \in Flights(N)
  <1> DEFINE F == [picture : Picture, left : N]
  <1>1. \A i \in 1 .. Len(q) : q[i] \in F
    OBVIOUS
  <1> HIDE DEF F
  <1>2. q \in Seq(F)
    BY <1>1
  <1> QED
    BY <1>2 DEF F, Flights

LEMMA WiderFlight ==
    ASSUME NEW N, NEW M, N \subseteq M, NEW q \in Flights(N)
    PROVE  q \in Flights(M)
  <1>1. \A i \in 1 .. Len(q) : q[i] \in [picture : Picture, left : M]
    BY FlightIs
  <1> QED
    BY <1>1, BecomesFlight DEF Flights

(* So few pictures wait for different numbers of frames.                   *)
LEMMA FewApart ==
    ASSUME NEW q \in Flights(Waits), Apart(q)
    PROVE  Len(q) <= Latency
  <1> DEFINE f == [i \in 1 .. Len(q) |-> IF q[i].left = Unread THEN Latency ELSE q[i].left]
  <1>1. Latency \in Nat \ {0} /\ Len(q) \in Nat
    BY LoopAssumption DEF Flights
  <1>2. \A i \in 1 .. Len(q) : q[i].left \in Waits
    BY FlightIs, Zenon
  <1>3. f \in [1 .. Len(q) -> 1 .. Latency]
    BY <1>1, <1>2 DEF Waits, Unread
  <1>4. \A i, j \in 1 .. Len(q) : f[i] = f[j] => q[i].left = q[j].left
    BY <1>1, <1>2 DEF Waits, Unread
  <1>5. f \in Injection(1 .. Len(q), 1 .. Latency)
    BY <1>3, <1>4 DEF Injection, IsInjective, Apart
  <1>6. \A m \in Nat : IsFiniteSet(1 .. m) /\ Cardinality(1 .. m) = m
    BY FS_Interval
  <1>7. Cardinality(1 .. Len(q)) <= Cardinality(1 .. Latency)
    BY <1>1, <1>5, <1>6, FS_Injection
  <1> QED
    BY <1>1, <1>6, <1>7

(* A part of a flight is one, with what its places wait for.               *)
LEMMA PartOfFlight ==
    ASSUME NEW N, NEW M, NEW q \in Flights(N), NEW I, I \subseteq DOMAIN q,
           \A i \in I : q[i].left \in M
    PROVE  /\ Subsequence(q, I) \in Flights(M) /\ Subsequence(q, I) \in Flights(N)
           /\ Len(Subsequence(q, I)) \in Nat
           /\ (\A i, j \in I : q[i].left = q[j].left => i = j) => Apart(Subsequence(q, I))
  <1> DEFINE part == Subsequence(q, I)
  <1>1. part \in Flights(N) /\ Keeps(part, q, I)
    BY SubsequenceKeeps DEF Flights
  <1>2. DOMAIN q = 1 .. Len(q) /\ Len(part) \in Nat
    BY <1>1 DEF Flights
  <1> HIDE DEF part
  <1>3. PICK place \in [1 .. Len(part) -> I] :
            /\ \A k \in 1 .. Len(part) : part[k] = q[place[k]]
            /\ \A j, k \in 1 .. Len(part) : j < k <=> place[j] < place[k]
    BY <1>1 DEF Keeps
  <1>4. \A k \in 1 .. Len(part) : place[k] \in I /\ place[k] \in 1 .. Len(q)
    BY <1>2, <1>3
  <1>5. \A k \in 1 .. Len(part) : part[k] \in [picture : Picture, left : M]
    <2> SUFFICES ASSUME NEW k \in 1 .. Len(part)
                 PROVE  part[k] \in [picture : Picture, left : M]
      OBVIOUS
    <2>1. part[k] \in [picture : Picture, left : N]
      BY <1>1, FlightIs
    <2>2. part[k].left \in M
      BY <1>3, <1>4
    <2> QED
      BY <2>1, <2>2
  <1>6. part \in Flights(M)
    BY <1>5, <1>1, BecomesFlight, Zenon DEF Flights
  <1>7. ASSUME \A i, j \in I : q[i].left = q[j].left => i = j PROVE Apart(part)
    <2> SUFFICES ASSUME NEW j \in 1 .. Len(part), NEW k \in 1 .. Len(part),
                        part[j].left = part[k].left
                 PROVE  j = k
      BY DEF Apart
    <2>1. place[j] = place[k]
      BY <1>3, <1>4, <1>7
    <2>2. place[j] \in Int /\ place[k] \in Int
      BY <1>4
    <2> QED
      BY <1>2, <1>3, <2>1, <2>2
  <1> QED
    BY <1>1, <1>2, <1>6, <1>7 DEF part
-----------------------------------------------------------------------------
(* What a frame leaves each picture to wait for, the new one included: as  *)
(* many frames as before but one, so that none wait for as many.           *)
LEMMA FrameApart ==
    ASSUME FlightApart, shown \in Picture, TakenPicture \in Picture,
           NEW ok \in BOOLEAN, Present(ok)
    PROVE  FlightApart' /\ shown' \in Picture
  <1> DEFINE n == Len(flight)
             N == (0 .. Latency - 1) \cup {Unread}
             kept == {i \in DOMAIN flight : ok \/ flight[i].left # Unread}
             blits == IF Cardinality(kept) < Depth THEN kept \cup {n + 1} ELSE kept
             older == [i \in DOMAIN flight |-> Aged(Scheduled(flight[i]))]
             blit == [picture |-> TakenPicture, left |-> Unread]
             ended == Append(older, blit)
             I == {i \in blits : Arrived(ended[i])}
             J == {i \in blits : ~Arrived(ended[i])}
             done == Subsequence(ended, I)
             rest == Subsequence(ended, J)
  <1>1. Latency \in Nat \ {0} /\ Unread = Latency + 1
    BY LoopAssumption DEF Unread
  <1>2. flight' = rest /\ shown' = IF done = <<>> THEN shown ELSE done[Len(done)].picture
    BY Zenon DEF Present
  <1>3. /\ n \in Nat /\ DOMAIN flight = 1 .. n
        /\ \A i \in 1 .. n : flight[i] \in [picture : Picture, left : Waits]
        /\ \A i, j \in 1 .. n : flight[i].left = flight[j].left => i = j
    BY FlightIs DEF FlightApart, Apart
  <1>4. \A f \in [picture : Picture, left : Waits] :
            /\ Aged(Scheduled(f)) \in [picture : Picture, left : N]
            /\ Aged(Scheduled(f)).left = IF f.left = Unread THEN Latency - 1 ELSE f.left - 1
    <2> SUFFICES ASSUME NEW f \in [picture : Picture, left : Waits]
                 PROVE  /\ Aged(Scheduled(f)) \in [picture : Picture, left : N]
                        /\ Aged(Scheduled(f)).left =
                               IF f.left = Unread THEN Latency - 1 ELSE f.left - 1
      OBVIOUS
    <2> DEFINE g == Scheduled(f)
    <2>1. /\ g \in [picture : Picture, left : 1 .. Latency]
          /\ g.left = IF f.left = Unread THEN Latency ELSE f.left
      BY <1>1 DEF Scheduled, Waits
    <2> HIDE DEF g
    <2>2. /\ Aged(g) \in [picture : Picture, left : N]
          /\ Aged(g).left = g.left - 1
      BY <1>1, <2>1 DEF Aged
    <2> QED
      BY <2>1, <2>2 DEF g
  <1>5. blit \in [picture : Picture, left : N] /\ blit.left = Unread
    OBVIOUS
  <1> HIDE DEF blit
  <1>6. /\ older \in Seq([picture : Picture, left : N]) /\ Len(older) = n
        /\ \A i \in 1 .. n : older[i] = Aged(Scheduled(flight[i]))
    <2> DEFINE F == [picture : Picture, left : N]
    <2>1. \A i \in 1 .. n : older[i] \in F /\ older[i] = Aged(Scheduled(flight[i]))
      BY <1>3, <1>4
    <2>2. older = [i \in 1 .. n |-> older[i]]
      BY <1>3
    <2> HIDE DEF F, older
    <2>3. older \in Seq(F) /\ Len(older) = n
      BY <1>3, <2>1, <2>2
    <2> QED
      BY <2>1, <2>3 DEF F
  <1> HIDE DEF older
  <1>7. /\ ended \in Flights(N) /\ Len(ended) = n + 1 /\ DOMAIN ended = 1 .. n + 1
        /\ ended[n + 1] = blit /\ \A i \in 1 .. n : ended[i] = older[i]
    <2> DEFINE F == [picture : Picture, left : N]
    <2>1. older \in Seq(F) /\ blit \in F
      BY <1>5, <1>6
    <2> HIDE DEF F
    <2>2. /\ ended \in Seq(F) /\ Len(ended) = n + 1 /\ DOMAIN ended = 1 .. n + 1
          /\ ended[n + 1] = blit /\ \A i \in 1 .. n : ended[i] = older[i]
      BY <1>3, <1>6, <2>1
    <2> QED
      BY <2>2 DEF F, Flights
  <1> HIDE DEF ended, n
  <1>8. \A i \in 1 .. n :
            /\ flight[i].left \in Waits
            /\ ended[i].left = IF flight[i].left = Unread THEN Latency - 1 ELSE flight[i].left - 1
    BY <1>3, <1>4, <1>6, <1>7
  <1>9. \A i \in blits : i \in 1 .. n + 1 /\ (i = n + 1 \/ i \in kept)
    BY <1>3
  <1>10. \A i \in kept : i \in 1 .. n
    BY <1>3
  <1>11. \A i, j \in blits : ended[i].left = ended[j].left => i = j
    <2> SUFFICES ASSUME NEW i \in blits, NEW j \in blits, ended[i].left = ended[j].left
                 PROVE  i = j
      OBVIOUS
    <2> HIDE DEF blits, kept
    <2>1. CASE i \in kept /\ j \in kept
      <3>1. flight[i].left = flight[j].left
        BY <1>1, <1>8, <1>10, <2>1 DEF Waits
      <3> QED
        BY <1>3, <1>10, <2>1, <3>1
    <2>2. CASE i = n + 1 /\ j \in kept
      BY <1>1, <1>5, <1>7, <1>8, <1>10, <2>2 DEF Waits
    <2>3. CASE i \in kept /\ j = n + 1
      BY <1>1, <1>5, <1>7, <1>8, <1>10, <2>3 DEF Waits
    <2>4. CASE i = n + 1 /\ j = n + 1
      BY <2>4
    <2> QED
      BY <1>9, <2>1, <2>2, <2>3, <2>4
  <1> HIDE DEF blits, kept
  <1>12. blits \subseteq DOMAIN ended /\ \A i \in DOMAIN ended : ended[i].left \in N
    BY <1>7, <1>9, FlightIs
  <1>13. rest \in Flights(Waits) /\ Apart(rest)
    <2>1. J \subseteq DOMAIN ended /\ \A i \in J : ended[i].left \in Waits
      BY <1>1, <1>12 DEF Arrived, Waits
    <2>2. \A i, j \in J : ended[i].left = ended[j].left => i = j
      BY <1>11
    <2> HIDE DEF J, N
    <2> QED
      BY <1>7, <2>1, <2>2, PartOfFlight, Zenon
  <1>14. done \in Flights(N) /\ Len(done) \in Nat
    <2>1. I \subseteq DOMAIN ended /\ \A i \in I : ended[i].left \in N
      BY <1>12
    <2> HIDE DEF I, N
    <2> QED
      BY <1>7, <2>1, PartOfFlight, Zenon
  <1> HIDE DEF done, rest
  <1>15. done # <<>> => done[Len(done)].picture \in Picture
    <2>1. \A k \in 1 .. Len(done) : done[k].picture \in Picture
      BY <1>14, FlightIs, Zenon
    <2>2. done # <<>> => Len(done) \in 1 .. Len(done)
      BY <1>14 DEF Flights
    <2> QED
      BY <2>1, <2>2
  <1>16. shown' \in Picture
    BY <1>2, <1>15
  <1>17. FlightApart'
    BY <1>2, <1>13 DEF FlightApart
  <1> QED
    BY <1>16, <1>17
-----------------------------------------------------------------------------
(* What is taken is of a state that is well typed.                         *)
LEMMA FrameTypes ==
    ASSUME LoopTypeOK, FitsAreCounted, NEW asks \in BOOLEAN, NEW fitMoves \in BOOLEAN,
           UpdateScene(asks, fitMoves), UNCHANGED item
    PROVE  /\ {edits, source, edited, loaded, map}' \subseteq Edits
           /\ view' \in Views
           /\ {firstFrame, ready, autoFit, viewDirty}' \subseteq BOOLEAN
           /\ {uploads, request, decoding, results}' \subseteq Seq(Edits)
           /\ FitsAreCounted'
           /\ TakenPicture \in Picture
  <1> DEFINE arrived == uploads \o results
             fitAsked == autoFit \/ NewSource \/ asks
             fits == fitAsked /\ ready'
  <1>1. /\ edits \in Edits /\ source \in Edits /\ loaded \in Edits /\ map \in Edits
        /\ edited \in Edits /\ view \in Views /\ firstFrame \in BOOLEAN /\ ready \in BOOLEAN
        /\ autoFit \in BOOLEAN /\ viewDirty \in BOOLEAN
        /\ uploads \in Seq(Edits) /\ results \in Seq(Edits)
        /\ request \in Seq(Edits) /\ decoding \in Seq(Edits)
    BY DEF LoopTypeOK
  <1>2. arrived \in Seq(Edits)
    BY <1>1
  <1>3. /\ edited' = edits /\ loaded' = source
        /\ uploads' = IF arrived = <<>> THEN <<>> ELSE Tail(arrived)
        /\ map' = IF arrived = <<>> THEN map ELSE Head(arrived)
        /\ ready' = IF arrived = <<>> THEN ready /\ ~NewSource ELSE source # 0
        /\ results' = <<>>
        /\ request' = IF NewSource \/ ~firstFrame THEN <<source>> ELSE request
        /\ firstFrame' = TRUE
        /\ (asks => edited # edits)
        /\ autoFit' = (fitAsked /\ ~fits)
        /\ fitMoves => fits
        /\ view' = IF fitMoves THEN view + 1 ELSE view
        /\ viewDirty' = fitMoves /\ decoding' = decoding
        /\ edits' = edits /\ source' = source
    BY DEF UpdateScene, item
  <1> HIDE DEF arrived
  <1>4. /\ uploads' \in Seq(Edits) /\ request' \in Seq(Edits)
        /\ results' \in Seq(Edits) /\ decoding' \in Seq(Edits) /\ map' \in Edits
    <2>1. arrived # <<>> => Tail(arrived) \in Seq(Edits) /\ Head(arrived) \in Edits
      BY <1>2
    <2>2. <<source>> \in Seq(Edits) /\ <<>> \in Seq(Edits)
      BY <1>1
    <2> QED
      BY <1>1, <1>3, <2>1, <2>2, Zenon
  <1>5. /\ firstFrame' \in BOOLEAN /\ ready' \in BOOLEAN
        /\ autoFit' \in BOOLEAN /\ viewDirty' \in BOOLEAN
    BY <1>1, <1>3
  <1>6. FitsAreCounted' /\ view' \in Views
    <2>1. /\ loaded \in Nat /\ source \in Nat /\ view \in Nat /\ MaxEdits \in Nat
          /\ edited \in Nat /\ edits \in Nat
          /\ source <= MaxEdits /\ loaded <= source
          /\ edits <= MaxEdits /\ edited <= edits
          /\ autoFit => loaded + edited >= 1
          /\ view <= MaxEdits + loaded + edited - (IF autoFit THEN 1 ELSE 0)
      BY <1>1, LoopAssumption DEF Edits, Views, FitsAreCounted
    <2>2. loaded' = source /\ source' = source /\ edited' = edits /\ edits' = edits
      BY <1>3
    <2>3. CASE fitMoves
      <3>1. view' = view + 1 /\ autoFit' = FALSE
            /\ (autoFit \/ source # loaded \/ edited # edits)
        BY <1>3, <2>3 DEF NewSource
      <3> QED
        BY <1>1, <2>1, <2>2, <3>1 DEF FitsAreCounted, Views
    <2>4. CASE ~fitMoves
      <3>1. view' = view /\ (autoFit' => autoFit \/ source # loaded \/ edited # edits)
        BY <1>3, <2>4 DEF NewSource
      <3> QED
        BY <1>1, <1>5, <2>1, <2>2, <3>1 DEF FitsAreCounted, Views
    <2> QED
      BY <2>3, <2>4
  <1>7. TakenPicture \in Picture
    BY <1>1, <1>4 DEF TakenPicture, Picture
  <1> QED
    BY <1>1, <1>3, <1>4, <1>5, <1>6, <1>7, Zenon

LEMMA RoomStarts == LoopInit => RoomInv
  <1> SUFFICES ASSUME LoopInit PROVE RoomInv
    OBVIOUS
  <1>1. 0 \in Edits /\ 0 \in Views /\ 0 \in 0 .. SettleFrames
    BY LoopAssumption DEF Edits, Views
  <1>2. Blank \in Picture
    BY <1>1 DEF Blank, Picture
  <1>3. LoopTypeOK
    <2>1. flight \in Seq([picture : Picture, left : 0 .. Unread])
      BY DEF LoopInit
    <2>2. {uploads, request, decoding, results} \subseteq Seq(Edits)
      BY DEF LoopInit
    <2>3. {wanted, firstFrame, ready, autoFit, viewDirty} \subseteq BOOLEAN
      BY DEF LoopInit
    <2>4. {edits, source, edited, loaded, map} \subseteq Edits
      BY <1>1 DEF LoopInit
    <2> QED
      BY <1>1, <1>2, <2>1, <2>2, <2>3, <2>4, Zenon DEF LoopInit, LoopTypeOK
  <1>4. FitsAreCounted
    BY LoopAssumption DEF LoopInit, FitsAreCounted
  <1>5. FlightApart
    BY DEF LoopInit, FlightApart, Apart, Flights
  <1> QED
    BY <1>3, <1>4, <1>5 DEF RoomInv

LEMMA RoomStays == RoomInv /\ [LoopNext]_loopVars => RoomInv'
  <1> SUFFICES ASSUME RoomInv, [LoopNext]_loopVars PROVE RoomInv'
    OBVIOUS
  <1> USE DEF RoomInv
  <1>1. MaxEdits \in Nat /\ SettleFrames \in Nat
    BY LoopAssumption
  <1>2. CASE SetProperty
    <2>1. /\ edits < MaxEdits /\ edits' = edits + 1 /\ wanted' = TRUE
          /\ UNCHANGED <<source, edited, loaded, autoFit, view, flight, shown, settle>>
          /\ UNCHANGED <<firstFrame, ready, viewDirty, map, uploads, request,
                        decoding, results>>
      BY <1>2 DEF SetProperty, scene, loader
    <2>2. edits' \in Edits /\ FitsAreCounted'
      BY <1>1, <2>1 DEF LoopTypeOK, FitsAreCounted, Edits
    <2> QED
      BY <2>1, <2>2 DEF LoopTypeOK, FlightApart
  <1>3. CASE SetHeightfieldSource
    <2>1. /\ source < MaxEdits /\ source' = source + 1 /\ wanted' = TRUE
          /\ UNCHANGED <<edits, edited, loaded, autoFit, view, flight, shown, settle>>
          /\ UNCHANGED <<firstFrame, ready, viewDirty, map, uploads, request,
                        decoding, results>>
      BY <1>3 DEF SetHeightfieldSource, scene, loader
    <2>2. source' \in Edits /\ FitsAreCounted'
      BY <1>1, <2>1 DEF LoopTypeOK, FitsAreCounted, Edits
    <2> QED
      BY <2>1, <2>2 DEF LoopTypeOK, FlightApart
  <1>4. CASE MoveCamera
    <2>1. /\ view < MaxEdits /\ view' = view + 1 /\ viewDirty' = TRUE /\ wanted' = TRUE
          /\ UNCHANGED <<edits, source, edited, loaded, autoFit, flight, shown, settle>>
          /\ UNCHANGED <<firstFrame, ready, map, uploads, request, decoding, results>>
      BY <1>4 DEF MoveCamera, item, loader
    <2>2. view' \in Views /\ FitsAreCounted'
      BY <1>1, <2>1 DEF LoopTypeOK, FitsAreCounted, Edits, Views
    <2> QED
      BY <2>1, <2>2 DEF LoopTypeOK, FlightApart
  <1>5. CASE WorkerTake
    BY <1>5 DEF WorkerTake, LoopTypeOK, FitsAreCounted, FlightApart, item, scene
  <1>6. CASE WorkerDecode
    <2>1. results \o decoding \in Seq(Edits)
      BY DEF LoopTypeOK
    <2> QED
      BY <1>6, <2>1 DEF WorkerDecode, LoopTypeOK, FitsAreCounted, FlightApart, item, scene
  <1>7. ASSUME NEW asks \in BOOLEAN, NEW fitMoves \in BOOLEAN, NEW ok \in BOOLEAN,
               Frame(asks, fitMoves, ok)
        PROVE  RoomInv'
    <2>1. UpdateScene(asks, fitMoves) /\ Present(ok) /\ UNCHANGED item
      BY <1>7 DEF Frame
    <2>2. /\ {edits, source, edited, loaded, map}' \subseteq Edits
          /\ view' \in Views
          /\ {firstFrame, ready, autoFit, viewDirty}' \subseteq BOOLEAN
          /\ {uploads, request, decoding, results}' \subseteq Seq(Edits)
          /\ FitsAreCounted' /\ TakenPicture \in Picture
      BY <2>1, FrameTypes
    <2>3. FlightApart' /\ shown' \in Picture
      BY <2>1, <2>2, FrameApart DEF LoopTypeOK
    <2>4. flight' \in Seq([picture : Picture, left : 0 .. Unread])
      <3>1. Waits \subseteq 0 .. Unread
        BY LoopAssumption DEF Waits, Unread
      <3> QED
        BY <2>3, <3>1, WiderFlight, Zenon DEF FlightApart, Flights
    <2>5. settle' \in 0 .. SettleFrames
      BY <1>1, <1>7 DEF Frame, Lowered, LoopTypeOK
    <2>6. wanted' \in BOOLEAN
      BY <1>7 DEF Frame, ShouldContinueRendering
    <2>7. LoopTypeOK'
      BY <2>2, <2>3, <2>4, <2>5, <2>6 DEF LoopTypeOK
    <2> QED
      BY <2>2, <2>3, <2>7
  <1>8. CASE UNCHANGED loopVars
    BY <1>8 DEF loopVars, LoopTypeOK, FitsAreCounted, FlightApart, Apart, item, scene, loader
  <1> QED
    BY <1>2, <1>3, <1>4, <1>5, <1>6, <1>7, <1>8 DEF LoopNext

(* Every frame finds a free slot in the ring: whatever the GUI does, the   *)
(* worker delivers and bgfx refuses, a ring deeper than a readback takes   *)
(* (kReadbackBufferCount, readback_presenter.h) never fills up.            *)
THEOREM RingAlwaysHasRoom ==
    ASSUME Latency < Depth
    PROVE  LoopSpec => []RingHasRoom
  <1>1. RoomInv => RingHasRoom
    <2> SUFFICES ASSUME RoomInv PROVE RingHasRoom
      OBVIOUS
    <2>1. Len(flight) <= Latency /\ Len(flight) \in Nat
      BY FewApart, FlightIs DEF RoomInv, FlightApart
    <2> QED
      BY <2>1, LoopAssumption DEF RoomInv, RingHasRoom
  <1> QED
    BY <1>1, RoomStarts, RoomStays, PTL DEF LoopSpec
=============================================================================
