------------------------ MODULE DeferredDeleteQueue ------------------------
(***************************************************************************)
(* engine::DeferredDeleteQueue as RenderDevice drives it: closures that    *)
(* own a GPU resource or a readback buffer wait for the bgfx frame after   *)
(* which the GPU no longer uses it.  Frame ids wrap; the ghost field       *)
(* "left" counts the true number of frames an item still has to wait, so   *)
(* that the id comparison can be judged against it.  The device runs for   *)
(* ever, so all state is relative to the current frame and is finite.      *)
(***************************************************************************)
EXTENDS FrameIds, FiniteSets

CONSTANTS
    MaxDelay,     \* bound: the longest wait a caller asks for, in frames
    MaxPending    \* bound: items in the queue at a time

ASSUME QueueAssumption ==
    /\ MaxDelay \in Nat
    /\ MaxDelay < IdMod \div 2
    /\ MaxPending \in Nat \ {0}

VARIABLES
    lastFrameId,  \* RenderDevice::m_lastFrameId
    pending       \* DeferredDeleteQueue::m_pending, [key, safe, left]

queue == <<lastFrameId, pending>>

(* left = Unknown: the frame in which the GPU uses the resource is unknown *)
Unknown == MaxDelay + 1

Item == [key : 1 .. MaxPending, safe : FrameId, left : 0 .. Unknown]

QueueTypeOK ==
    /\ lastFrameId \in FrameId
    /\ pending \subseteq Item
-----------------------------------------------------------------------------
FreshKey(k) == \A item \in pending : item.key # k

(* deferUntilFrameRetired(fn, lastFrameId + n) -- the retire margins of    *)
(* TerrainRenderer -- or the frame id readTexture returned.                *)
Enqueue(k, n) ==
    /\ FreshKey(k)
    /\ pending' = pending \cup
            {[key |-> k, safe |-> (lastFrameId + n) % IdMod, left |-> n]}
    /\ UNCHANGED lastFrameId

(* A readback whose submit frame is unknown is tagged kNeverRetired.       *)
EnqueueUnknown(k) ==
    /\ FreshKey(k)
    /\ pending' = pending \cup
            {[key |-> k, safe |-> NeverRetired, left |-> Unknown]}
    /\ UNCHANGED lastFrameId

Aged(item) ==
    [item EXCEPT !.left = IF @ \in {0, Unknown} THEN @ ELSE @ - 1]

CollectedByValue(retiredFrame) ==    \* mutant: ids compared as plain numbers
    {item \in pending : item.safe # NeverRetired /\ item.safe <= retiredFrame}

(* The items collect(retiredFrame) runs.                                   *)
Collected(retiredFrame) ==
    {item \in pending : IsRetired(retiredFrame, item.safe)}

(* RenderDevice::endFrame: bgfx::frame(), then collect(frameId).           *)
EndFrame ==
    LET frameId == (lastFrameId + 1) % IdMod IN
    /\ lastFrameId' = frameId
    /\ pending' = {Aged(item) : item \in pending \ Collected(frameId)}

(* flushAll(), at device shutdown: the process ends with it.               *)
FlushAll ==
    /\ pending # {}
    /\ pending' = {}
    /\ UNCHANGED lastFrameId

QueueInit ==
    /\ lastFrameId = 0
    /\ pending = {}

QueueNext ==
    \/ \E k \in 1 .. MaxPending, n \in 0 .. MaxDelay : Enqueue(k, n)
    \/ \E k \in 1 .. MaxPending : EnqueueUnknown(k)
    \/ EndFrame
    \/ FlushAll
-----------------------------------------------------------------------------
(***************************************************************************)
(* Properties                                                              *)
(***************************************************************************)

(* What endFrame runs was due: its frame has truly been retired.           *)
NeverEarly ==
    \A item \in pending :
        item.left > 1 => \E kept \in pending' : kept.key = item.key

(* What endFrame leaves behind is not due yet, unless its id happens to be *)
(* the one that stands for "never".                                        *)
NeverLate == \A kept \in pending' : kept.left = 0 => kept.safe = NeverRetired

(* endFrame frees a resource in the very frame in which it is due, however *)
(* often the ids have wrapped, and never one whose frame is unknown ("held *)
(* rather than freed early", resource_arena.h:35).                         *)
FreedOnTime ==
    /\ []QueueTypeOK
    /\ [][lastFrameId' # lastFrameId => NeverEarly /\ NeverLate]_queue
=============================================================================
