------------------------- MODULE RenderDeviceProofs -------------------------
(***************************************************************************)
(* Theorems about RenderDevice, for every number of ids and every finite   *)
(* set of viewports: view ids are never shared and never lost, a surface   *)
(* is refused for want of ids only for a reason, and references are enough;*)
(* surfaces are whole or not there, and drawn into by their own views.     *)
(* And about the queue it retires at each frame: a resource is freed in    *)
(* the frame in which it is due, for any number of frame ids, however      *)
(* often they wrap.  And about the overlay of a viewport: heights that are *)
(* read back are of the rectangles shown, and a read in flight has a       *)
(* buffer to write to.                                                     *)
(***************************************************************************)
EXTENDS Surfaces, DeferredDeleteQueue, OverlayMax, SubsequencesProofs, TLAPS

(* The queue.                                                              *)
QueueSpec == QueueInit /\ [][QueueNext]_queue

(* An item waits for the frame its id names; if that is over, the item has *)
(* just been queued for the frame that is retired, or its id is "never".   *)
Waits(item) ==
    /\ item.left \in 1 .. MaxDelay => item.safe = (lastFrameId + item.left) % IdMod
    /\ item.left = 0 => item.safe \in {lastFrameId, NeverRetired}
    /\ item.left = Unknown => item.safe = NeverRetired

QueueInv == QueueTypeOK /\ \A item \in pending : Waits(item)
-----------------------------------------------------------------------------
(* The arithmetic of ids.                                                  *)
LEMMA IdBounds ==
    /\ IdMod \in Nat /\ IdMod >= 4
    /\ IdMod \div 2 \in Nat /\ IdMod \div 2 >= 2 /\ 2 * (IdMod \div 2) <= IdMod
    /\ MaxDelay \in Nat /\ MaxDelay < IdMod \div 2
    /\ NeverRetired \in FrameId
  BY IdModAssumption, QueueAssumption DEF NeverRetired, FrameId

LEMMA ModNear ==
    ASSUME NEW a \in -IdMod + 1 .. 2 * IdMod - 1
    PROVE  a % IdMod = IF a < 0 THEN a + IdMod ELSE IF a < IdMod THEN a ELSE a - IdMod
  <1>1. IdMod \in Nat /\ IdMod > 0
    BY IdBounds
  <1>2. CASE a < 0
    <2>1. (a + IdMod) % IdMod = a % IdMod
      BY <1>1, SMTT(30)
    <2>2. (a + IdMod) % IdMod = a + IdMod
      BY <1>1, <1>2, SMTT(30)
    <2> QED
      BY <2>1, <2>2, <1>2
  <1>3. CASE a >= 0 /\ a < IdMod
    BY <1>1, <1>3, SMTT(30)
  <1>4. CASE a >= IdMod
    <2>1. (a - IdMod) % IdMod = a % IdMod
      BY <1>1, SMTT(30)
    <2>2. (a - IdMod) % IdMod = a - IdMod
      BY <1>1, <1>4, SMTT(30)
    <2> QED
      BY <1>1, <2>1, <2>2, <1>4
  <1> QED
    BY <1>1, <1>2, <1>3, <1>4

(* In the next frame an item that waits for n more of them is due in n - 1.*)
LEMMA OneFrameOn ==
    ASSUME NEW last \in FrameId, NEW n \in 1 .. MaxDelay
    PROVE  LET next == (last + 1) % IdMod
               safe == (last + n) % IdMod
           IN  /\ next \in FrameId /\ safe \in FrameId
               /\ safe = (next + (n - 1)) % IdMod
               /\ n = 1 => safe = next
               /\ n > 1 /\ safe # NeverRetired => ~IsRetired(next, safe)
  <1> DEFINE next == (last + 1) % IdMod
             safe == (last + n) % IdMod
  <1>1. last \in Int /\ 0 <= last /\ last < IdMod /\ n \in Int /\ 1 <= n /\ n <= MaxDelay
    BY IdBounds DEF FrameId
  <1>2. next = IF last + 1 < IdMod THEN last + 1 ELSE last + 1 - IdMod
    BY <1>1, IdBounds, ModNear
  <1>3. safe = IF last + n < IdMod THEN last + n ELSE last + n - IdMod
    BY <1>1, IdBounds, ModNear
  <1> HIDE DEF next, safe
  <1>4. next \in FrameId /\ safe \in FrameId
    BY <1>1, <1>2, <1>3, IdBounds DEF FrameId
  <1>5. safe = (next + (n - 1)) % IdMod
    <2>1. next + (n - 1) \in -IdMod + 1 .. 2 * IdMod - 1 /\ next + (n - 1) >= 0
      BY <1>1, <1>2, <1>4, IdBounds DEF FrameId
    <2>2. (next + (n - 1)) % IdMod =
             IF next + (n - 1) < IdMod THEN next + (n - 1) ELSE next + (n - 1) - IdMod
      <3> DEFINE sum == next + (n - 1)
      <3>1. sum \in -IdMod + 1 .. 2 * IdMod - 1 /\ sum >= 0
        BY <2>1
      <3> HIDE DEF sum
      <3>2. sum % IdMod = IF sum < IdMod THEN sum ELSE sum - IdMod
        BY <3>1, ModNear, IdBounds
      <3>3. next \in Int /\ n \in Int /\ IdMod \in Int
        BY <1>1, <1>4, IdBounds DEF FrameId
      <3> QED
        BY <3>2, <3>3 DEF sum
    <2> HIDE DEF next, safe
    <2> QED
      BY <1>1, <1>2, <1>3, <2>2, IdBounds
  <1>6. n = 1 => safe = next
    BY <1>1, <1>2, <1>3, IdBounds
  <1>7. n > 1 => ~IsRetired(next, safe)
    <2> SUFFICES ASSUME n > 1 PROVE ~((next - safe) % IdMod < IdMod \div 2)
      BY DEF IsRetired
    <2>1. next - safe = 1 - n \/ next - safe = 1 - n + IdMod
      BY <1>1, <1>2, <1>3, IdBounds
    <2>2. (next - safe) % IdMod = 1 - n + IdMod
      <3>1. next - safe \in -IdMod + 1 .. 2 * IdMod - 1
        BY <1>4, IdBounds DEF FrameId
      <3>2. (next - safe) % IdMod =
              IF next - safe < 0 THEN next - safe + IdMod
              ELSE IF next - safe < IdMod THEN next - safe ELSE next - safe - IdMod
        BY <3>1, ModNear
      <3> QED
        BY <2>1, <3>2, <1>1, IdBounds
    <2> QED
      BY <2>2, <1>1, IdBounds
  <1> QED
    BY <1>4, <1>5, <1>6, <1>7 DEF next, safe

(* The frame before is retired, and so is the frame itself.                *)
LEMMA LastIsRetired ==
    ASSUME NEW last \in FrameId
    PROVE  LET next == (last + 1) % IdMod IN
           /\ next \in FrameId
           /\ last # NeverRetired => IsRetired(next, last)
           /\ next # NeverRetired => IsRetired(next, next)
  <1> DEFINE next == (last + 1) % IdMod
  <1>1. last \in Int /\ 0 <= last /\ last < IdMod
    BY IdBounds DEF FrameId
  <1>2. next = IF last + 1 < IdMod THEN last + 1 ELSE last + 1 - IdMod
    BY <1>1, IdBounds, ModNear
  <1> HIDE DEF next
  <1>3. next \in Int /\ 0 <= next /\ next < IdMod
    BY <1>1, <1>2, IdBounds
  <1>4. (next - last) % IdMod = 1
    <2>1. next - last = 1 \/ next - last = 1 - IdMod
      BY <1>1, <1>2, IdBounds
    <2>2. next - last \in -IdMod + 1 .. 2 * IdMod - 1
      BY <2>1, IdBounds
    <2> QED
      BY <2>1, <2>2, ModNear, IdBounds
  <1>5. (next - next) % IdMod = 0
    <2>1. next - next = 0 /\ 0 \in -IdMod + 1 .. 2 * IdMod - 1
      BY <1>3, IdBounds
    <2>2. 0 % IdMod = 0
      BY <2>1, ModNear, IdBounds
    <2> QED
      BY <2>1, <2>2
  <1> QED
    BY <1>3, <1>4, <1>5, IdBounds DEF IsRetired, FrameId, next
-----------------------------------------------------------------------------
LEMMA AgedItem ==
    ASSUME NEW item \in Item
    PROVE  /\ Aged(item) \in Item
           /\ Aged(item).key = item.key /\ Aged(item).safe = item.safe
           /\ Aged(item).left = IF item.left \in {0, Unknown} THEN item.left ELSE item.left - 1
  BY IdBounds DEF Aged, Item, Unknown

(* What an item is in the frame after, unless it has been freed.           *)
LEMMA ItemStep ==
    ASSUME QueueInv, EndFrame, NEW item \in pending, item \notin Collected(lastFrameId')
    PROVE  /\ Aged(item) \in Item
           /\ Waits(Aged(item))'
           /\ Aged(item).left = 0 => Aged(item).safe = NeverRetired
  <1>1. item \in Item /\ Waits(item) /\ lastFrameId \in FrameId
    BY DEF QueueInv, QueueTypeOK
  <1>2. lastFrameId' = (lastFrameId + 1) % IdMod
    BY DEF EndFrame
  <1>3. ~IsRetired(lastFrameId', item.safe)
    BY DEF Collected
  <1>4. /\ Aged(item) \in Item /\ Aged(item).safe = item.safe
        /\ Aged(item).left = IF item.left \in {0, Unknown} THEN item.left ELSE item.left - 1
    BY <1>1, AgedItem
  <1>5. Unknown = MaxDelay + 1 /\ Unknown # 0 /\ Unknown \notin 1 .. MaxDelay /\ MaxDelay \in Nat
    BY IdBounds DEF Unknown
  <1>6. CASE item.left = Unknown
    BY <1>1, <1>4, <1>5, <1>6 DEF Waits
  <1>7. CASE item.left = 0
    <2>1. item.safe = NeverRetired
      BY <1>1, <1>2, <1>3, <1>7, LastIsRetired DEF Waits
    <2> QED
      BY <1>4, <1>5, <1>7, <2>1 DEF Waits
  <1>8. CASE item.left \in 1 .. MaxDelay
    <2>1. /\ item.safe = (lastFrameId + item.left) % IdMod
          /\ item.safe = (lastFrameId' + (item.left - 1)) % IdMod
          /\ item.left = 1 => item.safe = lastFrameId'
      BY <1>1, <1>2, <1>8, OneFrameOn DEF Waits
    <2>2. Aged(item).left = item.left - 1 /\ item.left - 1 \in 0 .. MaxDelay
      BY <1>4, <1>5, <1>8
    <2>3. CASE item.left = 1
      <3>1. item.safe = NeverRetired
        BY <1>1, <1>2, <1>3, <2>1, <2>3, LastIsRetired
      <3> QED
        BY <1>4, <1>5, <2>2, <2>3, <3>1 DEF Waits
    <2>4. CASE item.left # 1
      BY <1>4, <1>5, <1>8, <2>1, <2>2, <2>4 DEF Waits
    <2> QED
      BY <2>3, <2>4
  <1> QED
    BY <1>1, <1>5, <1>6, <1>7, <1>8 DEF Item

LEMMA QueueStarts == QueueInit => QueueInv
  BY IdBounds DEF QueueInit, QueueInv, QueueTypeOK, FrameId

LEMMA QueueStep ==
    ASSUME QueueInv, [QueueNext]_queue
    PROVE  QueueInv'
  <1>0. lastFrameId \in FrameId /\ pending \subseteq Item
    BY DEF QueueInv, QueueTypeOK
  <1>1. ASSUME NEW k \in 1 .. MaxPending, NEW n \in 0 .. MaxDelay, Enqueue(k, n)
        PROVE  QueueInv'
    <2> DEFINE new == [key |-> k, safe |-> (lastFrameId + n) % IdMod, left |-> n]
    <2>1. (lastFrameId + n) % IdMod \in FrameId /\ (n = 0 => (lastFrameId + n) % IdMod = lastFrameId)
      <3>1. lastFrameId + n \in -IdMod + 1 .. 2 * IdMod - 1 /\ lastFrameId + n >= 0
        BY <1>0, IdBounds DEF FrameId
      <3>2. (lastFrameId + n) % IdMod =
              IF lastFrameId + n < IdMod THEN lastFrameId + n ELSE lastFrameId + n - IdMod
        <4> DEFINE sum == lastFrameId + n
        <4>1. sum \in -IdMod + 1 .. 2 * IdMod - 1 /\ sum >= 0
          BY <3>1
        <4> HIDE DEF sum
        <4>2. sum % IdMod = IF sum < IdMod THEN sum ELSE sum - IdMod
          BY <4>1, ModNear, IdBounds
        <4>3. lastFrameId \in Int /\ n \in Int /\ IdMod \in Int
          BY <1>0, IdBounds DEF FrameId
        <4> QED
          BY <4>2, <4>3 DEF sum
      <3> QED
        BY <1>0, <3>1, <3>2, IdBounds DEF FrameId
    <2>2. n \in 0 .. Unknown /\ n # Unknown
      BY IdBounds DEF Unknown
    <2>3. new \in Item
      BY <2>1, <2>2 DEF Item
    <2>4. new.safe = (lastFrameId + n) % IdMod /\ new.left = n
      OBVIOUS
    <2>5. pending' = pending \cup {new} /\ lastFrameId' = lastFrameId
      BY <1>1 DEF Enqueue
    <2> HIDE DEF new
    <2>6. Waits(new)
      BY <2>1, <2>2, <2>4 DEF Waits
    <2> QED
      BY <1>0, <2>3, <2>5, <2>6 DEF QueueInv, QueueTypeOK, Waits
  <1>2. ASSUME NEW k \in 1 .. MaxPending, EnqueueUnknown(k)
        PROVE  QueueInv'
    <2> DEFINE new == [key |-> k, safe |-> NeverRetired, left |-> Unknown]
    <2>1. Unknown \in 0 .. Unknown /\ Unknown # 0 /\ Unknown \notin 1 .. MaxDelay
      BY IdBounds DEF Unknown
    <2>2. new \in Item /\ Waits(new)
      BY <2>1, IdBounds DEF Item, Waits
    <2>3. pending' = pending \cup {new} /\ lastFrameId' = lastFrameId
      BY <1>2 DEF EnqueueUnknown
    <2> HIDE DEF new
    <2> QED
      BY <1>0, <2>2, <2>3 DEF QueueInv, QueueTypeOK, Waits
  <1>3. CASE EndFrame
    <2>1. pending' = {Aged(item) : item \in pending \ Collected(lastFrameId')}
      BY <1>3 DEF EndFrame
    <2>2. \A item \in pending \ Collected(lastFrameId') : Aged(item) \in Item /\ Waits(Aged(item))'
      BY <1>3, ItemStep
    <2>3. lastFrameId' \in FrameId
      BY <1>0, <1>3, LastIsRetired DEF EndFrame
    <2>4. \A kept \in pending' : kept \in Item /\ Waits(kept)'
      BY <2>1, <2>2 DEF Waits
    <2> QED
      BY <2>3, <2>4 DEF QueueInv, QueueTypeOK
  <1>4. CASE FlushAll
    BY <1>0, <1>4 DEF FlushAll, QueueInv, QueueTypeOK
  <1>5. CASE UNCHANGED queue
    BY <1>5 DEF queue, QueueInv, QueueTypeOK, Waits
  <1> QED
    BY <1>1, <1>2, <1>3, <1>4, <1>5 DEF QueueNext

(* A step that ends a frame frees what is due and nothing else.            *)
LEMMA FrameFrees ==
    ASSUME QueueInv, EndFrame
    PROVE  NeverEarly /\ NeverLate
  <1>1. pending' = {Aged(item) : item \in pending \ Collected(lastFrameId')}
    BY DEF EndFrame
  <1>2. NeverLate
    BY <1>1, ItemStep DEF NeverLate
  <1>3. ASSUME NEW item \in pending, item.left > 1
        PROVE  \E kept \in pending' : kept.key = item.key
    <2>1. item \in Item /\ Waits(item) /\ lastFrameId \in FrameId
      BY DEF QueueInv, QueueTypeOK
    <2>2. item.left = Unknown \/ item.left \in 2 .. MaxDelay
      BY <1>3, <2>1, IdBounds DEF Item, Unknown
    <2>3. ~IsRetired(lastFrameId', item.safe)
      <3>1. CASE item.left = Unknown
        BY <2>1, <3>1 DEF Waits, IsRetired
      <3>2. CASE item.left \in 2 .. MaxDelay
        <4>1. item.left \in 1 .. MaxDelay /\ item.left > 1
          BY <3>2, IdBounds
        <4>2. item.safe = (lastFrameId + item.left) % IdMod
          BY <2>1, <4>1 DEF Waits
        <4>3. item.safe # NeverRetired => ~IsRetired(lastFrameId', item.safe)
          BY <2>1, <4>1, <4>2, OneFrameOn DEF EndFrame
        <4> QED
          BY <4>3 DEF IsRetired
      <3> QED
        BY <2>2, <3>1, <3>2
    <2>4. Aged(item) \in pending'
      BY <1>1, <2>3 DEF Collected
    <2>5. Aged(item).key = item.key
      BY <2>1, AgedItem
    <2> QED
      BY <2>4, <2>5
  <1> QED
    BY <1>2, <1>3 DEF NeverEarly

(* For any number of frame ids and any waits of less than half of them:    *)
(* a resource is freed in the very frame in which it is due, and never     *)
(* before.                                                                 *)
THEOREM AlwaysFreedOnTime == QueueSpec => FreedOnTime
  <1>1. QueueInit => QueueInv
    BY QueueStarts
  <1>2. QueueInv /\ [QueueNext]_queue => QueueInv'
    BY QueueStep
  <1>3. QueueInv => QueueTypeOK
    BY DEF QueueInv
  <1>4. QueueInv /\ [QueueNext]_queue
           => [lastFrameId' # lastFrameId => NeverEarly /\ NeverLate]_queue
    <2> SUFFICES ASSUME QueueInv, QueueNext, lastFrameId' # lastFrameId
                 PROVE  NeverEarly /\ NeverLate
      BY DEF queue
    <2>1. EndFrame
      BY DEF QueueNext, Enqueue, EnqueueUnknown, FlushAll
    <2> QED
      BY <2>1, FrameFrees
  <1> QED
    BY <1>1, <1>2, <1>3, <1>4, PTL DEF QueueSpec, FreedOnTime
-----------------------------------------------------------------------------
(* Surfaces and their view ids.                                            *)
USE DeviceAssumption DEF ids

(* The ids of all surfaces, pointwise.                                     *)
Held(id) == \E v \in Viewports : id \in IdsOf(surface[v])

(* A surface is made only while its viewport has the device.               *)
SurfaceHasDevice == \A v \in Viewports : HasSurface(v) => runtimeInited[v]

(* NoIdLeak needs IdsDisjoint: the ids one viewport frees must not be      *)
(* another's.  IdsDisjoint needs NoIdLeak: an id that is not in the set    *)
(* must not be a surface's.  Both need SurfaceHasDevice: the set is        *)
(* emptied when bgfx is initialised.                                       *)
IdsInv == TypeOK /\ SurfaceHasDevice /\ IdsDisjoint /\ NoIdLeak

LEMMA LeakPointwise ==
    NoIdLeak <=> \A id : id \in usedViewIds /\ id # kInvalidViewId <=> Held(id)
  BY DEF NoIdLeak, Held, IdsOf

LEMMA IdFacts ==
    /\ kInvalidViewId \in ViewId
    /\ NoSurface \in [render : ViewId, blit : ViewId]
    /\ IdsOf(NoSurface) = {}
    /\ 0 \in ViewId
    /\ \A id \in ViewId : (id + 1) % NumIds \in ViewId
  <1>1. kInvalidViewId \in ViewId /\ 0 \in ViewId
    BY DEF ViewId, kInvalidViewId
  <1>2. \A id \in ViewId : (id + 1) % NumIds \in ViewId
    BY DEF ViewId
  <1> QED
    BY <1>1, <1>2 DEF NoSurface, IdsOf

(* What allocateViewId gives out is not in use, or is the invalid id.      *)
LEMMA Allocated ==
    ASSUME NEW id \in ViewId, NEW used \in SUBSET ViewId, NEW next \in ViewId,
           Allocates(id, used, next)
    PROVE  /\ id \in used => id = kInvalidViewId /\ used = ViewId
           /\ NextAfter(id, used, next) \in ViewId
  BY IdFacts DEF Allocates, NextAfter

(* createSurface, with the ids it was given.                               *)
LEMMA Creation ==
    ASSUME TypeOK, NEW v \in Viewports, NEW ok \in BOOLEAN, CreateSurface(v, ok)
    PROVE  \E r, b \in ViewId :
               /\ r \in usedViewIds => r = kInvalidViewId /\ usedViewIds = ViewId
               /\ b \in usedViewIds \cup {r}
                    => b = kInvalidViewId /\ usedViewIds \cup {r} = ViewId
               /\ nextViewId' \in ViewId
               /\ \/ /\ ok /\ r # kInvalidViewId /\ b # kInvalidViewId
                     /\ usedViewIds' = usedViewIds \cup {r, b}
                     /\ surface' = [surface EXCEPT ![v] = [render |-> r, blit |-> b]]
                  \/ /\ ~(ok /\ r # kInvalidViewId /\ b # kInvalidViewId)
                     /\ usedViewIds' = (usedViewIds \cup {r, b})
                                           \ ({r, b} \ {kInvalidViewId})
                     /\ surface' = [surface EXCEPT ![v] = NoSurface]
  <1>1. PICK r, b \in ViewId :
            LET made == [render |-> r, blit |-> b]
                afterRender == usedViewIds \cup {r}
                nextBlit == NextAfter(r, usedViewIds, nextViewId)
                created == ok /\ kInvalidViewId \notin {r, b}
            IN /\ Allocates(r, usedViewIds, nextViewId)
               /\ Allocates(b, afterRender, nextBlit)
               /\ nextViewId' = NextAfter(b, afterRender, nextBlit)
               /\ usedViewIds' = IF created
                                   THEN afterRender \cup {b}
                                   ELSE Freed(afterRender \cup {b}, made)
               /\ surface' = [surface EXCEPT ![v] =
                                  IF created THEN made ELSE NoSurface]
    BY DEF CreateSurface, TakeIds
  <1>2. /\ r \in usedViewIds => r = kInvalidViewId /\ usedViewIds = ViewId
        /\ NextAfter(r, usedViewIds, nextViewId) \in ViewId
    BY <1>1, Allocated DEF TypeOK
  <1>3. /\ b \in usedViewIds \cup {r}
             => b = kInvalidViewId /\ usedViewIds \cup {r} = ViewId
        /\ nextViewId' \in ViewId
    <2> DEFINE afterRender == usedViewIds \cup {r}
               nextBlit == NextAfter(r, usedViewIds, nextViewId)
    <2>1. afterRender \in SUBSET ViewId
      BY DEF TypeOK
    <2>2. /\ Allocates(b, afterRender, nextBlit)
          /\ nextViewId' = NextAfter(b, afterRender, nextBlit)
          /\ nextBlit \in ViewId
      BY <1>1, <1>2
    <2> HIDE DEF afterRender, nextBlit
    <2>3. /\ b \in afterRender => b = kInvalidViewId /\ afterRender = ViewId
          /\ NextAfter(b, afterRender, nextBlit) \in ViewId
      BY <2>1, <2>2, Allocated
    <2> QED
      BY <2>2, <2>3 DEF afterRender
  <1>4. Freed(usedViewIds \cup {r} \cup {b}, [render |-> r, blit |-> b])
          = (usedViewIds \cup {r, b}) \ ({r, b} \ {kInvalidViewId})
    BY DEF Freed, IdsOf
  <1>5. CASE ok /\ r # kInvalidViewId /\ b # kInvalidViewId
    BY <1>1, <1>2, <1>3, <1>5
  <1>6. CASE ~(ok /\ r # kInvalidViewId /\ b # kInvalidViewId)
    BY <1>1, <1>2, <1>3, <1>4, <1>6
  <1> QED
    BY <1>5, <1>6

(* Types, and that a surface has its device, survive every step.           *)
LEMMA TypeStep ==
    TypeOK /\ SurfaceHasDevice /\ [Next]_vars => TypeOK' /\ SurfaceHasDevice'
  <1> SUFFICES ASSUME TypeOK, SurfaceHasDevice, [Next]_vars
               PROVE  TypeOK' /\ SurfaceHasDevice'
    OBVIOUS
  <1>1. ASSUME NEW v \in Viewports, NEW ok \in BOOLEAN, Acquire(v, ok)
        PROVE  TypeOK' /\ SurfaceHasDevice'
    BY <1>1, IdFacts DEF Acquire, DoInit, TypeOK, SurfaceHasDevice, HasSurface
  <1>2. ASSUME NEW v \in Viewports, NEW ok \in BOOLEAN, CreateSurface(v, ok)
        PROVE  TypeOK' /\ SurfaceHasDevice'
    <2>1. PICK r, b \in ViewId :
              /\ nextViewId' \in ViewId
              /\ usedViewIds' \subseteq ViewId
              /\ surface' \in {[surface EXCEPT ![v] = [render |-> r, blit |-> b]],
                               [surface EXCEPT ![v] = NoSurface]}
      BY <1>2, Creation DEF TypeOK
    <2>2. UNCHANGED <<initialized, refCount, runtimeInited>> /\ runtimeInited[v]
      BY <1>2 DEF CreateSurface, TakeIds
    <2> QED
      BY <2>1, <2>2, IdFacts DEF TypeOK, SurfaceHasDevice, HasSurface
  <1>3. ASSUME NEW v \in Viewports, NEW ok \in BOOLEAN, ResizeSurface(v, ok)
        PROVE  TypeOK' /\ SurfaceHasDevice'
    BY <1>3, IdFacts DEF ResizeSurface, KeepIds, Freed, TypeOK, SurfaceHasDevice, HasSurface
  <1>4. ASSUME NEW v \in Viewports, DrainAndRelease(v)
        PROVE  TypeOK' /\ SurfaceHasDevice'
    BY <1>4, IdFacts DEF DrainAndRelease, Freed, TypeOK, SurfaceHasDevice, HasSurface
  <1>5. CASE UNCHANGED vars
    BY <1>5 DEF vars, TypeOK, SurfaceHasDevice, HasSurface
  <1> QED
    BY <1>1, <1>2, <1>3, <1>4, <1>5 DEF Next

(* A viewport gives its ids back: those of the others are untouched.       *)
LEMMA FreeStep ==
    ASSUME IdsInv, NEW v \in Viewports,
           usedViewIds' = Freed(usedViewIds, surface[v]),
           surface' = [surface EXCEPT ![v] = NoSurface]
    PROVE  IdsDisjoint' /\ NoIdLeak'
  <1>1. \A w \in Viewports :
            IdsOf(surface'[w]) = IF w = v THEN {} ELSE IdsOf(surface[w])
    BY IdFacts DEF IdsInv, TypeOK
  <1>2. IdsDisjoint'
    BY <1>1, IdFacts DEF IdsInv, TypeOK, IdsDisjoint, HasSurface
  <1>3. \A id : id \in usedViewIds' /\ id # kInvalidViewId <=> Held(id)'
    <2> SUFFICES ASSUME NEW id
                 PROVE  id \in usedViewIds' /\ id # kInvalidViewId <=> Held(id)'
      OBVIOUS
    <2>1. id \in usedViewIds /\ id # kInvalidViewId <=> Held(id)
      BY LeakPointwise DEF IdsInv
    <2>2. Held(id)' <=> \E w \in Viewports \ {v} : id \in IdsOf(surface[w])
      BY <1>1 DEF Held
    <2>3. \A w \in Viewports \ {v} : IdsOf(surface[w]) \cap IdsOf(surface[v]) = {}
      BY DEF IdsInv, IdsDisjoint
    <2> QED
      BY <2>1, <2>2, <2>3 DEF Held, Freed
  <1>4. NoIdLeak'
    BY <1>3 DEF NoIdLeak, Held, IdsOf
  <1> QED
    BY <1>2, <1>4

(* Two fresh ids go to a viewport that has none, or to nobody.             *)
LEMMA CreateStep ==
    ASSUME IdsInv, NEW v \in Viewports, NEW ok \in BOOLEAN, CreateSurface(v, ok)
    PROVE  IdsDisjoint' /\ NoIdLeak'
  <1>1. PICK r, b \in ViewId :
            /\ r \in usedViewIds => r = kInvalidViewId
            /\ b \in usedViewIds \cup {r} => b = kInvalidViewId
            /\ \/ /\ r # kInvalidViewId /\ b # kInvalidViewId
                  /\ usedViewIds' = usedViewIds \cup {r, b}
                  /\ surface' = [surface EXCEPT ![v] = [render |-> r, blit |-> b]]
               \/ /\ usedViewIds' = (usedViewIds \cup {r, b})
                                        \ ({r, b} \ {kInvalidViewId})
                  /\ surface' = [surface EXCEPT ![v] = NoSurface]
    BY Creation DEF IdsInv
  <1>2. surface[v] = NoSurface /\ IdsOf(surface[v]) = {}
    BY IdFacts DEF CreateSurface, TakeIds, HasSurface
  <1>3. \A id : id \in usedViewIds /\ id # kInvalidViewId <=> Held(id)
    BY LeakPointwise DEF IdsInv
  <1>4. CASE /\ r # kInvalidViewId /\ b # kInvalidViewId
             /\ usedViewIds' = usedViewIds \cup {r, b}
             /\ surface' = [surface EXCEPT ![v] = [render |-> r, blit |-> b]]
    <2>1. \A w \in Viewports :
              /\ w = v => surface'[w] = [render |-> r, blit |-> b]
              /\ w # v => surface'[w] = surface[w]
              /\ IdsOf(surface'[w]) = IF w = v THEN {r, b} ELSE IdsOf(surface[w])
      BY <1>4 DEF IdsInv, TypeOK, IdsOf
    <2>2. \A w \in Viewports : r \notin IdsOf(surface[w]) /\ b \notin IdsOf(surface[w])
      BY <1>1, <1>3, <1>4 DEF Held
    <2>3. IdsDisjoint'
      BY <2>1, <2>2, <1>1, <1>4 DEF IdsInv, IdsDisjoint, HasSurface
    <2>4. \A id : id \in usedViewIds' /\ id # kInvalidViewId <=> Held(id)'
      BY <2>1, <1>2, <1>3, <1>4 DEF Held
    <2> QED
      BY <2>3, <2>4 DEF NoIdLeak, Held, IdsOf
  <1>5. CASE /\ usedViewIds' = (usedViewIds \cup {r, b})
                                  \ ({r, b} \ {kInvalidViewId})
             /\ surface' = [surface EXCEPT ![v] = NoSurface]
    <2>1. surface' = surface
      BY <1>2, <1>5 DEF IdsInv, TypeOK
    <2>2. usedViewIds' \ {kInvalidViewId} = usedViewIds \ {kInvalidViewId}
      BY <1>1, <1>5
    <2> QED
      BY <2>1, <2>2 DEF IdsInv, IdsDisjoint, NoIdLeak, HasSurface
  <1> QED
    BY <1>1, <1>4, <1>5

LEMMA IdsStep == IdsInv /\ [Next]_vars => IdsInv'
  <1> SUFFICES ASSUME IdsInv, [Next]_vars PROVE IdsInv'
    OBVIOUS
  <1>1. TypeOK' /\ SurfaceHasDevice'
    BY TypeStep DEF IdsInv
  <1>2. ASSUME UNCHANGED surface,
               \/ UNCHANGED usedViewIds
               \/ usedViewIds' = {} /\ ~initialized
        PROVE  IdsDisjoint' /\ NoIdLeak'
    <2>1. CASE UNCHANGED usedViewIds
      BY <1>2, <2>1 DEF IdsInv, IdsDisjoint, NoIdLeak, HasSurface
    <2>2. CASE usedViewIds' = {} /\ ~initialized
      <3>1. \A w \in Viewports : surface[w] = NoSurface
        BY <2>2 DEF IdsInv, TypeOK, SurfaceHasDevice, HasSurface
      <3>2. UNION {IdsOf(surface'[w]) : w \in Viewports} = {}
        BY <3>1, <1>2, IdFacts
      <3> QED
        BY <3>2, <2>2, <1>2 DEF IdsInv, IdsDisjoint, NoIdLeak, HasSurface
    <2> QED
      BY <1>2, <2>1, <2>2
  <1>3. ASSUME NEW v \in Viewports, NEW ok \in BOOLEAN, Acquire(v, ok)
        PROVE  IdsDisjoint' /\ NoIdLeak'
    BY <1>2, <1>3 DEF Acquire, DoInit, IdsInv, TypeOK
  <1>4. ASSUME NEW v \in Viewports, NEW ok \in BOOLEAN, ResizeSurface(v, ok)
        PROVE  IdsDisjoint' /\ NoIdLeak'
    <2>1. CASE ok
      BY <1>2, <1>4, <2>1 DEF ResizeSurface, KeepIds
    <2>2. CASE ~ok
      BY FreeStep, <1>4, <2>2 DEF ResizeSurface, KeepIds
    <2> QED
      BY <2>1, <2>2
  <1>5. ASSUME NEW v \in Viewports, DrainAndRelease(v)
        PROVE  IdsDisjoint' /\ NoIdLeak'
    BY FreeStep, <1>5 DEF DrainAndRelease
  <1>6. ASSUME UNCHANGED vars PROVE IdsDisjoint' /\ NoIdLeak'
    BY <1>2, <1>6 DEF vars
  <1>7. IdsDisjoint' /\ NoIdLeak'
    BY <1>3, <1>4, <1>5, <1>6, CreateStep DEF Next
  <1> QED
    BY <1>1, <1>7 DEF IdsInv

LEMMA IdsInit == Init => IdsInv
  <1> SUFFICES ASSUME Init PROVE IdsInv
    OBVIOUS
  <1>1. TypeOK /\ SurfaceHasDevice
    BY IdFacts DEF Init, TypeOK, SurfaceHasDevice, HasSurface
  <1>2. \A v \in Viewports : surface[v] = NoSurface
    BY DEF Init
  <1>3. IdsDisjoint
    BY <1>2, IdFacts DEF IdsDisjoint, HasSurface
  <1>4. NoIdLeak
    <2>1. UNION {IdsOf(surface[v]) : v \in Viewports} = {}
      BY <1>2, IdFacts
    <2> QED
      BY <2>1 DEF Init, NoIdLeak
  <1> QED
    BY <1>1, <1>3, <1>4 DEF IdsInv
-----------------------------------------------------------------------------
LEMMA IdsAlways == Spec => []IdsInv
  BY IdsInit, IdsStep, PTL DEF Spec

(* The variables keep their types, and bgfx runs under every viewport that *)
(* has acquired it.                                                        *)
THEOREM TypeCorrect == Spec => []TypeOK
  BY IdsAlways, PTL DEF IdsInv

(* allocateViewId never gives out an id that a surface has.                *)
THEOREM IdsUnique == Spec => []IdsDisjoint
  BY IdsAlways, PTL DEF IdsInv

(* No failing creation or resize, and no teardown, loses a view id.        *)
THEOREM IdsReturned == Spec => []NoIdLeak
  BY IdsAlways, PTL DEF IdsInv

(* createSurface finds two ids whenever two are free, but for the one time *)
(* the last of them is kInvalidViewId.                                     *)
THEOREM RefusalsHaveCause == Spec => RefusedForCause
  <1>1. ASSUME TypeOK, NEW v \in Viewports, CreateSurface(v, TRUE),
               surface'[v] = NoSurface
        PROVE  \/ kInvalidViewId \in usedViewIds' \ usedViewIds
               \/ \A r, b \in ViewId \ usedViewIds : r = b
    <2>1. PICK r, b \in ViewId :
              /\ r \in usedViewIds => r = kInvalidViewId /\ usedViewIds = ViewId
              /\ b \in usedViewIds \cup {r}
                   => b = kInvalidViewId /\ usedViewIds \cup {r} = ViewId
              /\ nextViewId' \in ViewId
              /\ \/ /\ TRUE /\ r # kInvalidViewId /\ b # kInvalidViewId
                    /\ usedViewIds' = usedViewIds \cup {r, b}
                    /\ surface' = [surface EXCEPT ![v] = [render |-> r, blit |-> b]]
                 \/ /\ ~(TRUE /\ r # kInvalidViewId /\ b # kInvalidViewId)
                    /\ usedViewIds' = (usedViewIds \cup {r, b})
                                          \ ({r, b} \ {kInvalidViewId})
                    /\ surface' = [surface EXCEPT ![v] = NoSurface]
      <3>1. TRUE \in BOOLEAN
        OBVIOUS
      <3> QED
        BY <1>1, <3>1, Creation, Zenon
    <2>2. r = kInvalidViewId \/ b = kInvalidViewId
      <3>1. SUFFICES ASSUME surface' = [surface EXCEPT ![v] = [render |-> r, blit |-> b]],
                            r # kInvalidViewId
                     PROVE  FALSE
        BY <2>1
      <3>2. surface'[v] = [render |-> r, blit |-> b]
        BY <3>1, <1>1 DEF TypeOK
      <3> QED
        BY <3>1, <3>2, <1>1 DEF NoSurface
    <2>3. usedViewIds' = (usedViewIds \cup {r, b}) \ ({r, b} \ {kInvalidViewId})
      BY <2>1, <2>2
    <2>4. CASE kInvalidViewId \in usedViewIds
      BY <2>1, <2>2, <2>4
    <2>5. CASE kInvalidViewId \notin usedViewIds
      BY <2>2, <2>3, <2>5
    <2> QED
      BY <2>4, <2>5
  <1>2. TypeOK => [\A v \in Viewports :
                      CreateSurface(v, TRUE) /\ surface'[v] = NoSurface
                        => \/ kInvalidViewId \in usedViewIds' \ usedViewIds
                           \/ \A r, b \in ViewId \ usedViewIds : r = b]_vars
    BY <1>1
  <1> QED
    BY <1>2, TypeCorrect, PTL DEF RefusedForCause

(* A viewport that was given the device holds a reference, so that its     *)
(* release() never meets a count of zero.                                  *)
THEOREM RefsSuffice == Spec => []RefsCover
  <1> DEFINE Running == {v \in Viewports : runtimeInited[v]}
  <1>1. IsFiniteSet(Running) /\ IsFiniteSet(Running')
    BY FS_Subset
  <1>2. Init => RefsCover
    <2>1. Init => Running = {}
      BY DEF Init
    <2> QED
      BY <2>1, FS_EmptySet DEF Init, RefsCover
  <1>3. TypeOK /\ RefsCover /\ [Next]_vars => RefsCover'
    <2> SUFFICES ASSUME TypeOK, RefsCover, [Next]_vars PROVE RefsCover'
      OBVIOUS
    <2>1. Cardinality(Running) \in Nat /\ Cardinality(Running) <= refCount
      BY <1>1, FS_CardinalityType DEF RefsCover
    <2>2. ASSUME UNCHANGED <<refCount, runtimeInited>> PROVE RefsCover'
      BY <2>2 DEF RefsCover
    <2>3. ASSUME NEW v \in Viewports, NEW ok \in BOOLEAN, Acquire(v, ok)
          PROVE  RefsCover'
      <3>1. v \notin Running /\ refCount' = refCount + 1
        BY <2>3 DEF Acquire
      <3>2. Cardinality(Running \cup {v}) = Cardinality(Running) + 1
        <4> HIDE DEF Running
        <4> QED
          BY <1>1, <3>1, FS_AddElement
      <3>3. CASE Running' = Running
        <4>1. Cardinality(Running') <= refCount'
          <5>1. refCount \in Nat
            BY DEF TypeOK
          <5> HIDE DEF Running
          <5> QED
            BY <3>1, <3>3, <2>1, <5>1
        <4> QED
          BY <4>1 DEF RefsCover
      <3>4. CASE Running' = Running \cup {v}
        <4>1. Cardinality(Running') <= refCount'
          <5>1. refCount \in Nat
            BY DEF TypeOK
          <5> HIDE DEF Running
          <5> QED
            BY <3>1, <3>2, <3>4, <2>1, <5>1
        <4> QED
          BY <4>1 DEF RefsCover
      <3>5. Running' \in {Running, Running \cup {v}}
        BY <2>3 DEF Acquire, DoInit, TypeOK
      <3> QED
        BY <3>3, <3>4, <3>5
    <2>4. ASSUME NEW v \in Viewports, DrainAndRelease(v)
          PROVE  RefsCover'
      <3>1. v \in Running /\ Running' = Running \ {v}
        BY <2>4 DEF DrainAndRelease, TypeOK
      <3>2. Cardinality(Running') = Cardinality(Running) - 1
        BY <1>1, <3>1, FS_RemoveElement
      <3>3. Cardinality(Running') \in Nat
        BY <1>1, FS_CardinalityType
      <3> QED
        BY <3>2, <3>3, <2>1, <2>4 DEF DrainAndRelease, RefsCover, TypeOK
    <2> QED
      BY <2>2, <2>3, <2>4 DEF Next, CreateSurface, TakeIds, ResizeSurface, KeepIds, vars
  <1> QED
    BY <1>2, <1>3, TypeCorrect, PTL DEF Spec

(* Surfaces and references are accounted for, as the run checks.           *)
THEOREM DeviceKept == Spec => []DeviceAccounted
  BY TypeCorrect, IdsUnique, IdsReturned, RefsSuffice, PTL DEF DeviceAccounted
-----------------------------------------------------------------------------
(* Surfaces.  With what RenderDevice keeps, their properties are inductive.*)
SurfInv == SurfaceTypeOK /\ SurfacesWhole /\ ViewsDrawHome

LEMMA SizeFacts ==
    /\ NumTextures \in Nat /\ NumTextures >= 2
    /\ NoSize \in [w : Nat, h : Nat]
    /\ NoParts \in [frame : Frames \cup {NoFrame}, textures : Nat,
                    size : [w : Nat, h : Nat], alive : Int]
    /\ NoParts.frame = NoFrame /\ NoParts.textures = 0 /\ NoParts.alive = 0
  BY SurfaceAssumption DEF NumTextures, NoSize, NoParts

(* The back buffer grows, and covers the size it was asked to.             *)
LEMMA BackGrows ==
    ASSUME NEW b \in [w : Nat, h : Nat], NEW s \in [w : Nat, h : Nat]
    PROVE  /\ Grown(b, s) \in [w : Nat, h : Nat]
           /\ b.w <= Grown(b, s).w /\ b.h <= Grown(b, s).h
           /\ s.w <= Grown(b, s).w /\ s.h <= Grown(b, s).h
  BY DEF Grown, Larger

(* Nothing is left of a surface that is destroyed, nor of one that could   *)
(* not be made.                                                            *)
LEMMA EmptiedIsNothing ==
    ASSUME SurfInv, NEW v \in Viewports PROVE Emptied(parts[v]) = NoParts
  <1>1. parts[v].alive = parts[v].textures /\ parts[v].textures \in Nat
    BY DEF SurfInv, SurfacesWhole, SurfaceTypeOK
  <1> QED
    BY <1>1 DEF Emptied, NoParts

LEMMA CreatedOrNothing ==
    ASSUME NEW s \in Sizes, NEW n \in 0 .. NumTextures, NEW f
    PROVE  Created(NoParts, s, n, f) =
             IF n = NumTextures /\ f # NoFrame
               THEN [frame |-> f, textures |-> n, size |-> s, alive |-> n]
               ELSE NoParts
  BY SizeFacts DEF Created, Emptied, NoParts

LEMMA EmptiedAgain == Emptied(NoParts) = NoParts
  BY DEF Emptied, NoParts

(* A surface is replaced by a whole one or by none, with ids to match.     *)
Whole(p, b) ==
    /\ p.textures = NumTextures /\ p.alive = NumTextures
    /\ p.size \in Sizes /\ p.size.w <= b.w /\ p.size.h <= b.h

LEMMA Replaced ==
    ASSUME IdsInv, IdsInv', SurfInv, NEW v \in Viewports,
           NEW p \in [frame : Frames \cup {NoFrame}, textures : Nat,
                      size : [w : Nat, h : Nat], alive : Int],
           Replace(v, p), Bind(v),
           back' \in [w : Nat, h : Nat], back.w <= back'.w, back.h <= back'.h,
           \A w \in Viewports \ {v} : surface'[w] = surface[w],
           \/ p = NoParts /\ surface'[v] = NoSurface
           \/ /\ p.frame \in Frames \ (frames \ {parts[v].frame})
              /\ Whole(p, back') /\ surface'[v] # NoSurface
    PROVE  SurfInv'
  <1> DEFINE Parts == [frame : Frames \cup {NoFrame}, textures : Nat,
                       size : [w : Nat, h : Nat], alive : Int]
  <1>1. \A w \in Viewports : parts[w] \in Parts
    BY DEF SurfInv, SurfaceTypeOK
  <1>2. /\ parts' \in [Viewports -> Parts]
        /\ \A w \in Viewports : parts'[w] = IF w = v THEN p ELSE parts[w]
    BY DEF SurfInv, SurfaceTypeOK, Replace
  <1>3. frames = {parts[w].frame : w \in Viewports} \ {NoFrame}
    BY DEF SurfInv, SurfacesWhole
  <1>4. \A w \in Viewports : HasSurface(w) <=> parts[w].frame # NoFrame
    BY SizeFacts DEF SurfInv, SurfacesWhole
  <1>5. \A w \in Viewports : HasSurface(w)' <=> surface'[w] # NoSurface
    BY DEF HasSurface
  <1>6. \A w, u \in Viewports : w # u /\ parts[w].frame # NoFrame
                                   => parts[w].frame # parts[u].frame
    BY <1>4 DEF SurfInv, ViewsDrawHome
  <1>7. p.frame # NoFrame => \A w \in Viewports \ {v} : parts[w].frame # p.frame
    <2> SUFFICES ASSUME p.frame # NoFrame, NEW w \in Viewports \ {v},
                        parts[w].frame = p.frame
                 PROVE  FALSE
      OBVIOUS
    <2>1. p.frame \notin frames \/ p.frame = parts[v].frame
      BY SizeFacts
    <2>2. p.frame \in frames
      BY <1>3
    <2> QED
      BY <2>1, <2>2, <1>6
  <1>8. frames' = {parts'[w].frame : w \in Viewports} \ {NoFrame}
    <2>1. frames' = (frames \ {parts[v].frame}) \cup ({p.frame} \ {NoFrame})
      BY DEF Replace
    <2>2. ASSUME NEW f PROVE f \in frames' <=> f \in {parts'[w].frame : w \in Viewports} \ {NoFrame}
      <3>1. f \in frames <=> f # NoFrame /\ \E w \in Viewports : f = parts[w].frame
        BY <1>3
      <3>2. f \in {parts'[w].frame : w \in Viewports} \ {NoFrame}
              <=> f # NoFrame /\ \E w \in Viewports : f = parts'[w].frame
        OBVIOUS
      <3>3. (\E w \in Viewports : f = parts'[w].frame)
              <=> f = p.frame \/ \E w \in Viewports \ {v} : f = parts[w].frame
        BY <1>2
      <3> QED
        BY <2>1, <3>1, <3>2, <3>3, <1>6
    <2> QED
      BY <2>2
  <1>9. frames' \subseteq Frames
    BY <1>2, <1>8, SurfaceAssumption
  <1>10. \A w \in Viewports : HasSurface(w)' =>
            /\ surface'[w].render \in ViewId /\ surface'[w].blit \in ViewId
            /\ surface'[w].render # surface'[w].blit
            /\ \A u \in Viewports \ {w} :
                  /\ surface'[w].render \notin {surface'[u].render, surface'[u].blit}
                  /\ surface'[w].blit \notin {surface'[u].render, surface'[u].blit}
    <2>1. \A w \in Viewports : surface'[w] \in [render : ViewId, blit : ViewId]
      BY DEF IdsInv, TypeOK
    <2>2. \A w \in Viewports : surface'[w] # NoSurface =>
              /\ surface'[w].render # surface'[w].blit
              /\ kInvalidViewId # surface'[w].render /\ kInvalidViewId # surface'[w].blit
      BY DEF IdsInv, IdsDisjoint, HasSurface
    <2>3. \A w, u \in Viewports : w # u =>
              ({surface'[w].render, surface'[w].blit} \ {kInvalidViewId})
                \cap ({surface'[u].render, surface'[u].blit} \ {kInvalidViewId}) = {}
      BY DEF IdsInv, IdsDisjoint, IdsOf
    <2> QED
      BY <2>1, <2>2, <2>3, <1>5
  <1>11. SurfaceTypeOK'
    <2>1. target' \in [ViewId -> Frames \cup {NoFrame}]
      BY <1>2 DEF Bind, SurfInv, SurfaceTypeOK
    <2> QED
      BY <2>1, <1>2, <1>9 DEF SurfaceTypeOK
  <1>12. SurfacesWhole'
    <2>1. ASSUME NEW w \in Viewports
          PROVE  /\ parts'[w].alive = parts'[w].textures
                 /\ \/ /\ HasSurface(w)' /\ parts'[w].frame # NoFrame
                       /\ parts'[w].textures = NumTextures
                       /\ parts'[w].size \in Sizes
                       /\ parts'[w].size.w <= back'.w /\ parts'[w].size.h <= back'.h
                    \/ ~HasSurface(w)' /\ parts'[w] = NoParts
      <3>1. CASE w = v
        BY <3>1, <1>2, <1>5, SizeFacts, SurfaceAssumption DEF Whole
      <3>2. CASE w # v
        <4>1. parts'[w] = parts[w] /\ (HasSurface(w)' <=> HasSurface(w))
          BY <3>2, <1>2, <1>5 DEF HasSurface
        <4>2. parts[w].size.w \in Nat /\ parts[w].size.h \in Nat
          BY <1>1
        <4>3. back.w \in Nat /\ back.h \in Nat /\ back'.w \in Nat /\ back'.h \in Nat
          BY DEF SurfInv, SurfaceTypeOK
        <4>4. parts[w].size.w <= back.w => parts[w].size.w <= back'.w
          BY <4>2, <4>3
        <4>5. parts[w].size.h <= back.h => parts[w].size.h <= back'.h
          BY <4>2, <4>3
        <4> QED
          BY <4>1, <4>4, <4>5 DEF SurfInv, SurfacesWhole
      <3> QED
        BY <3>1, <3>2
    <2> QED
      BY <2>1, <1>8, <1>11 DEF SurfacesWhole
  <1>13. ASSUME NEW w \in Viewports, HasSurface(w)'
         PROVE  /\ target'[surface'[w].render] = parts'[w].frame
                /\ target'[surface'[w].blit] = NoFrame
    <2>1. CASE p.frame = NoFrame
      <3>1. w # v
        BY <2>1, <1>13, <1>5, SurfaceAssumption
      <3>2. HasSurface(w) /\ surface'[w] = surface[w] /\ parts'[w] = parts[w]
        BY <3>1, <1>2, <1>13 DEF HasSurface
      <3>3. target' = target
        BY <2>1, <1>2 DEF Bind
      <3> QED
        BY <3>2, <3>3 DEF SurfInv, ViewsDrawHome
    <2>2. CASE p.frame # NoFrame
      <3>1. /\ surface'[v] # NoSurface
            /\ target' = [target EXCEPT ![surface'[v].render] = p.frame,
                                        ![surface'[v].blit] = NoFrame]
        BY <2>2, <1>2, SizeFacts DEF Bind
      <3>2. target \in [ViewId -> Frames \cup {NoFrame}]
        BY DEF SurfInv, SurfaceTypeOK
      <3>3. CASE w = v
        BY <3>1, <3>2, <3>3, <1>2, <1>10, <1>13
      <3>4. CASE w # v
        <4>1. HasSurface(w) /\ surface'[w] = surface[w] /\ parts'[w] = parts[w]
          BY <3>4, <1>2, <1>13 DEF HasSurface
        <4>2. /\ target'[surface'[w].render] = target[surface'[w].render]
              /\ target'[surface'[w].blit] = target[surface'[w].blit]
          BY <3>1, <3>2, <3>4, <1>10, <1>13
        <4> QED
          BY <4>1, <4>2 DEF SurfInv, ViewsDrawHome
      <3> QED
        BY <3>3, <3>4
    <2> QED
      BY <2>1, <2>2
  <1>14. ViewsDrawHome'
    <2>1. ASSUME NEW w \in Viewports, HasSurface(w)',
                 NEW u \in Viewports \ {w}, HasSurface(u)'
          PROVE  parts'[u].frame # parts'[w].frame
      <3>1. u # v => parts'[u] = parts[u] /\ HasSurface(u)
        BY <2>1, <1>2 DEF HasSurface
      <3>2. w # v => parts'[w] = parts[w] /\ HasSurface(w)
        BY <2>1, <1>2 DEF HasSurface
      <3>3. u = v \/ w = v => p.frame # NoFrame
        BY <2>1, <1>5, SurfaceAssumption
      <3> QED
        BY <3>1, <3>2, <3>3, <1>2, <1>4, <1>6, <1>7
    <2> QED
      BY <2>1, <1>13 DEF ViewsDrawHome
  <1> QED
    BY <1>11, <1>12, <1>14 DEF SurfInv

LEMMA SurfaceStep ==
    ASSUME IdsInv, SurfInv, [SurfaceNext]_<<vars, surfaceVars>>
    PROVE  [Next]_vars /\ SurfInv'
  <1> DEFINE Parts == [frame : Frames \cup {NoFrame}, textures : Nat,
                       size : [w : Nat, h : Nat], alive : Int]
  <1>1. \A w \in Viewports :
           /\ HasSurface(w) <=> parts[w].frame # NoFrame
           /\ surface[w] \in [render : ViewId, blit : ViewId]
    BY SizeFacts DEF SurfInv, SurfacesWhole, IdsInv, TypeOK
  <1>2. back \in [w : Nat, h : Nat] /\ \A s \in Sizes : s \in [w : Nat, h : Nat]
    BY SurfaceAssumption DEF SurfInv, SurfaceTypeOK
  <1>3. ASSUME UNCHANGED <<surface, parts, frames, target>>,
               back' \in [w : Nat, h : Nat], back.w <= back'.w, back.h <= back'.h
        PROVE  SurfInv'
    <2>1. SurfaceTypeOK' /\ ViewsDrawHome'
      BY <1>3 DEF SurfInv, SurfaceTypeOK, ViewsDrawHome, HasSurface
    <2>2. \A w \in Viewports : /\ parts[w].size.w <= back.w => parts[w].size.w <= back'.w
                               /\ parts[w].size.h <= back.h => parts[w].size.h <= back'.h
      <3> TAKE w \in Viewports
      <3>1. /\ parts[w].size.w \in Nat /\ parts[w].size.h \in Nat
            /\ back.w \in Nat /\ back.h \in Nat /\ back'.w \in Nat /\ back'.h \in Nat
        BY <1>2, <1>3 DEF SurfInv, SurfaceTypeOK
      <3> QED
        BY <3>1, <1>3
    <2>3. SurfacesWhole'
      BY <1>3, <2>1, <2>2 DEF SurfInv, SurfacesWhole, HasSurface
    <2> QED
      BY <2>1, <2>3 DEF SurfInv
  <1>4. ASSUME NEW v \in Viewports, NEW s \in Sizes, NEW ok \in BOOLEAN, Start(v, s, ok)
        PROVE  [Next]_vars /\ SurfInv'
    <2>1. Next /\ UNCHANGED <<surface, parts, frames, target>>
      BY <1>4 DEF Start, Next, Acquire
    <2>2. CASE initialized
      <3>1. back' = Grown(back, s)
        BY <1>4, <2>2 DEF Start
      <3> QED
        BY <2>1, <3>1, <1>2, <1>3, BackGrows
    <2>3. CASE ~initialized
      <3>1. back' \in [w : Nat, h : Nat]
        BY <1>2, <1>4, <2>3, BackGrows, SizeFacts DEF Start
      <3>2. \A w \in Viewports : ~HasSurface(w)
        BY <2>3 DEF IdsInv, TypeOK, SurfaceHasDevice
      <3>3. SurfInv'
        BY <2>1, <3>1, <3>2 DEF SurfInv, SurfaceTypeOK, SurfacesWhole, ViewsDrawHome, HasSurface
      <3> QED
        BY <2>1, <3>3
    <2> QED
      BY <2>2, <2>3
  <1>5. ASSUME NEW v \in Viewports, NEW s \in Sizes, NEW n \in 0 .. NumTextures,
               NEW f \in (Frames \ (frames \ {parts[v].frame})) \cup {NoFrame},
               Make(v, s, n, f)
        PROVE  [Next]_vars /\ SurfInv'
    <2> DEFINE whole == n = NumTextures /\ f # NoFrame
    <2>1. CreateSurface(v, whole) /\ whole \in BOOLEAN
      BY <1>1, <1>5 DEF Make, CreateSurface
    <2>2. Next
      BY <2>1 DEF Next
    <2>3. IdsInv'
      BY <2>2, IdsStep
    <2>4. /\ \A w \in Viewports \ {v} : surface'[w] = surface[w]
          /\ ~whole => surface'[v] = NoSurface
      <3>1. PICK r, b \in ViewId :
                \/ whole /\ surface' = [surface EXCEPT ![v] = [render |-> r, blit |-> b]]
                \/ surface' = [surface EXCEPT ![v] = NoSurface]
        <4>1. TypeOK
          BY DEF IdsInv
        <4> HIDE DEF whole
        <4> QED
          BY <4>1, <2>1, Creation
      <3> QED
        BY <3>1 DEF IdsInv, TypeOK
    <2>5. Emptied(parts[v]) = NoParts /\ Emptied(Emptied(parts[v])) = NoParts
      BY EmptiedIsNothing, EmptiedAgain
    <2>6. PICK p : /\ Replace(v, p)
                   /\ p = IF whole /\ surface'[v] # NoSurface
                            THEN [frame |-> f, textures |-> n, size |-> s, alive |-> n]
                            ELSE NoParts
      BY <1>5, <2>5, CreatedOrNothing DEF Make
    <2>7. Bind(v) /\ back' = Grown(back, s)
      BY <1>5 DEF Make
    <2>8. p \in Parts
      BY <1>2, <1>5, <2>6, SizeFacts
    <2>9. /\ back' \in [w : Nat, h : Nat] /\ back.w <= back'.w /\ back.h <= back'.h
          /\ s.w <= back'.w /\ s.h <= back'.h
      BY <2>7, <1>2, BackGrows
    <2>10. \/ p = NoParts /\ surface'[v] = NoSurface
           \/ /\ p.frame \in Frames \ (frames \ {parts[v].frame})
              /\ Whole(p, back') /\ surface'[v] # NoSurface
      <3>1. CASE whole /\ surface'[v] # NoSurface
        BY <3>1, <1>5, <2>6, <2>9 DEF Whole
      <3>2. CASE ~(whole /\ surface'[v] # NoSurface)
        BY <3>2, <2>4, <2>6
      <3> QED
        BY <3>1, <3>2
    <2> HIDE DEF whole
    <2>11. SurfInv'
      BY <2>3, <2>4, <2>6, <2>7, <2>8, <2>9, <2>10, Replaced
    <2> QED
      BY <2>2, <2>11
  <1>6. ASSUME NEW v \in Viewports, NEW s \in Sizes, NEW n \in 0 .. NumTextures,
               NEW f \in (Frames \ (frames \ {parts[v].frame})) \cup {NoFrame},
               Resize(v, s, n, f)
        PROVE  [Next]_vars /\ SurfInv'
    <2> DEFINE whole == n = NumTextures /\ f # NoFrame
    <2>1. ResizeSurface(v, whole) /\ whole \in BOOLEAN /\ surface[v] # NoSurface
      BY <1>1, <1>6 DEF Resize, ResizeSurface, HasSurface
    <2>2. Next
      BY <2>1 DEF Next
    <2>3. IdsInv'
      BY <2>2, IdsStep
    <2>4. /\ \A w \in Viewports \ {v} : surface'[w] = surface[w]
          /\ surface'[v] = IF whole THEN surface[v] ELSE NoSurface
      BY <2>1 DEF ResizeSurface, KeepIds, IdsInv, TypeOK
    <2>5. Emptied(parts[v]) = NoParts
      BY EmptiedIsNothing
    <2>6. PICK p : /\ Replace(v, p)
                   /\ p = IF whole
                            THEN [frame |-> f, textures |-> n, size |-> s, alive |-> n]
                            ELSE NoParts
      BY <1>6, <2>5, CreatedOrNothing DEF Resize
    <2>7. Bind(v) /\ back' = Grown(back, s)
      BY <1>6 DEF Resize
    <2>8. p \in Parts
      BY <1>2, <1>6, <2>6, SizeFacts
    <2>9. /\ back' \in [w : Nat, h : Nat] /\ back.w <= back'.w /\ back.h <= back'.h
          /\ s.w <= back'.w /\ s.h <= back'.h
      BY <2>7, <1>2, BackGrows
    <2>10. \/ p = NoParts /\ surface'[v] = NoSurface
           \/ /\ p.frame \in Frames \ (frames \ {parts[v].frame})
              /\ Whole(p, back') /\ surface'[v] # NoSurface
      <3>1. CASE whole
        BY <3>1, <1>6, <2>1, <2>4, <2>6, <2>9 DEF Whole
      <3>2. CASE ~whole
        BY <3>2, <2>4, <2>6
      <3> QED
        BY <3>1, <3>2
    <2> HIDE DEF whole
    <2>11. SurfInv'
      BY <2>3, <2>4, <2>6, <2>7, <2>8, <2>9, <2>10, Replaced
    <2> QED
      BY <2>2, <2>11
  <1>7. ASSUME NEW v \in Viewports, Drain(v)
        PROVE  [Next]_vars /\ SurfInv'
    <2>1. Next /\ DrainAndRelease(v)
      BY <1>7 DEF Drain, Next
    <2>2. IdsInv'
      BY <2>1, IdsStep
    <2>3. /\ \A w \in Viewports \ {v} : surface'[w] = surface[w]
          /\ surface'[v] = NoSurface
      BY <2>1 DEF DrainAndRelease, IdsInv, TypeOK
    <2>4. Replace(v, NoParts) /\ UNCHANGED <<target, back>>
      BY <1>7, EmptiedIsNothing DEF Drain
    <2>5. parts'[v] = NoParts
      BY <2>4 DEF Replace, SurfInv, SurfaceTypeOK
    <2>6. Bind(v)
      BY <2>4, <2>5, SizeFacts DEF Bind
    <2>7. back' \in [w : Nat, h : Nat] /\ back.w <= back'.w /\ back.h <= back'.h
      BY <2>4, <1>2
    <2>8. SurfInv'
      BY <2>2, <2>3, <2>4, <2>6, <2>7, SizeFacts, Replaced
    <2> QED
      BY <2>1, <2>8
  <1>8. CASE UNCHANGED <<vars, surfaceVars>>
    <2>1. UNCHANGED <<surface, parts, frames, target, back>> /\ UNCHANGED vars
      BY <1>8 DEF vars, surfaceVars
    <2> QED
      BY <2>1, <1>2, <1>3
  <1> QED
    BY <1>4, <1>5, <1>6, <1>7, <1>8 DEF SurfaceNext

LEMMA SurfacesStart == SurfaceInit => Init /\ IdsInv /\ SurfInv
  <1> SUFFICES ASSUME SurfaceInit PROVE Init /\ IdsInv /\ SurfInv
    OBVIOUS
  <1>1. Init /\ IdsInv
    BY IdsInit DEF SurfaceInit
  <1>2. \A v \in Viewports : ~HasSurface(v) /\ parts[v] = NoParts
    BY DEF SurfaceInit, Init, HasSurface
  <1>3. SurfaceTypeOK /\ ViewsDrawHome
    BY <1>2, SizeFacts DEF SurfaceInit, SurfaceTypeOK, ViewsDrawHome
  <1>4. SurfacesWhole
    <2>1. {parts[v].frame : v \in Viewports} \ {NoFrame} = {}
      BY <1>2, SizeFacts
    <2> QED
      BY <1>2, <1>3, <2>1, SizeFacts DEF SurfaceInit, SurfacesWhole
  <1> QED
    BY <1>1, <1>3, <1>4 DEF SurfInv

LEMMA SurfacesStay == SurfaceSpec => [](IdsInv /\ SurfInv)
  <1>1. IdsInv /\ SurfInv /\ [SurfaceNext]_<<vars, surfaceVars>> => (IdsInv /\ SurfInv)'
    BY SurfaceStep, IdsStep
  <1> QED
    BY <1>1, SurfacesStart, PTL DEF SurfaceSpec

(* Surfaces with all that they are made of implement RenderDevice, which   *)
(* takes a surface to be its two view ids: createSurface is called exactly *)
(* where there are none, and a failure on the way gives them back.         *)
THEOREM DeviceInside == SurfaceSpec => Spec
  <1>1. IdsInv /\ SurfInv /\ [SurfaceNext]_<<vars, surfaceVars>> => [Next]_vars
    BY SurfaceStep
  <1> QED
    BY <1>1, SurfacesStart, SurfacesStay, PTL DEF SurfaceSpec, Spec

(* Surfaces are whole or not there, whatever fails, and leave nothing      *)
(* behind (destroySurfaceResources, createSurfaceResources).               *)
THEOREM SurfacesAlwaysWhole == SurfaceSpec => []SurfacesWhole
  BY SurfacesStay, PTL DEF SurfInv

(* A viewport renders into its own framebuffer, however ids and handles    *)
(* are used again (setViewFrameBuffer).                                    *)
THEOREM ViewsAlwaysHome == SurfaceSpec => []ViewsDrawHome
  BY SurfacesStay, PTL DEF SurfInv

(* Both, and what RenderDevice keeps, which surfaces do not change.        *)
THEOREM SurfacesAlwaysKept == SurfaceSpec => []SurfacesKept
  BY DeviceInside, DeviceKept, SurfacesAlwaysWhole, ViewsAlwaysHome, PTL DEF SurfacesKept
-----------------------------------------------------------------------------
(***************************************************************************)
(* OverlayMax: heights are of the rectangles that are shown, and a read    *)
(* has a buffer to go to.                                                  *)
(***************************************************************************)

(* Cells of no list but the current one.                                   *)
Fresh(q) == \A i \in DOMAIN q : q[i].list \in {list, 0}

(* What is measured for quads is measured for the list they come from.     *)
TexturesKept ==
    /\ screen \in Lists /\ Len(world) <= MaxRects
    /\ Len(tex.cells) = tex.width /\ readWidth <= tex.width
    /\ tex.width > 0 => tex.compute = compute
    /\ world # <<>> => Fresh(tex.cells)

(* A read that is not cancelled was made for the current list, and writes  *)
(* what the read texture has to the start of its buffer; the rest of it    *)
(* was never written.  Old heights are kept only until a cancelled read    *)
(* lands, and there are no quads before.                                   *)
BufferTail   == \A i \in DOMAIN buffer : i > readWidth => buffer[i] = Unmeasured
OnItsWay     == gpuRead # <<>> => readPending /\ Len(gpuRead) = readWidth
ReadsFresh   == readPending /\ ~cancel => Fresh(gpuRead) /\ (gpuRead = <<>> => Fresh(buffer))
HeightsFresh == Fresh(heights) \/ (readPending /\ cancel /\ world = <<>>)

ReadsKept ==
    /\ pc # "end" => wait < ReadLatency
    /\ gpuRead # <<>> => wait >= 1
    /\ pc = "gone" => /\ world = <<>>
                      /\ gpuRead # <<>> => stash \/ wait < ReadLatency - 1
    /\ pc # "gone" => BufferTail /\ OnItsWay /\ ReadsFresh /\ HeightsFresh

OverlayInv == OverlayTypeOK /\ TexturesKept /\ ReadsKept

LEMMA NextPow2Is ==
    ASSUME NEW n \in 1 .. MaxRects
    PROVE  NextPow2(n) \in Nat /\ n <= NextPow2(n)
  <1>1. \E p \in Widths : n <= p /\ p < 2 * n
    <2>1. CASE n <= 16
      BY <2>1 DEF Widths
    <2>2. CASE n > 16 /\ n <= 128
      BY <2>2 DEF Widths
    <2>3. CASE n > 128 /\ n <= 512
      BY <2>3 DEF Widths
    <2>4. CASE n > 512 /\ n <= 2048
      BY <2>4 DEF Widths
    <2>5. CASE n > 2048 /\ n <= 8192
      BY <2>5 DEF Widths
    <2>6. CASE n > 8192
      BY <2>6 DEF Widths, MaxRects
    <2> QED
      BY <2>1, <2>2, <2>3, <2>4, <2>5, <2>6
  <1>2. NextPow2(n) \in Widths /\ n <= NextPow2(n)
    BY <1>1 DEF NextPow2
  <1>3. Widths \subseteq Nat
    BY DEF Widths
  <1> QED
    BY <1>2, <1>3

LEMMA UnmeasuredIs == Unmeasured \in Cells /\ Unmeasured.list = 0
  BY DEF Unmeasured, Cells

LEMMA CellsAre ==
    ASSUME NEW q \in Seq(Cells)
    PROVE  Len(q) \in Nat /\ DOMAIN q = 1 .. Len(q) /\ \A i \in 1 .. Len(q) : q[i] \in Cells
  OBVIOUS

(* A row measured for w is of the current list.                            *)
LEMMA RowIs ==
    ASSUME NEW n \in Nat, NEW w \in Seq(Rects), map \in Maps, scale \in {1, 2}, list \in Nat
    PROVE  /\ MeasuredRow(n, w) \in Seq(Cells) /\ Len(MeasuredRow(n, w)) = n
           /\ Fresh(MeasuredRow(n, w))
  <1> DEFINE row == MeasuredRow(n, w)
  <1>1. \A i \in 1 .. n : i <= Len(w) => w[i] \in Rects
    OBVIOUS
  <1>2. \A i \in 1 .. n : i <= Len(w) => Measured(i, w) \in Cells /\ Measured(i, w).list = list
    BY <1>1 DEF Measured, Cells
  <1>3. row = [i \in 1 .. n |-> IF i <= Len(w) THEN Measured(i, w) ELSE Unmeasured]
    BY DEF MeasuredRow
  <1>4. \A i \in 1 .. n : row[i] \in Cells /\ row[i].list \in {list, 0}
    BY <1>2, <1>3, UnmeasuredIs
  <1>5. DOMAIN row = 1 .. n /\ row = [i \in 1 .. n |-> row[i]]
    BY <1>3
  <1> HIDE DEF row
  <1>6. row \in Seq(Cells) /\ Len(row) = n
    BY <1>4, <1>5
  <1> QED
    BY <1>4, <1>5, <1>6 DEF Fresh, row

LEMMA StartOf ==
    ASSUME NEW q \in Seq(Cells), NEW n \in Nat, n <= Len(q)
    PROVE  /\ SubSeq(q, 1, n) \in Seq(Cells) /\ Len(SubSeq(q, 1, n)) = n
           /\ \A i \in 1 .. n : SubSeq(q, 1, n)[i] = q[i]
           /\ Fresh(q) => Fresh(SubSeq(q, 1, n))
  <1> DEFINE p == SubSeq(q, 1, n)
  <1>1. /\ p \in Seq(Cells) /\ Len(p) = n /\ DOMAIN p = 1 .. n
        /\ \A i \in 1 .. n : p[i] = q[i]
    OBVIOUS
  <1>2. \A i \in 1 .. n : i \in DOMAIN q
    OBVIOUS
  <1> HIDE DEF p
  <1>3. Fresh(q) => Fresh(p)
    BY <1>1, <1>2 DEF Fresh
  <1> QED
    BY <1>1, <1>3 DEF p

(* A read that lands.                                                      *)
LEMMA DeliveredIs ==
    ASSUME NEW s \in Seq(Cells), NEW t \in Seq(Cells)
    PROVE  /\ Delivered(s, t) \in Seq(Cells) /\ DOMAIN Delivered(s, t) = DOMAIN t
           /\ \A i \in DOMAIN t : Delivered(s, t)[i] = IF i <= Len(s) THEN s[i] ELSE t[i]
  <1> DEFINE d == Delivered(s, t)
  <1>1. Len(s) \in Nat /\ Len(t) \in Nat /\ DOMAIN t = 1 .. Len(t)
    OBVIOUS
  <1>2. d = [i \in 1 .. Len(t) |-> IF i <= Len(s) THEN s[i] ELSE t[i]]
    BY <1>1 DEF Delivered
  <1> HIDE DEF d
  <1>3. \A i \in 1 .. Len(t) : d[i] \in Cells
    BY <1>1, <1>2
  <1>4. d \in Seq(Cells) /\ DOMAIN d = 1 .. Len(t)
    BY <1>1, <1>2, <1>3
  <1> QED
    BY <1>1, <1>2, <1>4 DEF d

(* A read that is issued.                                                  *)
LEMMA ReadIssued ==
    ASSUME OverlayTypeOK, BufferTail, list' = list,
           NEW row \in Seq(Cells), NEW n \in Nat, IssueRead(row, n),
           row # <<>>, Fresh(row), readWidth' \in Nat, Len(row) = readWidth',
           readWidth <= readWidth', Len(world') \in Nat
    PROVE  /\ buffer' \in Seq(Cells) /\ gpuRead' \in Seq(Cells)
           /\ readPending' = TRUE /\ requested' = FALSE /\ submitFrame' \in BOOLEAN
           /\ readCount' \in Nat /\ wait' \in 0 .. ReadLatency /\ wait' >= 1
           /\ BufferTail' /\ OnItsWay' /\ ReadsFresh'
  <1>1. ReadLatency \in Nat \ {0} /\ ended \in BOOLEAN /\ buffer \in Seq(Cells) /\ readWidth \in Nat
    BY OverlayAssumption DEF OverlayTypeOK
  <1>2. /\ buffer' = [i \in 1 .. n |-> IF i <= Len(buffer) THEN buffer[i] ELSE Unmeasured]
        /\ gpuRead' = row /\ readPending' = TRUE /\ requested' = FALSE
        /\ readCount' = Len(world') /\ wait' = ReadLatency /\ submitFrame' = ended
    BY DEF IssueRead
  <1>3. Len(buffer) \in Nat /\ \A i \in 1 .. Len(buffer) : i \in DOMAIN buffer /\ buffer[i] \in Cells
    BY <1>1
  <1>4. \A i \in 1 .. n : buffer'[i] \in Cells /\ (i > readWidth => buffer'[i] = Unmeasured)
    BY <1>2, <1>3, UnmeasuredIs DEF BufferTail
  <1>5. buffer' \in Seq(Cells) /\ DOMAIN buffer' = 1 .. n
    BY <1>2, <1>4
  <1>6. BufferTail'
    BY <1>1, <1>4, <1>5 DEF BufferTail
  <1>7. OnItsWay'
    BY <1>2 DEF OnItsWay
  <1>8. ReadsFresh'
    BY <1>2 DEF ReadsFresh, Fresh
  <1> QED
    BY <1>1, <1>2, <1>5, <1>6, <1>7, <1>8

(* The quads.                                                              *)
LEMMA WorldIs ==
    ASSUME OverlayTypeOK, TexturesKept, Measure
    PROVE  /\ world' \in Seq(Rects) /\ Len(world') <= MaxRects
           /\ Len(world') \in Nat /\ (world' # <<>> => Len(world') >= 1)
  <1>1. Len(screen) <= MaxRects /\ screen \in Seq(Rects) /\ world \in Seq(Rects)
    BY OverlayAssumption DEF TexturesKept, OverlayTypeOK
  <1> DEFINE seen == {i \in DOMAIN screen : Visible(screen[i])}
             quad == Subsequence(screen, seen)
  <1>2. quad \in Seq(Rects) /\ Len(quad) <= Len(screen)
    BY <1>1, SubsequenceKeeps
  <1>3. world' = IF worldDirty THEN quad ELSE world
    BY Zenon DEF Measure
  <1> HIDE DEF quad
  <1>4. Len(quad) \in Nat /\ Len(screen) \in Nat /\ Len(world) \in Nat
    BY <1>1, <1>2
  <1>5. world' \in Seq(Rects) /\ Len(world') <= MaxRects
    BY <1>1, <1>2, <1>3, <1>4 DEF TexturesKept, MaxRects
  <1>6. \A w \in Seq(Rects) : Len(w) \in Nat /\ (w # <<>> => Len(w) >= 1)
    OBVIOUS
  <1> QED
    BY <1>5, <1>6

LEMMA TexturesEnsured ==
    ASSUME OverlayTypeOK, TexturesKept, NEW n \in 1 .. MaxRects, EnsureTextures(n),
           world' \in Seq(Rects), map \in Maps, list' = list, compute' = compute
    PROVE  /\ tex'.width \in Nat /\ tex'.compute = compute /\ tex'.width >= 1
           /\ tex'.cells \in Seq(Cells) /\ Len(tex'.cells) = tex'.width /\ Fresh(tex'.cells)
           /\ Fresh(tex.cells)' /\ readWidth' \in Nat
           /\ readWidth <= readWidth' /\ readWidth' <= tex'.width
           /\ compute => readWidth' >= 1
  <1> DEFINE width == IF tex.width < n \/ tex.compute # compute THEN NextPow2(n) ELSE tex.width
  <1>1. tex.width \in Nat /\ readWidth \in Nat /\ compute \in BOOLEAN /\ readWidth <= tex.width
        /\ scale \in {1, 2} /\ list \in Nat /\ n \in Nat /\ n >= 1
        /\ (tex.width > 0 => tex.compute = compute)
    BY DEF OverlayTypeOK, TexturesKept
  <1>2. width \in Nat /\ width >= 1 /\ readWidth <= width
    BY <1>1, NextPow2Is
  <1>3. /\ tex' = [width |-> width, compute |-> compute, cells |-> MeasuredRow(width, world')]
        /\ readWidth' = IF compute /\ readWidth = 0 THEN width ELSE readWidth
    BY Zenon DEF EnsureTextures
  <1> HIDE DEF width
  <1>4. PICK w \in Seq(Rects) : w = world'
    OBVIOUS
  <1>5. /\ MeasuredRow(width, w) \in Seq(Cells) /\ Len(MeasuredRow(width, w)) = width
        /\ Fresh(MeasuredRow(width, w))
    BY <1>1, <1>2, RowIs
  <1>6. tex'.width = width /\ tex'.compute = compute /\ tex'.cells = MeasuredRow(width, w)
    BY <1>3, <1>4
  <1>7. Fresh(tex.cells)'
    BY <1>5, <1>6 DEF Fresh
  <1> QED
    BY <1>1, <1>2, <1>3, <1>5, <1>6, <1>7

LEMMA MeasureKeeps ==
    ASSUME OverlayInv, UpdateOverlayGpuData, Measure
    PROVE  OverlayInv'
  <1> USE DEF OverlayInv
  <1>1. /\ pc = "update" /\ pc' = "end" /\ list' = list /\ compute' = compute /\ cancel' = cancel
        /\ screen' = screen /\ stash' = stash /\ map \in Maps /\ ~readPending
        /\ worldDirty' = FALSE /\ computeDirty' = FALSE
        /\ UNCHANGED <<gui, pick, basis, screenSpace, ended, clicked>>
    BY DEF UpdateOverlayGpuData, Measure, ghosts, OverlayTypeOK, basis
  <1>2. /\ world' \in Seq(Rects) /\ Len(world') <= MaxRects /\ Len(world') \in Nat
        /\ (world' # <<>> => Len(world') >= 1)
    BY WorldIs
  <1>3. Fresh(heights) /\ BufferTail
    BY <1>1 DEF ReadsKept, HeightsFresh
  <1>4. CASE world' = <<>>
    <2>1. UNCHANGED <<tex, readWidth, heights, requested, buffer, gpuRead, readPending,
                      readCount, wait, submitFrame>>
      BY <1>4 DEF Measure, gpu, NoNewRead
    <2>2. OverlayTypeOK'
      BY <1>1, <1>2, <2>1 DEF OverlayTypeOK, gui, basis
    <2>3. TexturesKept'
      BY <1>1, <1>2, <1>4, <2>1 DEF TexturesKept
    <2>4. ReadsKept'
      BY <1>1, <1>3, <2>1 DEF ReadsKept, BufferTail, OnItsWay, ReadsFresh, HeightsFresh, Fresh
    <2> QED
      BY <2>2, <2>3, <2>4
  <1>5. CASE world' # <<>>
    <2>1. EnsureTextures(Len(world')) /\ Len(world') \in 1 .. MaxRects
      <3>1. EnsureTextures(Len(world'))
        BY <1>5, Zenon DEF Measure
      <3>2. Len(world') \in 1 .. MaxRects
        <4>1. MaxRects \in Nat
          BY DEF MaxRects
        <4>2. \A n \in Nat : n >= 1 /\ n <= MaxRects => n \in 1 .. MaxRects
          BY <4>1
        <4> QED
          BY <1>2, <1>5, <4>2, Zenon
      <3> QED
        BY <3>1, <3>2
    <2>2. /\ tex'.width \in Nat /\ tex'.compute = compute /\ tex'.width >= 1
          /\ tex'.cells \in Seq(Cells) /\ Len(tex'.cells) = tex'.width /\ Fresh(tex'.cells)
          /\ Fresh(tex.cells)' /\ readWidth' \in Nat
          /\ readWidth <= readWidth' /\ readWidth' <= tex'.width
          /\ compute => readWidth' >= 1
      <3>1. PICK n \in 1 .. MaxRects : n = Len(world')
        BY <2>1
      <3>2. EnsureTextures(n)
        BY <2>1, <3>1
      <3> QED
        BY <1>1, <1>2, <3>2, TexturesEnsured
    <2>3. TexturesKept'
      BY <1>1, <1>2, <2>2 DEF TexturesKept
    <2>4. \/ ~compute /\ heights' = tex'.cells /\ requested' = FALSE /\ NoNewRead
          \/ /\ compute /\ heights' = heights
             /\ IssueRead(SubSeq(tex'.cells, 1, readWidth'), tex'.width)
          \/ UNCHANGED <<heights, requested>> /\ NoNewRead
      BY <1>5 DEF Measure
    <2>5. ASSUME NoNewRead, requested' \in BOOLEAN, heights' \in Seq(Cells), Fresh(heights)'
          PROVE  OverlayInv'
      <3>1. UNCHANGED <<buffer, gpuRead, readPending, readCount, wait, submitFrame>>
        BY <2>5 DEF NoNewRead
      <3>2. OverlayTypeOK'
        BY <1>1, <1>2, <2>2, <2>5, <3>1 DEF OverlayTypeOK, gui, basis
      <3>3. BufferTail' /\ OnItsWay' /\ ReadsFresh' /\ HeightsFresh'
        <4>1. BufferTail'
          BY <1>3, <2>2, <3>1 DEF BufferTail, OverlayTypeOK
        <4>2. gpuRead = <<>>
          BY <1>1 DEF ReadsKept, OnItsWay
        <4>3. OnItsWay' /\ ReadsFresh' /\ HeightsFresh'
          BY <1>1, <2>5, <3>1, <4>2 DEF OnItsWay, ReadsFresh, HeightsFresh
        <4> QED
          BY <4>1, <4>3
      <3>4. ReadsKept'
        BY <1>1, <3>1, <3>3 DEF ReadsKept
      <3> QED
        BY <2>3, <3>2, <3>4
    <2>6. CASE ~compute /\ heights' = tex'.cells /\ requested' = FALSE /\ NoNewRead
      <3>1. Fresh(heights)'
        BY <2>2, <2>6 DEF Fresh
      <3> QED
        BY <2>2, <2>5, <2>6, <3>1
    <2>7. CASE UNCHANGED <<heights, requested>> /\ NoNewRead
      <3>1. Fresh(heights)' /\ heights' \in Seq(Cells) /\ requested' \in BOOLEAN
        BY <1>1, <1>3, <2>7 DEF Fresh, OverlayTypeOK
      <3> QED
        BY <2>5, <2>7, <3>1
    <2>8. CASE /\ compute /\ heights' = heights
               /\ IssueRead(SubSeq(tex'.cells, 1, readWidth'), tex'.width)
      <3>1. PICK cells \in Seq(Cells) : cells = tex'.cells
        BY <2>2
      <3>2. PICK m \in Nat : m = readWidth'
        BY <2>2
      <3>3. PICK n \in Nat : n = tex'.width
        BY <2>2
      <3> DEFINE row == SubSeq(cells, 1, m)
      <3>4. row \in Seq(Cells) /\ Len(row) = m /\ Fresh(row)
        BY <2>2, <3>1, <3>2, StartOf
      <3>5. IssueRead(row, n) /\ m >= 1
        BY <2>2, <2>8, <3>1, <3>2, <3>3
      <3>6. row # <<>>
        <4>1. \A q \in Seq(Cells) : Len(q) = m => q # <<>>
          BY <3>5
        <4> QED
          BY <3>4, <4>1
      <3> HIDE DEF row
      <3>7. /\ buffer' \in Seq(Cells) /\ gpuRead' \in Seq(Cells)
            /\ readPending' = TRUE /\ requested' = FALSE /\ submitFrame' \in BOOLEAN
            /\ readCount' \in Nat /\ wait' \in 0 .. ReadLatency /\ wait' >= 1
            /\ BufferTail' /\ OnItsWay' /\ ReadsFresh'
        BY <1>1, <1>2, <1>3, <2>2, <3>2, <3>4, <3>5, <3>6, ReadIssued
      <3>8. OverlayTypeOK'
        BY <1>1, <1>2, <2>2, <2>8, <3>7 DEF OverlayTypeOK, gui, basis
      <3>9. HeightsFresh'
        BY <1>1, <1>3, <2>8 DEF HeightsFresh, Fresh
      <3>10. ReadsKept'
        BY <1>1, <3>7, <3>9 DEF ReadsKept
      <3> QED
        BY <2>3, <3>8, <3>10
    <2> QED
      BY <2>4, <2>6, <2>7, <2>8
  <1> QED
    BY <1>4, <1>5

LEMMA UpdateKeeps ==
    ASSUME OverlayInv, UpdateOverlayGpuData
    PROVE  OverlayInv'
  <1> USE DEF OverlayInv
  <1>1. /\ pc = "update" /\ pc' = "end" /\ list' = list /\ compute' = compute /\ cancel' = cancel
        /\ screen' = screen /\ stash' = stash
        /\ UNCHANGED <<gui, pick, basis, screenSpace, ended, clicked>>
    BY DEF UpdateOverlayGpuData, ghosts
  <1>2. CASE SkipUpdate
    <2>1. /\ UNCHANGED <<world, worldDirty, computeDirty, tex, readWidth, heights, requested>>
          /\ UNCHANGED <<buffer, gpuRead, readPending, readCount, wait, submitFrame>>
      BY <1>2 DEF SkipUpdate, NoNewRead, gpu
    <2>2. OverlayTypeOK'
      BY <1>1, <2>1 DEF OverlayTypeOK, gui, basis
    <2>3. TexturesKept'
      BY <1>1, <2>1 DEF TexturesKept, Fresh
    <2>4. ReadsKept'
      BY <1>1, <2>1 DEF ReadsKept, BufferTail, OnItsWay, ReadsFresh, HeightsFresh, Fresh
    <2> QED
      BY <2>2, <2>3, <2>4
  <1>3. CASE DropRects
    <2>1. /\ world' = <<>> /\ heights' = <<>> /\ ~readPending
          /\ worldDirty' = FALSE /\ computeDirty' = FALSE /\ requested' = FALSE
          /\ UNCHANGED <<tex, readWidth, buffer, gpuRead, readPending, readCount, wait, submitFrame>>
      BY <1>3 DEF DropRects, NoNewRead, gpu
    <2>2. OverlayTypeOK'
      <3>1. {itemPick', pick', ready', screenSpace', worldDirty', computeDirty', readPending', cancel',
             requested', submitFrame', compute', ended', stash', clicked'} \subseteq BOOLEAN
        BY <1>1, <2>1 DEF OverlayTypeOK, gui, basis
      <3>2. /\ screen' \in Seq(Rects) /\ world' \in Seq(Rects)
            /\ buffer' \in Seq(Cells) /\ heights' \in Seq(Cells) /\ gpuRead' \in Seq(Cells)
            /\ tex'.width \in Nat /\ tex'.compute \in BOOLEAN /\ tex'.cells \in Seq(Cells)
        BY <1>1, <2>1 DEF OverlayTypeOK, gui, basis
      <3>3. /\ staged' \in Lists \cup {None} /\ pc' \in {"idle", "update", "end", "gone"}
            /\ {asked', map', sizeOf'} \subseteq Maps \cup {NoMap} /\ scale' \in {1, 2}
            /\ readWidth' \in Nat /\ readCount' \in Nat /\ wait' \in 0 .. ReadLatency /\ list' \in Nat
        BY <1>1, <2>1 DEF OverlayTypeOK, gui, basis
      <3> QED
        BY <3>1, <3>2, <3>3 DEF OverlayTypeOK
    <2>3. TexturesKept'
      <3>1. Len(world') = 0 /\ 0 <= MaxRects
        BY <2>1 DEF MaxRects
      <3> QED
        BY <1>1, <2>1, <3>1 DEF TexturesKept
    <2>4. ReadsKept'
      BY <1>1, <2>1 DEF ReadsKept, BufferTail, OnItsWay, ReadsFresh, HeightsFresh, Fresh
    <2> QED
      BY <2>2, <2>3, <2>4
  <1>4. CASE OnlyRead
    <2>1. /\ ~readPending
          /\ UNCHANGED <<world, worldDirty, computeDirty, tex, readWidth, heights>>
      BY <1>4 DEF OnlyRead, gpu
    <2>2. TexturesKept'
      BY <1>1, <2>1 DEF TexturesKept, Fresh
    <2>3. CASE NoNewRead /\ UNCHANGED requested
      <3>1. UNCHANGED <<buffer, gpuRead, readPending, readCount, wait, submitFrame>>
        BY <2>3 DEF NoNewRead
      <3>2. OverlayTypeOK'
        BY <1>1, <2>1, <2>3, <3>1 DEF OverlayTypeOK, gui, basis
      <3>3. ReadsKept'
        BY <1>1, <2>1, <3>1 DEF ReadsKept, BufferTail, OnItsWay, ReadsFresh, HeightsFresh, Fresh
      <3> QED
        BY <2>2, <3>2, <3>3
    <2>4. CASE /\ world # <<>> /\ tex.width > 0 /\ readWidth > 0
               /\ IssueRead(SubSeq(tex.cells, 1, readWidth), tex.width)
      <3> DEFINE row == SubSeq(tex.cells, 1, readWidth)
      <3>1. /\ tex.cells \in Seq(Cells) /\ readWidth \in Nat /\ readWidth <= Len(tex.cells)
            /\ tex.width \in Nat /\ Fresh(tex.cells) /\ world \in Seq(Rects)
        BY <2>4 DEF OverlayTypeOK, TexturesKept
      <3>2. row \in Seq(Cells) /\ Len(row) = readWidth /\ Fresh(row)
        BY <3>1, StartOf
      <3>3. row # <<>>
        <4>1. \A q \in Seq(Cells) : Len(q) = readWidth => q # <<>>
          BY <2>4
        <4> QED
          BY <3>2, <4>1
      <3>4. IssueRead(row, tex.width) /\ Len(world') \in Nat
        BY <2>1, <2>4, <3>1
      <3> HIDE DEF row
      <3>5. Fresh(heights) /\ BufferTail
        BY <1>1, <2>1 DEF ReadsKept, HeightsFresh
      <3>6. readWidth' = readWidth /\ readWidth <= readWidth'
        BY <2>1, <3>1
      <3>7. /\ buffer' \in Seq(Cells) /\ gpuRead' \in Seq(Cells)
            /\ readPending' = TRUE /\ requested' = FALSE /\ submitFrame' \in BOOLEAN
            /\ readCount' \in Nat /\ wait' \in 0 .. ReadLatency /\ wait' >= 1
            /\ BufferTail' /\ OnItsWay' /\ ReadsFresh'
        BY <1>1, <3>1, <3>2, <3>3, <3>4, <3>5, <3>6, ReadIssued
      <3>8. OverlayTypeOK'
        BY <1>1, <2>1, <3>7 DEF OverlayTypeOK, gui, basis
      <3>9. HeightsFresh'
        BY <1>1, <2>1, <3>5 DEF HeightsFresh, Fresh
      <3>10. ReadsKept'
        BY <1>1, <3>7, <3>9 DEF ReadsKept
      <3> QED
        BY <2>2, <3>8, <3>10
    <2> QED
      BY <1>4, <2>3, <2>4 DEF OnlyRead
  <1> QED
    BY <1>2, <1>3, <1>4, MeasureKeeps DEF UpdateOverlayGpuData

(* A frame of bgfx brings the reads nearer, and one home.                  *)
LEMMA BgfxFrameKeeps ==
    ASSUME OverlayInv, BgfxFrame, UNCHANGED <<list, readWidth>>
    PROVE  /\ ended' = TRUE /\ wait' \in 0 .. ReadLatency /\ wait' < ReadLatency
           /\ wait' = IF wait > 0 THEN wait - 1 ELSE wait
           /\ buffer' \in Seq(Cells) /\ gpuRead' \in Seq(Cells)
           /\ gpuRead' \in {gpuRead, <<>>} /\ (gpuRead' # <<>> => wait' >= 1)
           /\ pc # "gone" =>
                /\ BufferTail'
                /\ gpuRead' # <<>> => readPending /\ Len(gpuRead') = readWidth
                /\ readPending /\ ~cancel =>
                      Fresh(gpuRead)' /\ (gpuRead' = <<>> => Fresh(buffer)')
  <1> USE DEF OverlayInv
  <1>1. /\ buffer \in Seq(Cells) /\ gpuRead \in Seq(Cells) /\ wait \in 0 .. ReadLatency
        /\ ReadLatency \in Nat \ {0} /\ readWidth \in Nat
        /\ (gpuRead # <<>> => wait >= 1)
    BY OverlayAssumption DEF OverlayTypeOK, ReadsKept
  <1>2. ended' = TRUE /\ wait' = IF wait > 0 THEN wait - 1 ELSE wait
    BY DEF BgfxFrame
  <1>3. wait' \in 0 .. ReadLatency /\ wait' < ReadLatency
    BY <1>1, <1>2
  <1>4. CASE gpuRead # <<>> /\ wait = 1
    <2> DEFINE d == Delivered(gpuRead, buffer)
    <2>1. buffer' = d /\ gpuRead' = <<>>
      BY <1>4 DEF BgfxFrame, NoRead
    <2>2. /\ d \in Seq(Cells) /\ DOMAIN d = DOMAIN buffer
          /\ \A i \in DOMAIN buffer : d[i] = IF i <= Len(gpuRead) THEN gpuRead[i] ELSE buffer[i]
      BY <1>1, DeliveredIs
    <2> HIDE DEF d
    <2>3. Len(gpuRead) \in Nat /\ DOMAIN gpuRead = 1 .. Len(gpuRead) /\ DOMAIN buffer \subseteq Nat \ {0}
      BY <1>1
    <2>4. ASSUME pc # "gone"
          PROVE  /\ BufferTail' /\ (readPending /\ ~cancel => Fresh(buffer)')
      <3>1. Len(gpuRead) = readWidth /\ BufferTail /\ ReadsFresh
        BY <1>4, <2>4 DEF ReadsKept, OnItsWay
      <3>2. BufferTail'
        BY <1>1, <2>1, <2>2, <3>1 DEF BufferTail
      <3>3. ASSUME readPending, ~cancel PROVE Fresh(buffer)'
        <4>1. \A i \in DOMAIN gpuRead : gpuRead[i].list \in {list, 0}
          BY <3>1, <3>3 DEF ReadsFresh, Fresh
        <4>2. \A i \in DOMAIN buffer : i > readWidth => buffer[i].list = 0
          BY <3>1, UnmeasuredIs DEF BufferTail
        <4>3. \A i \in DOMAIN buffer : i <= readWidth => i \in DOMAIN gpuRead
          BY <2>3, <3>1
        <4>4. \A i \in DOMAIN buffer : i <= readWidth \/ i > readWidth
          BY <1>1, <2>3
        <4>5. \A i \in DOMAIN d : d[i].list \in {list, 0}
          BY <2>2, <3>1, <4>1, <4>2, <4>3, <4>4
        <4> QED
          BY <2>1, <4>5 DEF Fresh
      <3> QED
        BY <3>2, <3>3
    <2>5. Fresh(gpuRead)'
      BY <2>1 DEF Fresh
    <2> QED
      BY <1>2, <1>3, <2>1, <2>2, <2>4, <2>5
  <1>5. CASE ~ (gpuRead # <<>> /\ wait = 1)
    <2>1. UNCHANGED <<buffer, gpuRead>>
      BY <1>5 DEF BgfxFrame, NoRead
    <2>2. gpuRead' # <<>> => wait' >= 1
      BY <1>1, <1>2, <1>5, <2>1
    <2>3. ASSUME pc # "gone"
          PROVE  /\ BufferTail'
                 /\ gpuRead' # <<>> => readPending /\ Len(gpuRead') = readWidth
                 /\ readPending /\ ~cancel => Fresh(gpuRead)' /\ (gpuRead' = <<>> => Fresh(buffer)')
      BY <2>1, <2>3 DEF ReadsKept, BufferTail, OnItsWay, ReadsFresh, Fresh
    <2> QED
      BY <1>1, <1>2, <1>3, <2>1, <2>2, <2>3
  <1> QED
    BY <1>4, <1>5

LEMMA EndRenderKeeps ==
    ASSUME OverlayInv, NEW stalled \in BOOLEAN, EndRender(stalled)
    PROVE  OverlayInv'
  <1> USE DEF OverlayInv
  <1>1. /\ pc = "end" /\ pc' = "idle" /\ BgfxFrame /\ ProcessOverlayMaxReadback
        /\ UNCHANGED <<gui, basis, screen, world, screenSpace, worldDirty, computeDirty, tex,
                       readWidth, readCount, submitFrame, compute, stash, list, clicked>>
    BY DEF EndRender, quads, gpu, ghosts
  <1>2. /\ ended' = TRUE /\ wait' \in 0 .. ReadLatency /\ wait' < ReadLatency
        /\ buffer' \in Seq(Cells) /\ gpuRead' \in Seq(Cells) /\ (gpuRead' # <<>> => wait' >= 1)
        /\ BufferTail'
        /\ gpuRead' # <<>> => readPending /\ Len(gpuRead') = readWidth
        /\ readPending /\ ~cancel => Fresh(gpuRead)' /\ (gpuRead' = <<>> => Fresh(buffer)')
    BY <1>1, BgfxFrameKeeps
  <1>3. pick' \in BOOLEAN /\ requested' \in BOOLEAN
    BY DEF EndRender, ResolvePick, OverlayTypeOK
  <1>4. TexturesKept'
    BY <1>1 DEF TexturesKept, Fresh
  <1>5. CASE readPending /\ wait' = 0
    <2>1. /\ readPending' = FALSE /\ cancel' = FALSE /\ gpuRead' = <<>>
          /\ heights' = IF cancel THEN <<>>
                        ELSE SubSeq(buffer', 1, IF readCount < Len(buffer')
                                                THEN readCount ELSE Len(buffer'))
      BY <1>1, <1>2, <1>5 DEF ProcessOverlayMaxReadback
    <2>2. PICK b \in Seq(Cells) : b = buffer'
      BY <1>2
    <2> DEFINE n == IF readCount < Len(b) THEN readCount ELSE Len(b)
    <2>3. n \in Nat /\ n <= Len(b)
      BY DEF OverlayTypeOK
    <2> HIDE DEF n
    <2>4. ~cancel => Fresh(b)
      BY <1>1, <1>2, <1>5, <2>1, <2>2 DEF Fresh
    <2>5. /\ SubSeq(b, 1, n) \in Seq(Cells)
          /\ ~cancel => Fresh(SubSeq(b, 1, n))
      BY <2>3, <2>4, StartOf
    <2>6. heights' = IF cancel THEN <<>> ELSE SubSeq(b, 1, n)
      BY <2>1, <2>2 DEF n
    <2>7. heights' \in Seq(Cells) /\ Fresh(heights)'
      BY <1>1, <2>5, <2>6 DEF Fresh
    <2>8. OverlayTypeOK'
      BY <1>1, <1>2, <1>3, <2>1, <2>7 DEF OverlayTypeOK, gui, basis
    <2>9. ReadsKept'
      BY <1>1, <1>2, <2>1, <2>7 DEF ReadsKept, OnItsWay, ReadsFresh, HeightsFresh
    <2> QED
      BY <1>4, <2>8, <2>9
  <1>6. CASE ~ (readPending /\ wait' = 0)
    <2>1. UNCHANGED <<readPending, cancel, heights>>
      BY <1>1, <1>6 DEF ProcessOverlayMaxReadback
    <2>2. OverlayTypeOK'
      BY <1>1, <1>2, <1>3, <2>1 DEF OverlayTypeOK, gui, basis
    <2>3. OnItsWay' /\ ReadsFresh'
      BY <1>1, <1>2, <2>1 DEF OnItsWay, ReadsFresh
    <2>4. HeightsFresh'
      BY <1>1, <2>1 DEF ReadsKept, HeightsFresh, Fresh
    <2>5. ReadsKept'
      BY <1>1, <1>2, <2>3, <2>4 DEF ReadsKept
    <2> QED
      BY <1>4, <2>2, <2>5
  <1> QED
    BY <1>5, <1>6

LEMMA OtherFrameKeeps ==
    ASSUME OverlayInv, OtherFrame
    PROVE  OverlayInv'
  <1> USE DEF OverlayInv
  <1>1. /\ pc \in {"idle", "gone"} /\ pc' = pc /\ BgfxFrame /\ stash' = (stash /\ ~submitFrame)
        /\ UNCHANGED <<gui, pick, basis, screen, world, screenSpace, worldDirty, computeDirty, tex,
                       readWidth, readPending, cancel, requested, readCount, submitFrame, heights,
                       compute, list, clicked>>
    BY DEF OtherFrame, quads, gpu, ghosts
  <1>2. /\ ended' = TRUE /\ wait' \in 0 .. ReadLatency /\ wait' < ReadLatency
        /\ wait' = IF wait > 0 THEN wait - 1 ELSE wait
        /\ buffer' \in Seq(Cells) /\ gpuRead' \in Seq(Cells) /\ (gpuRead' # <<>> => wait' >= 1)
        /\ pc # "gone" =>
             /\ BufferTail'
             /\ gpuRead' # <<>> => readPending /\ Len(gpuRead') = readWidth
             /\ readPending /\ ~cancel => Fresh(gpuRead)' /\ (gpuRead' = <<>> => Fresh(buffer)')
    BY <1>1, BgfxFrameKeeps
  <1>3. TexturesKept'
    BY <1>1 DEF TexturesKept, Fresh
  <1>4. OverlayTypeOK'
    BY <1>1, <1>2 DEF OverlayTypeOK, gui, basis
  <1>5. pc # "gone" => OnItsWay' /\ ReadsFresh' /\ HeightsFresh'
    BY <1>1, <1>2 DEF OnItsWay, ReadsFresh, HeightsFresh, ReadsKept, Fresh
  <1>6. gpuRead' # <<>> => wait' < ReadLatency - 1
    <2>1. wait \in Nat /\ wait < ReadLatency /\ ReadLatency \in Nat
      BY <1>1, OverlayAssumption DEF ReadsKept, OverlayTypeOK
    <2> QED
      BY <1>2, <2>1
  <1>7. ReadsKept'
    BY <1>1, <1>2, <1>5, <1>6 DEF ReadsKept
  <1> QED
    BY <1>3, <1>4, <1>7

LEMMA SynchronizeKeeps ==
    ASSUME OverlayInv, Synchronize
    PROVE  OverlayInv'
  <1> USE DEF OverlayInv
  <1>1. /\ pc = "idle" /\ pc' = "update" /\ staged' = None
        /\ pick' = (pick \/ itemPick) /\ itemPick' = FALSE
        /\ UNCHANGED <<basis, screenSpace, tex, readWidth, buffer, readPending, readCount, wait,
                       submitFrame, compute, ended, gpuRead, stash, clicked>>
    BY DEF Synchronize, gpu, device
  <1>2. CASE staged = None
    <2>1. UNCHANGED <<screen, world, worldDirty, computeDirty, cancel, heights, requested, list>>
      BY <1>2 DEF Synchronize
    <2>2. OverlayTypeOK'
      BY <1>1, <2>1 DEF OverlayTypeOK, basis
    <2>3. TexturesKept'
      BY <1>1, <2>1 DEF TexturesKept, Fresh
    <2>4. ReadsKept'
      BY <1>1, <2>1 DEF ReadsKept, BufferTail, OnItsWay, ReadsFresh, HeightsFresh, Fresh
    <2> QED
      BY <2>2, <2>3, <2>4
  <1>3. CASE staged # None
    <2>1. staged \in Lists /\ staged \in Seq(Rects)
      BY <1>3, OverlayAssumption DEF OverlayTypeOK
    <2>2. /\ screen' = staged /\ world' = <<>> /\ worldDirty' = TRUE /\ computeDirty' = TRUE
          /\ cancel' = (cancel \/ readPending) /\ requested' = TRUE /\ list' = list + 1
          /\ heights' = IF readPending THEN heights ELSE <<>>
      BY <1>3 DEF Synchronize, SetOverlayRects
    <2>3. OverlayTypeOK'
      <3>1. heights' \in Seq(Cells) /\ world' \in Seq(Rects) /\ list' \in Nat /\ cancel' \in BOOLEAN
        BY <2>2 DEF OverlayTypeOK
      <3>2. pick' \in BOOLEAN
        BY <1>1 DEF OverlayTypeOK
      <3> QED
        BY <1>1, <2>1, <2>2, <3>1, <3>2 DEF OverlayTypeOK, basis
    <2>4. TexturesKept'
      <3>1. Len(world') = 0 /\ 0 <= MaxRects
        BY <2>2 DEF MaxRects
      <3> QED
        BY <1>1, <2>1, <2>2, <3>1 DEF TexturesKept
    <2>5. BufferTail' /\ OnItsWay' /\ ReadsFresh'
      BY <1>1, <2>2 DEF ReadsKept, BufferTail, OnItsWay, ReadsFresh
    <2>6. HeightsFresh'
      BY <1>1, <2>2 DEF HeightsFresh, Fresh, OverlayTypeOK
    <2>7. ReadsKept'
      BY <1>1, <2>5, <2>6 DEF ReadsKept
    <2> QED
      BY <2>3, <2>4, <2>7
  <1> QED
    BY <1>2, <1>3

LEMMA ShutdownKeeps ==
    ASSUME OverlayInv, Shutdown
    PROVE  OverlayInv'
  <1> USE DEF OverlayInv
  <1>1. /\ pc = "idle" /\ pc' = "gone" /\ stash' = readPending
        /\ readPending' = FALSE /\ cancel' = FALSE /\ requested' = FALSE
        /\ buffer' = <<>> /\ tex' = NoTexture /\ readWidth' = 0
        /\ screen' = <<>> /\ world' = <<>> /\ computeDirty' = TRUE /\ worldDirty' = FALSE
        /\ ready' = FALSE /\ map' = NoMap /\ sizeOf' = NoMap /\ asked' = NoMap
        /\ UNCHANGED <<gui, pick, scale, screenSpace, readCount, wait, submitFrame, heights,
                       compute, ended, gpuRead, list, clicked>>
    BY DEF Shutdown, ghosts
  <1>2. tex'.width = 0 /\ tex'.compute = FALSE /\ tex'.cells = <<>>
    BY <1>1 DEF NoTexture
  <1>3. OverlayTypeOK'
    <2>1. {itemPick', pick', ready', screenSpace', worldDirty', computeDirty', readPending', cancel',
           requested', submitFrame', compute', ended', stash', clicked'} \subseteq BOOLEAN
      BY <1>1, <1>2 DEF OverlayTypeOK, gui
    <2>2. /\ screen' \in Seq(Rects) /\ world' \in Seq(Rects)
          /\ buffer' \in Seq(Cells) /\ heights' \in Seq(Cells) /\ gpuRead' \in Seq(Cells)
          /\ tex'.width \in Nat /\ tex'.compute \in BOOLEAN /\ tex'.cells \in Seq(Cells)
      <3>1. <<>> \in Seq(Rects) /\ <<>> \in Seq(Cells)
        OBVIOUS
      <3>2. heights' \in Seq(Cells) /\ gpuRead' \in Seq(Cells)
        BY <1>1 DEF OverlayTypeOK
      <3>3. tex'.width \in Nat /\ tex'.compute \in BOOLEAN /\ tex'.cells \in Seq(Cells)
        <4>1. 0 \in Nat /\ FALSE \in BOOLEAN
          OBVIOUS
        <4> QED
          BY <1>2, <3>1, <4>1, Zenon
      <3> QED
        BY <1>1, <3>1, <3>2, <3>3, Zenon
    <2>3. /\ staged' \in Lists \cup {None} /\ pc' \in {"idle", "update", "end", "gone"}
          /\ {asked', map', sizeOf'} \subseteq Maps \cup {NoMap} /\ scale' \in {1, 2}
          /\ readWidth' \in Nat /\ readCount' \in Nat /\ wait' \in 0 .. ReadLatency /\ list' \in Nat
      BY <1>1, <1>2 DEF OverlayTypeOK, gui
    <2> QED
      BY <2>1, <2>2, <2>3 DEF OverlayTypeOK
  <1>4. TexturesKept'
    <2>1. Len(world') = 0 /\ 0 <= MaxRects /\ Len(tex'.cells) = 0
      BY <1>1, <1>2 DEF MaxRects
    <2> QED
      BY <1>1, <1>2, <2>1, OverlayAssumption DEF TexturesKept
  <1>5. ReadsKept'
    BY <1>1 DEF ReadsKept, OnItsWay
  <1> QED
    BY <1>3, <1>4, <1>5

(* The calls of the GUI, and a map that is installed, leave the list, its  *)
(* quads and their textures alone.                                         *)
LEMMA CallsKeep ==
    ASSUME OverlayInv,
           \/ \E l \in Lists : StageRects(l)
           \/ Click \/ SetUseScreenSpace \/ SetScale \/ ClearMap
           \/ \E m \in Maps : LoadMap(m)
           \/ \E how \in {"upload", "decode", "cache"} : InstallMap(how)
           \/ RecreateRenderer
    PROVE  OverlayInv'
  <1> USE DEF OverlayInv
  <1>1. /\ pc' = pc /\ pc \in {"idle", "update"}
        /\ UNCHANGED <<screen, world, tex, readWidth, buffer, readPending, readCount, wait,
                       submitFrame, compute, ended, gpuRead, stash, list>>
        /\ cancel' \in BOOLEAN /\ (cancel => cancel')
        /\ heights' \in {heights, <<>>}
    BY DEF StageRects, Click, SetUseScreenSpace, SetScale, ClearMap, LoadMap, InstallMap,
           RecreateRenderer, Change, OverlayTypeOK, quads, gpu, reads, device
  <1>2. OverlayTypeOK'
    <2>0. /\ screen' \in Seq(Rects) /\ world' \in Seq(Rects)
          /\ buffer' \in Seq(Cells) /\ heights' \in Seq(Cells) /\ gpuRead' \in Seq(Cells)
          /\ tex'.width \in Nat /\ tex'.compute \in BOOLEAN /\ tex'.cells \in Seq(Cells)
      <3>1. <<>> \in Seq(Cells)
        OBVIOUS
      <3> QED
        BY <1>1, <3>1 DEF OverlayTypeOK
    <2>1. ASSUME NEW l \in Lists, StageRects(l) PROVE OverlayTypeOK'
      <3>1. {itemPick', pick', ready', screenSpace', worldDirty', computeDirty', readPending', cancel',
             requested', submitFrame', compute', ended', stash', clicked'} \subseteq BOOLEAN
        BY <1>1, <2>1 DEF OverlayTypeOK, StageRects, Change, basis, quads, gpu, reads, device
      <3>2. /\ staged' \in Lists \cup {None} /\ pc' \in {"idle", "update", "end", "gone"}
            /\ {asked', map', sizeOf'} \subseteq Maps \cup {NoMap} /\ scale' \in {1, 2}
            /\ readWidth' \in Nat /\ readCount' \in Nat /\ wait' \in 0 .. ReadLatency /\ list' \in Nat
        BY <1>1, <2>1 DEF OverlayTypeOK, StageRects, Change, basis, quads, gpu, reads, device
      <3> QED
        BY <2>0, <3>1, <3>2 DEF OverlayTypeOK
    <2>2. CASE Click
      <3>1. {itemPick', pick', ready', screenSpace', worldDirty', computeDirty', readPending', cancel',
             requested', submitFrame', compute', ended', stash', clicked'} \subseteq BOOLEAN
        BY <1>1, <2>2 DEF OverlayTypeOK, Click, basis, quads, gpu, device
      <3>2. /\ staged' \in Lists \cup {None} /\ pc' \in {"idle", "update", "end", "gone"}
            /\ {asked', map', sizeOf'} \subseteq Maps \cup {NoMap} /\ scale' \in {1, 2}
            /\ readWidth' \in Nat /\ readCount' \in Nat /\ wait' \in 0 .. ReadLatency /\ list' \in Nat
        BY <1>1, <2>2 DEF OverlayTypeOK, Click, basis, quads, gpu, device
      <3> QED
        BY <2>0, <3>1, <3>2 DEF OverlayTypeOK
    <2>3. CASE SetUseScreenSpace
      <3>1. {itemPick', pick', ready', screenSpace', worldDirty', computeDirty', readPending', cancel',
             requested', submitFrame', compute', ended', stash', clicked'} \subseteq BOOLEAN
        <4>1. {screenSpace', worldDirty', computeDirty'} \subseteq BOOLEAN
          BY <1>1, <2>3 DEF SetUseScreenSpace
        <4>2. {itemPick', pick', ready', readPending', cancel', requested', submitFrame',
               compute', ended', stash', clicked'} \subseteq BOOLEAN
          BY <1>1, <2>3 DEF OverlayTypeOK, SetUseScreenSpace, Change, gui, basis, gpu, reads, device
        <4> QED
          BY <4>1, <4>2
      <3>2. /\ staged' \in Lists \cup {None} /\ pc' \in {"idle", "update", "end", "gone"}
            /\ {asked', map', sizeOf'} \subseteq Maps \cup {NoMap} /\ scale' \in {1, 2}
            /\ readWidth' \in Nat /\ readCount' \in Nat /\ wait' \in 0 .. ReadLatency /\ list' \in Nat
        BY <1>1, <2>3 DEF OverlayTypeOK, SetUseScreenSpace, Change, gui, basis, gpu, reads, device
      <3> QED
        BY <2>0, <3>1, <3>2 DEF OverlayTypeOK
    <2>4. CASE SetScale
      <3>1. {itemPick', pick', ready', screenSpace', worldDirty', computeDirty', readPending', cancel',
             requested', submitFrame', compute', ended', stash', clicked'} \subseteq BOOLEAN
        BY <1>1, <2>4 DEF OverlayTypeOK, SetScale, Change, gui, gpu, reads, device
      <3>2. /\ staged' \in Lists \cup {None} /\ pc' \in {"idle", "update", "end", "gone"}
            /\ {asked', map', sizeOf'} \subseteq Maps \cup {NoMap} /\ scale' \in {1, 2}
            /\ readWidth' \in Nat /\ readCount' \in Nat /\ wait' \in 0 .. ReadLatency /\ list' \in Nat
        BY <1>1, <2>4 DEF OverlayTypeOK, SetScale, Change, gui, gpu, reads, device
      <3> QED
        BY <2>0, <3>1, <3>2 DEF OverlayTypeOK
    <2>5. CASE ClearMap
      <3>1. {itemPick', pick', ready', screenSpace', worldDirty', computeDirty', readPending', cancel',
             requested', submitFrame', compute', ended', stash', clicked'} \subseteq BOOLEAN
        <4>1. {ready', worldDirty', computeDirty', requested'} \subseteq BOOLEAN
          BY <1>1, <2>5 DEF ClearMap
        <4>2. {itemPick', pick', screenSpace', readPending', cancel', submitFrame', compute',
               ended', stash', clicked'} \subseteq BOOLEAN
          BY <1>1, <2>5 DEF OverlayTypeOK, ClearMap, Change, gui, gpu, device
        <4> QED
          BY <4>1, <4>2
      <3>2. /\ staged' \in Lists \cup {None} /\ pc' \in {"idle", "update", "end", "gone"}
            /\ {asked', map', sizeOf'} \subseteq Maps \cup {NoMap} /\ scale' \in {1, 2}
            /\ readWidth' \in Nat /\ readCount' \in Nat /\ wait' \in 0 .. ReadLatency /\ list' \in Nat
        BY <1>1, <2>5 DEF OverlayTypeOK, ClearMap, Change, gui, gpu, device
      <3> QED
        BY <2>0, <3>1, <3>2 DEF OverlayTypeOK
    <2>6. ASSUME NEW m \in Maps, LoadMap(m) PROVE OverlayTypeOK'
      <3>1. {itemPick', pick', ready', screenSpace', worldDirty', computeDirty', readPending', cancel',
             requested', submitFrame', compute', ended', stash', clicked'} \subseteq BOOLEAN
        BY <1>1, <2>6 DEF OverlayTypeOK, LoadMap, Change, gui, gpu, reads, device
      <3>2. /\ staged' \in Lists \cup {None} /\ pc' \in {"idle", "update", "end", "gone"}
            /\ {asked', map', sizeOf'} \subseteq Maps \cup {NoMap} /\ scale' \in {1, 2}
            /\ readWidth' \in Nat /\ readCount' \in Nat /\ wait' \in 0 .. ReadLatency /\ list' \in Nat
        BY <1>1, <2>6 DEF OverlayTypeOK, LoadMap, Change, gui, gpu, reads, device
      <3> QED
        BY <2>0, <3>1, <3>2 DEF OverlayTypeOK
    <2>7. ASSUME NEW how \in {"upload", "decode", "cache"}, InstallMap(how) PROVE OverlayTypeOK'
      <3>1. {itemPick', pick', ready', screenSpace', worldDirty', computeDirty', readPending', cancel',
             requested', submitFrame', compute', ended', stash', clicked'} \subseteq BOOLEAN
        <4>1. {ready', worldDirty', computeDirty', requested', clicked'} \subseteq BOOLEAN
          BY <1>1, <2>7 DEF InstallMap
        <4>2. {itemPick', pick', screenSpace', readPending', cancel', submitFrame', compute',
               ended', stash'} \subseteq BOOLEAN
          BY <1>1, <2>7 DEF OverlayTypeOK, InstallMap, gui, gpu, device
        <4> QED
          BY <4>1, <4>2
      <3>2. /\ staged' \in Lists \cup {None} /\ pc' \in {"idle", "update", "end", "gone"}
            /\ {asked', map', sizeOf'} \subseteq Maps \cup {NoMap} /\ scale' \in {1, 2}
            /\ readWidth' \in Nat /\ readCount' \in Nat /\ wait' \in 0 .. ReadLatency /\ list' \in Nat
        BY <1>1, <2>7 DEF OverlayTypeOK, InstallMap, gui, gpu, device
      <3> QED
        BY <2>0, <3>1, <3>2 DEF OverlayTypeOK
    <2>8. CASE RecreateRenderer
      <3>1. {itemPick', pick', ready', screenSpace', worldDirty', computeDirty', readPending', cancel',
             requested', submitFrame', compute', ended', stash', clicked'} \subseteq BOOLEAN
        <4>1. {pick', ready', computeDirty'} \subseteq BOOLEAN
          BY <1>1, <2>8 DEF RecreateRenderer
        <4>2. {itemPick', screenSpace', worldDirty', readPending', cancel', requested',
               submitFrame', compute', ended', stash', clicked'} \subseteq BOOLEAN
          BY <1>1, <2>8 DEF OverlayTypeOK, RecreateRenderer, Change, gui, gpu, reads, device
        <4> QED
          BY <4>1, <4>2
      <3>2. /\ staged' \in Lists \cup {None} /\ pc' \in {"idle", "update", "end", "gone"}
            /\ {asked', map', sizeOf'} \subseteq Maps \cup {NoMap} /\ scale' \in {1, 2}
            /\ readWidth' \in Nat /\ readCount' \in Nat /\ wait' \in 0 .. ReadLatency /\ list' \in Nat
        BY <1>1, <2>8 DEF OverlayTypeOK, RecreateRenderer, Change, gui, gpu, reads, device
      <3> QED
        BY <2>0, <3>1, <3>2 DEF OverlayTypeOK
    <2> QED
      BY <2>1, <2>2, <2>3, <2>4, <2>5, <2>6, <2>7, <2>8
  <1>3. TexturesKept'
    BY <1>1 DEF TexturesKept, Fresh
  <1>4. ReadsKept'
    BY <1>1 DEF ReadsKept, BufferTail, OnItsWay, ReadsFresh, HeightsFresh, Fresh, OverlayTypeOK
  <1> QED
    BY <1>2, <1>3, <1>4

LEMMA OverlayStarts == OverlayInit => OverlayInv
  <1> SUFFICES ASSUME OverlayInit PROVE OverlayInv
    OBVIOUS
  <1>1. tex.width = 0 /\ tex.compute = FALSE /\ tex.cells = <<>>
    BY DEF OverlayInit, NoTexture
  <1>2. OverlayTypeOK
    <2>0. 0 \in 0 .. ReadLatency
      BY OverlayAssumption
    <2>1. {itemPick, pick, ready, screenSpace, worldDirty, computeDirty, readPending, cancel,
           requested, submitFrame, compute, ended, stash, clicked} \subseteq BOOLEAN
      BY <1>1, <2>0 DEF OverlayInit, NoRead
    <2>2. /\ screen \in Seq(Rects) /\ world \in Seq(Rects)
          /\ buffer \in Seq(Cells) /\ heights \in Seq(Cells) /\ gpuRead \in Seq(Cells)
          /\ tex.width \in Nat /\ tex.compute \in BOOLEAN /\ tex.cells \in Seq(Cells)
      <3>1. <<>> \in Seq(Rects) /\ <<>> \in Seq(Cells)
        OBVIOUS
      <3>2. tex.width \in Nat /\ tex.compute \in BOOLEAN /\ tex.cells \in Seq(Cells)
        <4>1. 0 \in Nat /\ FALSE \in BOOLEAN
          OBVIOUS
        <4> QED
          BY <1>1, <3>1, <4>1, Zenon
      <3> QED
        BY <3>1, <3>2, Zenon DEF OverlayInit, NoRead
    <2>3. /\ staged \in Lists \cup {None} /\ pc \in {"idle", "update", "end", "gone"}
          /\ {asked, map, sizeOf} \subseteq Maps \cup {NoMap} /\ scale \in {1, 2}
          /\ readWidth \in Nat /\ readCount \in Nat /\ wait \in 0 .. ReadLatency /\ list \in Nat
      BY <1>1, <2>0 DEF OverlayInit, NoRead
    <2> QED
      BY <2>1, <2>2, <2>3 DEF OverlayTypeOK
  <1>3. TexturesKept
    <2>1. Len(world) = 0 /\ 0 <= MaxRects /\ Len(tex.cells) = 0
      BY <1>1 DEF OverlayInit, MaxRects
    <2> QED
      BY <1>1, <2>1, OverlayAssumption DEF OverlayInit, TexturesKept
  <1>4. ReadsKept
    BY OverlayAssumption DEF OverlayInit, ReadsKept, BufferTail, OnItsWay, ReadsFresh,
       HeightsFresh, Fresh, NoRead
  <1> QED
    BY <1>2, <1>3, <1>4 DEF OverlayInv

LEMMA OverlayStays == OverlayInv /\ [OverlayNext]_overlayVars => OverlayInv'
  <1> SUFFICES ASSUME OverlayInv, [OverlayNext]_overlayVars PROVE OverlayInv'
    OBVIOUS
  <1>1. CASE UNCHANGED overlayVars
    BY <1>1 DEF overlayVars, gui, basis, quads, gpu, reads, device, ghosts, OverlayInv,
       OverlayTypeOK, TexturesKept, ReadsKept, BufferTail, OnItsWay, ReadsFresh, HeightsFresh, Fresh
  <1> QED
    BY <1>1, SynchronizeKeeps, UpdateKeeps, EndRenderKeeps, OtherFrameKeeps, ShutdownKeeps,
       CallsKeep DEF OverlayNext, Frame

THEOREM OverlayInvariant == OverlaySpec => []OverlayInv
  BY OverlayStarts, OverlayStays, PTL DEF OverlaySpec

(* However rectangles, maps and scales change while heights are measured,  *)
(* read back and cancelled, the heights that are used are those of the     *)
(* rectangles that are shown (setOverlayRects, processOverlayMaxReadback), *)
(* for any lists, maps and latency.                                        *)
THEOREM HeightsAlwaysOfRects == OverlaySpec => []HeightsOfCurrentRects
  <1>1. OverlayInv => HeightsOfCurrentRects
    BY DEF OverlayInv, ReadsKept, HeightsFresh, Fresh, HeightsOfCurrentRects, Unmeasured
  <1> QED
    BY <1>1, OverlayInvariant, PTL

(* And the buffer of a read in flight outlives it, for the latency of two  *)
(* frames bgfx::readTexture promises: the delete queue keeps the buffer    *)
(* for one frame after the one in which the item went away.                *)
THEOREM ReadsAlwaysServe ==
    ASSUME ReadLatency <= 2
    PROVE  OverlaySpec => []ReadsServeTheirList
  <1>1. OverlayInv => BufferOutlivesRead
    <2> SUFFICES ASSUME OverlayInv, pc = "gone", gpuRead # NoRead PROVE stash
      BY DEF BufferOutlivesRead
    <2>1. wait >= 1 /\ wait \in Nat /\ ReadLatency \in Nat /\ (stash \/ wait < ReadLatency - 1)
      BY OverlayAssumption DEF OverlayInv, ReadsKept, OverlayTypeOK, NoRead
    <2> QED
      BY <2>1
  <1>2. OverlaySpec => []HeightsOfCurrentRects
    BY HeightsAlwaysOfRects
  <1> QED
    BY <1>1, <1>2, OverlayInvariant, PTL DEF ReadsServeTheirList
=============================================================================
