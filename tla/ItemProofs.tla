----------------------------- MODULE ItemProofs -----------------------------
(***************************************************************************)
(* Theorems about what a viewport item does with live shaders, about the   *)
(* cache that compiles them, about the handles of the probe that sees the  *)
(* item from outside, and about what the mouse does in it:                 *)
(*  - programs are counted as their handles are, and a slot runs what was  *)
(*    last asked of it and reports what it runs;                           *)
(*  - the cache of compiled shaders gives the item nothing but binaries    *)
(*    for the slot and the renderer, for any slots, sources and renderers  *)
(*    and any number of restarts;                                          *)
(*  - a handle of the QML probe reaches the object it was given out for,   *)
(*    for any addresses and however often they are used again;             *)
(*  - a drag, an orbit or a selection moves the view as the path of the    *)
(*    mouse says, whatever else arrives in between;                        *)
(*  - a request to focus on a selected object is granted with the view it  *)
(*    asked for;                                                           *)
(*  - a click finds the nearest of the rectangles it points at, for any    *)
(*    map, rectangles, heights and ray.                                    *)
(***************************************************************************)
EXTENDS ViewportInput, LiveShader, ShaderCompile, OverlayPick, QmlProbe,
        SubsequencesProofs, TLAPS

(* Live shaders.                                                           *)
ShaderSpec == ShaderInit /\ [][ShaderNext]_shaders

Drawing == pc # "gone"

(* Before the first surface there is nothing.                              *)
NothingYet ==
    ~inited =>
        /\ pc \in {"idle", "surface", "gone"}
        /\ {terrain.now, terrain.original, compute.now, compute.original} = {None}
        /\ \A p \in Programs : refs[p] = 0
        /\ \A s \in Slots : ~slot[s].active

(* What a live program replaced is kept aside: the stock one, in the tier  *)
(* that draws with it.                                                     *)
TerrainKept ==
  /\ {terrain.now, terrain.original} \subseteq (Shaders \X Shaders) \cup {None}
  /\ noCompute /\ inited /\ Drawing =>
        /\ terrain.original \in {None, StockProgram}
        /\ terrain.original = None => terrain.now = StockProgram
        /\ terrain.now # None
        /\ (\E s \in TerrainSlots : slot[s].active) => terrain.original # None

ComputeKept ==
    /\ noCompute => ~slot["compute"].active
    /\ ~slot["compute"].active => compute.original = None
    /\ slot["compute"].active => compute.original = StockCompute

ActiveHasHash == \A s \in Slots : slot[s].active => slot[s].hash \in Shaders

(* What slot s is going to report when all requests for it are served.     *)
Coming(s) ==
    IF revertBox = s THEN Stock
    ELSE IF applyBox # None /\ applyBox.slot = s THEN applyBox.bin
    ELSE IF slot[s].request = Revert THEN Stock
    ELSE IF slot[s].request # None THEN slot[s].request
    ELSE Reported(s, slot)

RequestsKept ==
    /\ pc \notin {"idle", "gone"} => applyBox = None /\ revertBox = None
    /\ Drawing => \A s \in Slots \ doubt : Coming(s) = want[s]

RunsAsReported == inited /\ Drawing => RunsWhatItReports

ShaderInv ==
    /\ ShaderTypeOK /\ NothingYet /\ TerrainKept /\ ComputeKept /\ ActiveHasHash
    /\ RequestsKept /\ RunsAsReported /\ NoDangling /\ NoLeak
-----------------------------------------------------------------------------
SlotStates == [Slots -> [active : BOOLEAN, hash : Shaders \cup {None},
                         request : Shaders \cup {None, Revert}]]

Hashed(sl) == \A s \in Slots : sl[s].active => sl[s].hash \in Shaders

Surplus(r, h, p) == r[p] - Held(h, p)

(* TerrainKept, of any handles.                                            *)
Stands(h) ==
    /\ h.original \in {None, StockProgram}
    /\ h.original = None => h.now = StockProgram
    /\ h.now # None

(* What a rebuild keeps aside.                                             *)
Aside(h) == IF h.original = None THEN h.now ELSE h.original

SomeActive(sl) == \E s \in TerrainSlots : sl[s].active

Draws(sl) == <<Reported("vertex", sl), Reported("fragment", sl)>>

LEMMA ReportedIsShader ==
    ASSUME NEW sl \in SlotStates, Hashed(sl), NEW s \in Slots
    PROVE  Reported(s, sl) \in Shaders
  BY DEF SlotStates, Hashed, Reported, Shaders

LEMMA DrawsIsProgram ==
    ASSUME NEW sl \in SlotStates, Hashed(sl)
    PROVE  Draws(sl) \in Programs /\ Draws(sl) \in Shaders \X Shaders
  BY ReportedIsShader DEF Draws, Programs, Slots, TerrainSlots

LEMMA NamesDiffer == None \notin Programs /\ StockProgram \in Programs
                     /\ StockCompute \in Programs /\ StockProgram # StockCompute
                     /\ StockCompute \notin Shaders \X Shaders
  <1>1. Len(StockProgram) = 2 /\ Len(StockCompute) = 1
    BY DEF StockProgram, StockCompute
  <1>2. None \notin Programs
    BY ShaderAssumption
  <1>3. StockProgram \in Programs /\ StockCompute \in Programs
    BY DEF StockProgram, StockCompute, Programs, Shaders
  <1>4. StockCompute \notin Shaders \X Shaders
    BY DEF StockCompute
  <1> QED
    BY <1>1, <1>2, <1>3, <1>4

LEMMA CreatedIs ==
    ASSUME NEW r \in [Programs -> Int], NEW q \in Programs
    PROVE  /\ Created(r, q) \in [Programs -> Int]
           /\ \A p \in Programs : Created(r, q)[p] = r[p] + (IF q = p THEN 1 ELSE 0)
  BY DEF Created

LEMMA DestroyedIs ==
    ASSUME NEW r \in [Programs -> Int], NEW q \in Programs \cup {None}
    PROVE  /\ Destroyed(r, q) \in [Programs -> Int]
           /\ \A p \in Programs : Destroyed(r, q)[p] = r[p] - (IF q = p THEN 1 ELSE 0)
  BY NamesDiffer DEF Destroyed

(* What a rebuild does to handles and references, which of three it is.    *)
RebuiltAs(b, h, r, sl, ok) ==
    /\ b.handles \in Handles /\ b.refs \in [Programs -> Int] /\ b.done \in BOOLEAN
    /\ ~SomeActive(sl) =>
          /\ b.handles = [now |-> Aside(h), original |-> None] /\ b.done
          /\ \A p \in Programs : b.refs[p] = r[p] -
                (IF h.now = p /\ h.now # Aside(h) THEN 1 ELSE 0)
    /\ SomeActive(sl) /\ ~ok =>
          b.handles = [now |-> h.now, original |-> Aside(h)] /\ ~b.done /\ b.refs = r
    /\ SomeActive(sl) /\ ok =>
          /\ b.handles = [now |-> Draws(sl), original |-> Aside(h)] /\ b.done
          /\ \A p \in Programs : b.refs[p] = r[p] +
                (IF Draws(sl) = p THEN 1 ELSE 0) -
                (IF h.now = p /\ h.now # Aside(h) THEN 1 ELSE 0)

LEMMA RebuildIs ==
    ASSUME NEW h \in Handles, NEW r \in [Programs -> Int], NEW sl \in SlotStates,
           Hashed(sl), NEW ok \in BOOLEAN
    PROVE  RebuiltAs(Rebuild(h, r, sl, ok), h, r, sl, ok)
  <1> DEFINE b == Rebuild(h, r, sl, ok)
  <1> SUFFICES RebuiltAs(b, h, r, sl, ok)
    OBVIOUS
  <1>1. /\ h.now \in Programs \cup {None} /\ h.original \in Programs \cup {None}
        /\ h = [now |-> h.now, original |-> h.original]
        /\ Aside(h) \in Programs \cup {None}
    BY DEF Handles, Aside
  <1>2. CASE ~SomeActive(sl)
    <2>1. b = [handles |-> [now |-> Aside(h), original |-> None],
               refs |-> DestroyLive(r, h, Aside(h)), done |-> TRUE]
      BY <1>2, Zenon DEF Rebuild, SomeActive, Aside
    <2>2. /\ DestroyLive(r, h, Aside(h)) \in [Programs -> Int]
          /\ \A p \in Programs : DestroyLive(r, h, Aside(h))[p] = r[p] -
                (IF h.now = p /\ h.now # Aside(h) THEN 1 ELSE 0)
      <3>1. CASE h.now = Aside(h)
        BY <3>1 DEF DestroyLive
      <3>2. CASE h.now # Aside(h)
        <4>1. DestroyLive(r, h, Aside(h)) = Destroyed(r, h.now)
          BY <3>2 DEF DestroyLive
        <4> QED BY <4>1, <3>2, <1>1, DestroyedIs
      <3> QED BY <3>1, <3>2
    <2>3. b.handles = [now |-> Aside(h), original |-> None] /\ b.refs = DestroyLive(r, h, Aside(h)) /\ b.done = TRUE
      BY <2>1
    <2>4. b.handles \in Handles
      BY <2>3, <1>1 DEF Handles
    <2> HIDE DEF b
    <2> QED BY <2>2, <2>3, <2>4, <1>2 DEF RebuiltAs
  <1>3. CASE SomeActive(sl) /\ ~ok
    <2>1. b = [handles |-> [h EXCEPT !.original = Aside(h)], refs |-> r, done |-> FALSE]
      BY <1>3, Zenon DEF Rebuild, SomeActive, Aside
    <2>2. [h EXCEPT !.original = Aside(h)] = [now |-> h.now, original |-> Aside(h)]
      BY <1>1
    <2>3. b.handles = [now |-> h.now, original |-> Aside(h)] /\ b.refs = r /\ b.done = FALSE
      BY <2>1, <2>2
    <2>4. b.handles \in Handles
      BY <2>3, <1>1 DEF Handles
    <2> HIDE DEF b
    <2> QED BY <2>3, <2>4, <1>3 DEF RebuiltAs
  <1>4. CASE SomeActive(sl) /\ ok
    <2> DEFINE c == Created(r, Draws(sl))
    <2>1. b = [handles |-> [now |-> Draws(sl), original |-> Aside(h)],
               refs |-> DestroyReplaced(c, h, Aside(h)), done |-> TRUE]
      BY <1>4, Zenon DEF Rebuild, SomeActive, Aside, Draws
    <2>2. /\ c \in [Programs -> Int]
          /\ \A p \in Programs : c[p] = r[p] + (IF Draws(sl) = p THEN 1 ELSE 0)
      BY DrawsIsProgram, CreatedIs
    <2>3. /\ DestroyReplaced(c, h, Aside(h)) \in [Programs -> Int]
          /\ \A p \in Programs : DestroyReplaced(c, h, Aside(h))[p] = c[p] -
                (IF h.now = p /\ h.now # Aside(h) THEN 1 ELSE 0)
      <3> HIDE DEF c
      <3>1. CASE h.now = Aside(h)
        BY <3>1, <2>2 DEF DestroyReplaced
      <3>2. CASE h.now # Aside(h)
        <4>1. DestroyReplaced(c, h, Aside(h)) = Destroyed(c, h.now)
          BY <3>2 DEF DestroyReplaced
        <4> QED BY <4>1, <3>2, <1>1, <2>2, DestroyedIs
      <3> QED BY <3>1, <3>2
    <2> HIDE DEF c
    <2>4. /\ b.handles = [now |-> Draws(sl), original |-> Aside(h)]
          /\ b.refs = DestroyReplaced(c, h, Aside(h)) /\ b.done = TRUE
      BY <2>1
    <2>5. b.handles \in Handles
      BY <2>4, <1>1, DrawsIsProgram DEF Handles
    <2>6. \A p \in Programs : b.refs[p] = r[p] +
                       (IF Draws(sl) = p THEN 1 ELSE 0) -
                       (IF h.now = p /\ h.now # Aside(h) THEN 1 ELSE 0)
      BY <2>2, <2>3, <2>4
    <2> HIDE DEF b
    <2> QED BY <2>3, <2>4, <2>5, <2>6, <1>4 DEF RebuiltAs
  <1> QED BY <1>2, <1>3, <1>4

(* The references a rebuild leaves are not fewer than the handles, except  *)
(* where it fails and the stock program is not yet aside; and not more,    *)
(* except of the program kept aside.                                       *)
LEMMA RebuildSurplus ==
    ASSUME NEW h \in Handles, NEW r \in [Programs -> Int], NEW sl \in SlotStates,
           Hashed(sl), NEW ok \in BOOLEAN,
           NEW b, b = Rebuild(h, r, sl, ok), NEW p \in Programs
    PROVE  /\ b.done \/ h.original # None => Surplus(r, h, p) <= Surplus(b.refs, b.handles, p)
           /\ h.original # p => Surplus(b.refs, b.handles, p) <= Surplus(r, h, p)
  <1> RebuiltAs(b, h, r, sl, ok)
    BY RebuildIs
  <1>1. /\ h.now \in Programs \cup {None} /\ h.original \in Programs \cup {None}
        /\ None # p /\ r[p] \in Int
    BY NamesDiffer DEF Handles
  <1>2. CASE ~SomeActive(sl)
    <2>1. /\ b.handles.now = Aside(h) /\ b.handles.original = None /\ b.done
          /\ b.refs[p] = r[p] - (IF h.now = p /\ h.now # Aside(h) THEN 1 ELSE 0)
      BY <1>2 DEF RebuiltAs
    <2> QED BY <2>1, <1>1 DEF Surplus, Held, Aside
  <1>3. CASE SomeActive(sl) /\ ~ok
    <2>1. /\ b.handles.now = h.now /\ b.handles.original = Aside(h) /\ ~b.done /\ b.refs = r
      BY <1>3 DEF RebuiltAs
    <2> QED BY <2>1, <1>1 DEF Surplus, Held, Aside
  <1>4. CASE SomeActive(sl) /\ ok
    <2> DEFINE d == Draws(sl)
    <2>1. /\ b.handles = [now |-> d, original |-> Aside(h)] /\ b.done
          /\ \A q \in Programs : b.refs[q] = r[q] + (IF d = q THEN 1 ELSE 0)
                - (IF h.now = q /\ h.now # Aside(h) THEN 1 ELSE 0)
      BY <1>4, Zenon DEF RebuiltAs
    <2>2. d # None
      BY DrawsIsProgram, NamesDiffer
    <2> HIDE DEF d
    <2>3. /\ b.handles.now = d /\ b.handles.original = Aside(h) /\ d # None
          /\ b.refs[p] = r[p] + (IF d = p THEN 1 ELSE 0)
                - (IF h.now = p /\ h.now # Aside(h) THEN 1 ELSE 0)
      BY <2>1, <2>2
    <2> QED BY <2>1, <2>3, <1>1 DEF Surplus, Held, Aside
  <1> QED BY <1>2, <1>3, <1>4

(* In the tier that draws with it, the stock program stays aside.          *)
LEMMA RebuildStands ==
    ASSUME NEW h \in Handles, NEW r \in [Programs -> Int], NEW sl \in SlotStates,
           Hashed(sl), NEW ok \in BOOLEAN,
           NEW b, b = Rebuild(h, r, sl, ok), Stands(h)
    PROVE  /\ Stands(b.handles)
           /\ SomeActive(sl) => b.handles.original # None
           /\ b.done => b.handles.now = Draws(sl)
  <1> RebuiltAs(b, h, r, sl, ok)
    BY RebuildIs
  <1>1. Aside(h) = StockProgram /\ StockProgram # None /\ h.now # None
    BY NamesDiffer DEF Stands, Aside
  <1>2. CASE ~SomeActive(sl)
    <2>1. b.handles = [now |-> Aside(h), original |-> None]
      BY <1>2 DEF RebuiltAs
    <2>2. Draws(sl) = StockProgram
      BY <1>2 DEF Draws, SomeActive, Reported, StockProgram, TerrainSlots
    <2> QED BY <2>1, <2>2, <1>1, <1>2 DEF Stands
  <1>3. CASE SomeActive(sl) /\ ~ok
    <2>1. b.handles = [now |-> h.now, original |-> Aside(h)] /\ ~b.done
      BY <1>3 DEF RebuiltAs
    <2> QED BY <2>1, <1>1 DEF Stands
  <1>4. CASE SomeActive(sl) /\ ok
    <2>1. b.handles = [now |-> Draws(sl), original |-> Aside(h)]
      BY <1>4 DEF RebuiltAs
    <2> QED BY <2>1, <1>1, DrawsIsProgram, NamesDiffer DEF Stands
  <1> QED BY <1>2, <1>3, <1>4
-----------------------------------------------------------------------------
Pairs(h) == {h.now, h.original} \subseteq (Shaders \X Shaders) \cup {None}

(* What slot s is going to report when its own request is served.          *)
Asks(s) ==
    IF slot[s].request = Revert THEN Stock
    ELSE IF slot[s].request # None THEN slot[s].request
    ELSE Reported(s, slot)

(* What serving the request of a terrain slot s comes to.                  *)
StageDone(s) ==
    /\ terrain' \in Handles /\ Pairs(terrain') /\ refs' \in [Programs -> Int]
    /\ {stale', failed'} \subseteq BOOLEAN /\ (failed => failed')
    /\ slot' \in SlotStates /\ Hashed(slot')
    /\ \A t \in Slots \ {s} : slot'[t] = slot[t]
    /\ slot'[s].request = None
    /\ doubt \subseteq doubt' /\ doubt' \subseteq Slots
    /\ s \notin doubt' => Reported(s, slot') = Asks(s)
    /\ noCompute =>
          /\ Stands(terrain')
          /\ SomeActive(slot') => terrain'.original # None
          /\ ~stale' => terrain'.now = Draws(slot')
    /\ \A p \in Programs :
          /\ noCompute \/ ~failed' =>
                Surplus(refs, terrain, p) <= Surplus(refs', terrain', p)
          /\ \/ Surplus(refs', terrain', p) <= Surplus(refs, terrain, p)
             \/ p = StockProgram
             \/ ~noCompute /\ p \in Shaders \X Shaders

LEMMA RebuildPairs ==
    ASSUME NEW h \in Handles, NEW r \in [Programs -> Int], NEW sl \in SlotStates,
           Hashed(sl), NEW ok \in BOOLEAN,
           NEW b, b = Rebuild(h, r, sl, ok), Pairs(h)
    PROVE  Pairs(b.handles)
  <1>1. RebuiltAs(b, h, r, sl, ok)
    BY RebuildIs
  <1>2. Draws(sl) \in Shaders \X Shaders
    BY DrawsIsProgram
  <1>3. Aside(h) \in (Shaders \X Shaders) \cup {None} /\ h.now \in (Shaders \X Shaders) \cup {None}
    BY DEF Pairs, Aside
  <1> DEFINE S == Shaders \X Shaders
             d == Draws(sl)
  <1> HIDE DEF S, d
  <1>4. \/ b.handles = [now |-> Aside(h), original |-> None]
        \/ b.handles = [now |-> h.now, original |-> Aside(h)]
        \/ b.handles = [now |-> d, original |-> Aside(h)]
    BY <1>1, Zenon DEF RebuiltAs, d
  <1>5. \A x, y : Pairs([now |-> x, original |-> y]) <=> {x, y} \subseteq S \cup {None}
    BY DEF Pairs, S
  <1>6. d \in S /\ Aside(h) \in S \cup {None} /\ h.now \in S \cup {None}
    BY <1>2, <1>3 DEF S, d
  <1> QED BY <1>4, <1>5, <1>6

(* A terrain slot is only served when there has been a surface.            *)
LEMMA Served ==
    ASSUME ShaderInv, NEW s \in TerrainSlots, pc = s
    PROVE  /\ inited /\ terrain \in Handles /\ Pairs(terrain)
           /\ refs \in [Programs -> Int] /\ slot \in SlotStates /\ Hashed(slot)
           /\ {stale, failed} \subseteq BOOLEAN /\ doubt \subseteq Slots
           /\ s \in Slots
           /\ noCompute =>
                 /\ Stands(terrain)
                 /\ SomeActive(slot) => terrain.original # None
                 /\ ~stale => terrain.now = Draws(slot)
  <1>1. pc \notin {"idle", "surface", "gone"} /\ s \in Slots
    BY DEF TerrainSlots, Slots
  <1>2. inited
    BY <1>1 DEF ShaderInv, ShaderTypeOK, NothingYet
  <1>3. terrain \in Handles /\ refs \in [Programs -> Int] /\ slot \in SlotStates
        /\ {stale, failed} \subseteq BOOLEAN /\ doubt \subseteq Slots
    BY DEF ShaderInv, ShaderTypeOK, SlotStates
  <1>4. Pairs(terrain) /\ Hashed(slot)
    BY DEF ShaderInv, TerrainKept, Pairs, ActiveHasHash, Hashed
  <1>5. ASSUME noCompute
        PROVE  /\ Stands(terrain)
               /\ SomeActive(slot) => terrain.original # None
               /\ ~stale => terrain.now = Draws(slot)
    <2>1. /\ Stands(terrain) /\ (SomeActive(slot) => terrain.original # None)
      BY <1>5, <1>1, <1>2 DEF ShaderInv, TerrainKept, Drawing, Stands, SomeActive
    <2>2. ~stale => terrain.now = Draws(slot)
      BY <1>5, <1>1, <1>2, Zenon DEF ShaderInv, RunsAsReported, Drawing, RunsWhatItReports, Draws
    <2> QED BY <2>1, <2>2
  <1> QED BY <1>1, <1>2, <1>3, <1>4, <1>5

LEMMA RevertDone ==
    ASSUME ShaderInv, NEW s \in TerrainSlots, pc = s, RevertStage(s)
    PROVE  StageDone(s)
  <1> DEFINE sl == Reverted(s)
  <1>1. PICK ok \in BOOLEAN : /\ Install(sl, Rebuild(terrain, refs, sl, ok))
                              /\ failed' = (failed \/ stale')
    BY DEF RevertStage
  <1> DEFINE b == Rebuild(terrain, refs, sl, ok)
  <1>2. slot[s].request = Revert /\ doubt' = doubt
    BY DEF RevertStage
  <1>3. /\ sl \in SlotStates /\ sl[s] = NoSlot
        /\ \A t \in Slots \ {s} : sl[t] = slot[t]
    BY Served DEF Reverted, SlotStates, NoSlot
  <1>4. Hashed(sl)
    BY <1>3, Served DEF Hashed, NoSlot
  <1>5. slot' = sl /\ terrain' = b.handles /\ refs' = b.refs /\ stale' = ~b.done
    BY <1>1 DEF Install
  <1> HIDE DEF sl
  <1>6. RebuiltAs(b, terrain, refs, sl, ok)
    BY <1>3, <1>4, Served, RebuildIs
  <1>7. Pairs(b.handles)
    BY <1>3, <1>4, Served, RebuildPairs
  <1>8. noCompute => /\ Stands(b.handles)
                     /\ SomeActive(sl) => b.handles.original # None
                     /\ b.done => b.handles.now = Draws(sl)
    BY <1>3, <1>4, Served, RebuildStands
  <1>9. \A p \in Programs :
           /\ b.done \/ terrain.original # None =>
                 Surplus(refs, terrain, p) <= Surplus(b.refs, b.handles, p)
           /\ terrain.original # p => Surplus(b.refs, b.handles, p) <= Surplus(refs, terrain, p)
    BY <1>3, <1>4, Served, RebuildSurplus
  <1>10. b.done \/ SomeActive(sl)
    BY <1>6 DEF RebuiltAs
  <1>11. SomeActive(sl) => SomeActive(slot)
    BY <1>3 DEF SomeActive, NoSlot, Slots, TerrainSlots
  <1>12. /\ b.handles \in Handles /\ b.refs \in [Programs -> Int] /\ b.done \in BOOLEAN
    BY <1>6 DEF RebuiltAs
  <1> HIDE DEF b
  <1>13. \A p \in Programs :
           /\ noCompute \/ ~failed' =>
                Surplus(refs, terrain, p) <= Surplus(refs', terrain', p)
           /\ \/ Surplus(refs', terrain', p) <= Surplus(refs, terrain, p)
              \/ p = StockProgram
              \/ ~noCompute /\ p \in Shaders \X Shaders
    <2> TAKE p \in Programs
    <2>1. noCompute \/ ~failed' => b.done \/ terrain.original # None
      BY <1>1, <1>5, <1>10, <1>11, Served
    <2>2. \/ terrain.original # p
          \/ p = StockProgram
          \/ ~noCompute /\ p \in Shaders \X Shaders
      BY Served, NamesDiffer DEF Stands, Pairs
    <2> QED BY <2>1, <2>2, <1>9, <1>5
  <1>14. Reported(s, slot') = Asks(s)
    BY <1>2, <1>3, <1>5, Served DEF Reported, Asks, NoSlot
  <1>15. {stale', failed'} \subseteq BOOLEAN /\ (failed => failed') /\ slot'[s].request = None
    BY <1>1, <1>3, <1>5, Served DEF NoSlot
  <1>16. noCompute =>
          /\ Stands(terrain')
          /\ SomeActive(slot') => terrain'.original # None
          /\ ~stale' => terrain'.now = Draws(slot')
    BY <1>5, <1>8, <1>12
  <1> QED
    BY <1>2, <1>3, <1>4, <1>5, <1>7, <1>12, <1>13, <1>14, <1>15, <1>16, Served DEF StageDone

(* A build that fails is made good by the one without the new shader, if   *)
(* the stock program was aside, or is all that is left.                    *)
LEMMA ApplyDone ==
    ASSUME ShaderInv, NEW s \in TerrainSlots, pc = s, ApplyStage(s)
    PROVE  StageDone(s)
  <1> DEFINE sl  == [slot EXCEPT ![s] = [active |-> TRUE, request |-> None,
                                         hash |-> slot[s].request]]
             off == [sl EXCEPT ![s].active = FALSE]
  <1>1. PICK ok \in BOOLEAN, again \in BOOLEAN :
          IF Rebuild(terrain, refs, sl, ok).done
          THEN Install(sl, Rebuild(terrain, refs, sl, ok)) /\ UNCHANGED <<doubt, failed>>
          ELSE /\ Install(off, Rebuild(Rebuild(terrain, refs, sl, ok).handles,
                                       Rebuild(terrain, refs, sl, ok).refs, off, again))
               /\ doubt' = doubt \cup {s} /\ failed' = TRUE
    BY Zenon DEF ApplyStage
  <1> DEFINE b == Rebuild(terrain, refs, sl, ok)
             c == Rebuild(b.handles, b.refs, off, again)
  <1>2. slot[s].request \in Shaders /\ slot[s].request # Revert /\ slot[s].request # None
    BY ShaderAssumption DEF ApplyStage
  <1>3. /\ sl \in SlotStates /\ sl[s].active /\ sl[s].request = None
        /\ sl[s].hash = slot[s].request
        /\ off \in SlotStates /\ ~off[s].active /\ off[s].request = None
        /\ \A t \in Slots \ {s} : sl[t] = slot[t] /\ off[t] = slot[t]
    BY <1>2, Served DEF SlotStates
  <1>4. Hashed(sl) /\ Hashed(off)
    BY <1>2, <1>3, Served DEF Hashed
  <1>5. SomeActive(sl) /\ (SomeActive(off) => SomeActive(slot))
    BY <1>3 DEF SomeActive, Slots, TerrainSlots
  <1>6. Asks(s) = slot[s].request
    BY <1>2 DEF Asks
  <1> HIDE DEF sl, off
  <1>7. RebuiltAs(b, terrain, refs, sl, ok) /\ Pairs(b.handles)
    BY <1>3, <1>4, Served, RebuildIs, RebuildPairs
  <1>8. b.handles \in Handles /\ b.refs \in [Programs -> Int] /\ b.done = ok
    BY <1>5, <1>7, Zenon DEF RebuiltAs
  <1>9. noCompute => /\ Stands(b.handles) /\ b.handles.original # None
                     /\ b.done => b.handles.now = Draws(sl)
    BY <1>3, <1>4, <1>5, Served, RebuildStands
  <1>10. \A p \in Programs :
           /\ b.done \/ terrain.original # None =>
                 Surplus(refs, terrain, p) <= Surplus(b.refs, b.handles, p)
           /\ terrain.original # p => Surplus(b.refs, b.handles, p) <= Surplus(refs, terrain, p)
    BY <1>3, <1>4, Served, RebuildSurplus
  <1>11. \A p \in Programs : \/ terrain.original # p
                             \/ p = StockProgram
                             \/ ~noCompute /\ p \in Shaders \X Shaders
    BY Served, NamesDiffer DEF Stands, Pairs
  <1>12. s \in Slots /\ slot' \in SlotStates => Reported(s, slot') = IF slot'[s].active THEN slot'[s].hash ELSE Stock
    BY DEF Reported
  <1>13. CASE ok
    <2>1. /\ slot' = sl /\ terrain' = b.handles /\ refs' = b.refs /\ stale' = ~b.done
          /\ doubt' = doubt /\ failed' = failed
      BY <1>1, <1>8, <1>13 DEF Install
    <2> HIDE DEF b
    <2>2. Reported(s, slot') = Asks(s)
      BY <1>3, <1>6, <2>1 DEF Reported
    <2>3. \A p \in Programs :
             /\ noCompute \/ ~failed' =>
                  Surplus(refs, terrain, p) <= Surplus(refs', terrain', p)
             /\ \/ Surplus(refs', terrain', p) <= Surplus(refs, terrain, p)
                \/ p = StockProgram
                \/ ~noCompute /\ p \in Shaders \X Shaders
      BY <1>8, <1>10, <1>11, <1>13, <2>1
    <2>4. noCompute =>
            /\ Stands(terrain')
            /\ SomeActive(slot') => terrain'.original # None
            /\ ~stale' => terrain'.now = Draws(slot')
      BY <1>8, <1>9, <1>13, <2>1
    <2>5. {stale', failed'} \subseteq BOOLEAN /\ (failed => failed')
      BY <1>8, <2>1, Served
    <2> QED
      BY <1>3, <1>4, <1>7, <1>8, <2>1, <2>2, <2>3, <2>4, <2>5, Served DEF StageDone
  <1>14. CASE ~ok
    <2>1. /\ slot' = off /\ terrain' = c.handles /\ refs' = c.refs /\ stale' = ~c.done
          /\ doubt' = doubt \cup {s} /\ failed' = TRUE
      BY <1>1, <1>8, <1>14 DEF Install
    <2>2. b.handles = [now |-> terrain.now, original |-> Aside(terrain)] /\ b.refs = refs
      BY <1>5, <1>7, <1>14, Zenon DEF RebuiltAs
    <2> HIDE DEF b
    <2>3. RebuiltAs(c, b.handles, b.refs, off, again) /\ Pairs(c.handles)
      BY <1>3, <1>4, <1>7, <1>8, RebuildIs, RebuildPairs
    <2>4. c.handles \in Handles /\ c.refs \in [Programs -> Int] /\ c.done \in BOOLEAN
      BY <2>3, Zenon DEF RebuiltAs
    <2>5. noCompute => /\ Stands(c.handles)
                       /\ SomeActive(off) => c.handles.original # None
                       /\ c.done => c.handles.now = Draws(off)
      BY <1>3, <1>4, <1>8, <1>9, RebuildStands
    <2>6. \A p \in Programs :
           /\ c.done \/ b.handles.original # None =>
                 Surplus(b.refs, b.handles, p) <= Surplus(c.refs, c.handles, p)
           /\ b.handles.original # p =>
                 Surplus(c.refs, c.handles, p) <= Surplus(b.refs, b.handles, p)
      BY <1>3, <1>4, <1>8, RebuildSurplus
    <2>7. \A p \in Programs :
             noCompute => Surplus(refs, terrain, p) <= Surplus(c.refs, c.handles, p)
      <3> SUFFICES ASSUME NEW p \in Programs, noCompute
                   PROVE  Surplus(refs, terrain, p) <= Surplus(c.refs, c.handles, p)
        OBVIOUS
      <3>0. refs[p] \in Int /\ c.refs[p] \in Int /\ b.refs[p] \in Int /\ terrain \in Handles
        BY <1>8, <2>4, Served
      <3>1. CASE terrain.original # None
        <4>1. Surplus(refs, terrain, p) <= Surplus(b.refs, b.handles, p)
          BY <1>10, <3>1
        <4>2. Surplus(b.refs, b.handles, p) <= Surplus(c.refs, c.handles, p)
          BY <1>9, <2>6
        <4> QED BY <4>1, <4>2, <3>0 DEF Surplus, Held
      <3>2. CASE terrain.original = None
        <4>1. ~SomeActive(off) /\ terrain.now = StockProgram
          BY <1>5, <3>2, Served DEF Stands
        <4>2. b.handles = [now |-> StockProgram, original |-> StockProgram] /\ StockProgram # None
          BY <2>2, <3>2, <4>1, NamesDiffer DEF Aside
        <4>3. /\ c.handles = [now |-> Aside(b.handles), original |-> None]
              /\ \A q \in Programs : c.refs[q] = b.refs[q] -
                    (IF b.handles.now = q /\ b.handles.now # Aside(b.handles) THEN 1 ELSE 0)
          BY <2>3, <4>1, Zenon DEF RebuiltAs
        <4>4. Aside(b.handles) = StockProgram
          BY <4>2 DEF Aside
        <4>5. c.refs[p] = refs[p] /\ c.handles = [now |-> StockProgram, original |-> None]
          BY <2>2, <3>0, <4>2, <4>3, <4>4
        <4> QED BY <3>0, <3>2, <4>1, <4>5, NamesDiffer DEF Surplus, Held
      <3> QED BY <3>1, <3>2
    <2>8. \A p \in Programs : \/ b.handles.original # p
                              \/ p = StockProgram
                              \/ ~noCompute /\ p \in Shaders \X Shaders
      BY <1>7, <1>9, NamesDiffer DEF Stands, Pairs
    <2>9. \A p \in Programs :
             \/ Surplus(c.refs, c.handles, p) <= Surplus(refs, terrain, p)
             \/ p = StockProgram
             \/ ~noCompute /\ p \in Shaders \X Shaders
      <3> TAKE p \in Programs
      <3>0. refs[p] \in Int /\ c.refs[p] \in Int /\ b.refs[p] \in Int
        BY <1>8, <2>4, Served
      <3>1. CASE terrain.original # p /\ b.handles.original # p
        <4>1. Surplus(b.refs, b.handles, p) <= Surplus(refs, terrain, p)
          BY <1>10, <3>1
        <4>2. Surplus(c.refs, c.handles, p) <= Surplus(b.refs, b.handles, p)
          BY <2>6, <3>1
        <4> QED BY <4>1, <4>2, <3>0 DEF Surplus, Held
      <3> QED BY <3>1, <1>11, <2>8
    <2> HIDE DEF c
    <2>10. {stale', failed'} \subseteq BOOLEAN /\ (failed => failed') /\ doubt' \subseteq Slots /\ s \in doubt'
      BY <2>1, <2>4, Served
    <2>11. noCompute =>
            /\ Stands(terrain')
            /\ SomeActive(slot') => terrain'.original # None
            /\ ~stale' => terrain'.now = Draws(slot')
      BY <2>1, <2>4, <2>5
    <2>12. \A p \in Programs :
             /\ noCompute \/ ~failed' =>
                  Surplus(refs, terrain, p) <= Surplus(refs', terrain', p)
             /\ \/ Surplus(refs', terrain', p) <= Surplus(refs, terrain, p)
                \/ p = StockProgram
                \/ ~noCompute /\ p \in Shaders \X Shaders
      BY <2>1, <2>7, <2>9
    <2> QED
      BY <1>3, <1>4, <2>1, <2>3, <2>4, <2>10, <2>11, <2>12 DEF StageDone
  <1> QED BY <1>13, <1>14

LEMMA StageKeeps ==
    ASSUME ShaderInv, NEW s \in TerrainSlots, pc = s, pc' \in {"fragment", "compute"},
           StageDone(s),
           UNCHANGED <<noCompute, mailbox, inited, compute, asked, want>>
    PROVE  ShaderInv'
  <1>1. pc \notin {"idle", "surface", "gone"} /\ s \in Slots /\ s # "compute"
        /\ pc' \notin {"idle", "surface", "gone"} /\ pc' \in Slots
    BY DEF TerrainSlots, Slots
  <1>2. inited' /\ inited
    BY Served
  <1>3. ShaderTypeOK'
    BY <1>1, <1>2 DEF ShaderInv, ShaderTypeOK, StageDone, SlotStates, mailbox
  <1>4. NothingYet'
    BY <1>2 DEF NothingYet
  <1>5. TerrainKept'
    BY DEF StageDone, TerrainKept, Pairs, Stands, SomeActive
  <1>6. ComputeKept'
    <2>1. slot'["compute"] = slot["compute"]
      BY <1>1 DEF StageDone, Slots
    <2> QED BY <2>1 DEF ShaderInv, ComputeKept
  <1>7. ActiveHasHash'
    BY DEF ActiveHasHash, StageDone, Hashed
  <1>8. RequestsKept'
    <2>1. applyBox = None /\ revertBox = None /\ applyBox' = None /\ revertBox' = None
      BY <1>1 DEF ShaderInv, RequestsKept, mailbox
    <2>2. None \notin Slots
      BY ShaderAssumption
    <2>3. \A t \in Slots : Coming(t) = Asks(t)
      BY <2>1, <2>2 DEF Coming, Asks
    <2>4. \A t \in Slots \ doubt' : Coming(t)' = want[t]
      <3> TAKE t \in Slots \ doubt'
      <3>1. t \notin doubt /\ Coming(t) = want[t]
        BY <1>1 DEF StageDone, ShaderInv, RequestsKept, Drawing
      <3>2. CASE t = s
        <4>1. slot'[s].request = None /\ Reported(s, slot') = Asks(s)
          BY <3>2 DEF StageDone
        <4>2. Coming(t)' = Reported(s, slot')
          BY <2>1, <2>2, <3>2, <4>1, ShaderAssumption DEF Coming
        <4> QED BY <2>3, <3>1, <3>2, <4>1, <4>2
      <3>3. CASE t # s
        <4>1. slot'[t] = slot[t]
          BY <3>3 DEF StageDone
        <4> QED BY <2>1, <2>2, <3>1, <4>1 DEF Coming, Reported
      <3> QED BY <3>2, <3>3
    <2> QED BY <2>1, <2>4 DEF RequestsKept
  <1>9. RunsAsReported'
    <2>1. noCompute /\ ~stale' => terrain'.now = Draws(slot')
      BY DEF StageDone
    <2>2. ~noCompute => compute'.now = <<Reported("compute", slot')>>
      <3>1. slot'["compute"] = slot["compute"]
        BY <1>1 DEF StageDone, Slots
      <3>2. ~noCompute => compute.now = <<Reported("compute", slot)>>
        BY <1>1, <1>2 DEF ShaderInv, RunsAsReported, Drawing, RunsWhatItReports
      <3>3. Reported("compute", slot') = Reported("compute", slot)
        BY <3>1 DEF Reported
      <3> QED BY <3>2, <3>3
    <2> QED BY <2>1, <2>2, Zenon DEF RunsAsReported, RunsWhatItReports, Draws
  <1>10. \A p \in Programs :
            /\ refs[p] \in Int /\ refs'[p] \in Int
            /\ Owned(p) = Held(terrain, p) + Held(compute, p)
            /\ Owned(p)' = Held(terrain', p) + Held(compute, p)
            /\ Held(terrain, p) \in Int /\ Held(terrain', p) \in Int /\ Held(compute, p) \in Int
    BY Served DEF StageDone, Owned, Held
  <1>11. NoDangling'
    <2> SUFFICES ASSUME NEW p \in Programs, noCompute \/ ~failed'
                 PROVE  Owned(p)' <= refs'[p]
      BY DEF NoDangling
    <2>1. Surplus(refs, terrain, p) <= Surplus(refs', terrain', p)
      BY DEF StageDone
    <2>2. Owned(p) <= refs[p]
      BY DEF StageDone, ShaderInv, NoDangling
    <2> QED BY <1>10, <2>1, <2>2 DEF Surplus
  <1>12. NoLeak'
    <2> SUFFICES ASSUME NEW p \in Programs, p # StockProgram,
                        ~(~noCompute /\ p \in Shaders \X Shaders)
                 PROVE  refs'[p] <= Owned(p)'
      BY DEF NoLeak
    <2>1. Surplus(refs', terrain', p) <= Surplus(refs, terrain, p)
      BY DEF StageDone
    <2>2. refs[p] <= Owned(p)
      BY DEF ShaderInv, NoLeak
    <2> QED BY <1>10, <2>1, <2>2 DEF Surplus
  <1> QED
    BY <1>3, <1>4, <1>5, <1>6, <1>7, <1>8, <1>9, <1>11, <1>12 DEF ShaderInv

LEMMA IdleStageKeeps ==
    ASSUME ShaderInv, NEW s \in TerrainSlots, pc = s, pc' \in {"fragment", "compute"},
           UNCHANGED <<noCompute, mailbox, inited, slot, terrain, compute, refs, ghosts>>
    PROVE  ShaderInv'
  <1>1. /\ pc \notin {"idle", "surface", "gone"}
        /\ pc' \notin {"idle", "surface", "gone"} /\ pc' \in Slots
    BY DEF TerrainSlots, Slots
  <1>2. ShaderTypeOK'
    BY <1>1 DEF ShaderInv, ShaderTypeOK, mailbox, ghosts
  <1>3. NothingYet' /\ TerrainKept' /\ ComputeKept' /\ ActiveHasHash'
    BY <1>1 DEF ShaderInv, NothingYet, TerrainKept, ComputeKept, ActiveHasHash, Drawing
  <1>4. RequestsKept'
    BY <1>1 DEF ShaderInv, RequestsKept, Coming, Reported, Drawing, mailbox, ghosts
  <1>5. RunsAsReported'
    BY <1>1 DEF ShaderInv, RunsAsReported, RunsWhatItReports, Reported, Drawing, ghosts
  <1>6. NoDangling' /\ NoLeak'
    BY DEF ShaderInv, NoDangling, NoLeak, Owned, Held, ghosts
  <1> QED
    BY <1>2, <1>3, <1>4, <1>5, <1>6 DEF ShaderInv

LEMMA TerrainStageKeeps ==
    ASSUME ShaderInv, NEW s \in TerrainSlots, NEW next \in {"fragment", "compute"},
           ApplyTerrainStage(s, next)
    PROVE  ShaderInv'
  <1>1. pc = s /\ pc' = next /\ UNCHANGED <<noCompute, mailbox, inited, compute, asked, want>>
    BY DEF ApplyTerrainStage
  <1>2. CASE RevertStage(s)
    BY <1>1, <1>2, RevertDone, StageKeeps
  <1>3. CASE ApplyStage(s)
    BY <1>1, <1>3, ApplyDone, StageKeeps
  <1>4. CASE UNCHANGED <<slot, terrain, refs, doubt, stale, failed>>
    BY <1>1, <1>4, IdleStageKeeps DEF ghosts
  <1> QED BY <1>2, <1>3, <1>4 DEF ApplyTerrainStage
-----------------------------------------------------------------------------
LEMMA ApplyAskKeeps ==
    ASSUME ShaderInv, NEW s \in Slots, NEW b \in Shaders, RequestLiveShader(s, b)
    PROVE  ShaderInv'
  <1>1. /\ pc = "idle" /\ pc' = pc /\ applyBox' = [slot |-> s, bin |-> b]
        /\ want' = [want EXCEPT ![s] = b] /\ asked' = asked + 1 /\ asked < MaxRequests
        /\ UNCHANGED <<noCompute, revertBox, inited, slot, terrain, compute, refs, stale, failed>>
    BY DEF RequestLiveShader
  <1>2. /\ applyBox' \in Applies /\ applyBox' # None
        /\ applyBox'.slot = s /\ applyBox'.bin = b
    BY <1>1, ShaderAssumption DEF Applies
  <1>3. doubt' \subseteq Slots
    BY DEF RequestLiveShader, ShaderInv, ShaderTypeOK, Applies
  <1>4. ShaderTypeOK'
    BY <1>1, <1>2, <1>3, ShaderAssumption DEF ShaderInv, ShaderTypeOK
  <1>5. NothingYet' /\ TerrainKept' /\ ComputeKept' /\ ActiveHasHash'
    BY <1>1 DEF ShaderInv, NothingYet, TerrainKept, ComputeKept, ActiveHasHash, Drawing
  <1>6. RequestsKept'
    <2> SUFFICES ASSUME NEW t \in Slots \ doubt' PROVE Coming(t)' = want'[t]
      BY <1>1 DEF RequestsKept
    <2>0. want \in [Slots -> Shaders] /\ None \notin Slots
      BY ShaderAssumption DEF ShaderInv, ShaderTypeOK
    <2>1. CASE t = s
      <3>1. revertBox # s
        BY <2>1 DEF RequestLiveShader
      <3> QED BY <1>1, <1>2, <2>0, <2>1, <3>1 DEF Coming
    <2>2. CASE t # s
      <3>1. t \notin doubt /\ (applyBox # None /\ applyBox.slot = t => t = revertBox)
        BY <2>2 DEF RequestLiveShader
      <3>2. Coming(t) = want[t]
        BY <1>1, <3>1 DEF ShaderInv, RequestsKept, Drawing
      <3>3. Coming(t)' = Coming(t)
        BY <1>1, <1>2, <2>2, <3>1 DEF Coming, Reported
      <3> QED BY <1>1, <2>0, <2>2, <3>2, <3>3
    <2> QED BY <2>1, <2>2
  <1>7. RunsAsReported'
    BY <1>1 DEF ShaderInv, RunsAsReported, RunsWhatItReports, Reported, Drawing
  <1>8. NoDangling' /\ NoLeak'
    BY <1>1 DEF ShaderInv, NoDangling, NoLeak, Owned, Held
  <1> QED
    BY <1>4, <1>5, <1>6, <1>7, <1>8 DEF ShaderInv

LEMMA RevertAskKeeps ==
    ASSUME ShaderInv, NEW s \in Slots, RequestRevertLiveShader(s)
    PROVE  ShaderInv'
  <1>1. /\ pc = "idle" /\ pc' = pc /\ revertBox' = s
        /\ want' = [want EXCEPT ![s] = Stock] /\ asked' = asked + 1 /\ asked < MaxRequests
        /\ doubt' = (doubt \cup ({revertBox} \ {None})) \ {s}
        /\ UNCHANGED <<noCompute, applyBox, inited, slot, terrain, compute, refs, stale, failed>>
    BY DEF RequestRevertLiveShader
  <1>2. ShaderTypeOK'
    <2>1. Stock \in Shaders /\ MaxRequests \in Nat
      BY ShaderAssumption DEF Shaders
    <2>2. want' \in [Slots -> Shaders] /\ asked' \in 0 .. MaxRequests
      BY <1>1, <2>1 DEF ShaderInv, ShaderTypeOK
    <2> QED BY <1>1, <2>2 DEF ShaderInv, ShaderTypeOK
  <1>3. NothingYet' /\ TerrainKept' /\ ComputeKept' /\ ActiveHasHash'
    BY <1>1 DEF ShaderInv, NothingYet, TerrainKept, ComputeKept, ActiveHasHash, Drawing
  <1>4. RequestsKept'
    <2> SUFFICES ASSUME NEW t \in Slots \ doubt' PROVE Coming(t)' = want'[t]
      BY <1>1 DEF RequestsKept
    <2>0. want \in [Slots -> Shaders] /\ None \notin Slots
      BY ShaderAssumption DEF ShaderInv, ShaderTypeOK
    <2>1. CASE t = s
      BY <1>1, <2>0, <2>1 DEF Coming
    <2>2. CASE t # s
      <3>1. t \notin doubt /\ t # revertBox
        BY <1>1, <2>0, <2>2
      <3>2. Coming(t) = want[t]
        BY <1>1, <3>1 DEF ShaderInv, RequestsKept, Drawing
      <3>3. Coming(t)' = Coming(t)
        BY <1>1, <2>2, <3>1 DEF Coming, Reported
      <3> QED BY <1>1, <2>0, <2>2, <3>2, <3>3
    <2> QED BY <2>1, <2>2
  <1>5. RunsAsReported'
    BY <1>1 DEF ShaderInv, RunsAsReported, RunsWhatItReports, Reported, Drawing
  <1>6. NoDangling' /\ NoLeak'
    BY <1>1 DEF ShaderInv, NoDangling, NoLeak, Owned, Held
  <1> QED
    BY <1>2, <1>3, <1>4, <1>5, <1>6 DEF ShaderInv

LEMMA SynchronizeKeeps ==
    ASSUME ShaderInv, Synchronize
    PROVE  ShaderInv'
  <1>1. /\ pc = "idle" /\ pc' = "surface" /\ slot' = SyncSlots
        /\ applyBox' = None /\ revertBox' = None
        /\ UNCHANGED <<noCompute, inited, terrain, compute, refs, ghosts>>
    BY DEF Synchronize
  <1>2. applyBox # None => applyBox.slot \in Slots /\ applyBox.bin \in Shaders
    BY DEF ShaderInv, ShaderTypeOK, Applies
  <1>3. /\ slot' \in SlotStates
        /\ \A s \in Slots :
              /\ slot'[s].active = slot[s].active /\ slot'[s].hash = slot[s].hash
              /\ slot'[s].request = IF revertBox = s THEN Revert
                                    ELSE IF applyBox # None /\ applyBox.slot = s THEN applyBox.bin
                                    ELSE slot[s].request
    BY <1>1, <1>2 DEF SyncSlots, SlotStates, ShaderInv, ShaderTypeOK
  <1>4. ShaderTypeOK'
    BY <1>1, <1>3 DEF ShaderInv, ShaderTypeOK, SlotStates, ghosts
  <1>5. NothingYet' /\ TerrainKept' /\ ComputeKept' /\ ActiveHasHash'
    BY <1>1, <1>3 DEF ShaderInv, NothingYet, TerrainKept, ComputeKept, ActiveHasHash, Drawing,
                      Slots, TerrainSlots
  <1>6. \A s \in Slots : Reported(s, slot') = Reported(s, slot)
    BY <1>3 DEF Reported
  <1>7. RequestsKept'
    <2>1. \A s \in Slots : Coming(s)' = Coming(s)
      <3> TAKE s \in Slots
      <3>1. None \notin Slots /\ Revert # None /\ Revert \notin Shaders /\ None \notin Shaders
        BY ShaderAssumption
      <3>2. Coming(s)' = IF slot'[s].request = Revert THEN Stock
                         ELSE IF slot'[s].request # None THEN slot'[s].request
                         ELSE Reported(s, slot')
        BY <1>1, <3>1 DEF Coming
      <3> QED BY <1>2, <1>3, <1>6, <3>1, <3>2 DEF Coming
    <2> QED BY <1>1, <2>1 DEF ShaderInv, RequestsKept, Drawing, ghosts
  <1>8. RunsAsReported'
    BY <1>1, <1>6 DEF ShaderInv, RunsAsReported, RunsWhatItReports, Drawing, ghosts, Slots, TerrainSlots
  <1>9. NoDangling' /\ NoLeak'
    BY <1>1 DEF ShaderInv, NoDangling, NoLeak, Owned, Held, ghosts
  <1> QED
    BY <1>4, <1>5, <1>7, <1>8, <1>9 DEF ShaderInv

LEMMA SurfaceKeeps ==
    ASSUME ShaderInv, NEW ok \in BOOLEAN, EnsureSurface(ok)
    PROVE  ShaderInv'
  <1>1. /\ pc = "surface" /\ pc' \in {"vertex", "idle"} /\ (pc' = "vertex" => ok)
        /\ UNCHANGED <<noCompute, mailbox, slot, ghosts>>
    BY DEF EnsureSurface
  <1>2. applyBox = None /\ revertBox = None /\ pc' \in Slots \cup {"idle"} /\ pc' # "gone"
    BY <1>1 DEF ShaderInv, RequestsKept, Slots, TerrainSlots
  <1>3. RequestsKept'
    BY <1>1, <1>2 DEF ShaderInv, RequestsKept, Drawing, Coming, Reported, mailbox, ghosts
  <1>4. ActiveHasHash'
    BY <1>1 DEF ShaderInv, ActiveHasHash
  <1>5. CASE ok /\ ~inited
    <2>1. /\ inited' = TRUE
          /\ terrain' = [terrain EXCEPT !.now = IF noCompute THEN StockProgram ELSE None]
          /\ compute' = [compute EXCEPT !.now = IF noCompute THEN None ELSE StockCompute]
          /\ refs' = [refs EXCEPT ![StockProgram] = IF noCompute THEN 1 ELSE 0,
                                  ![StockCompute] = IF noCompute THEN 0 ELSE 1]
      BY <1>5 DEF EnsureSurface
    <2>2. /\ terrain = [now |-> None, original |-> None]
          /\ compute = [now |-> None, original |-> None]
          /\ \A p \in Programs : refs[p] = 0
          /\ \A s \in Slots : ~slot[s].active
      BY <1>5 DEF ShaderInv, ShaderTypeOK, Handles, NothingYet
    <2>3. /\ terrain' = [now |-> IF noCompute THEN StockProgram ELSE None, original |-> None]
          /\ compute' = [now |-> IF noCompute THEN None ELSE StockCompute, original |-> None]
      BY <2>1, <2>2
    <2>4. \A p \in Programs :
             refs'[p] = IF p = (IF noCompute THEN StockProgram ELSE StockCompute) THEN 1 ELSE 0
      BY <2>1, <2>2, NamesDiffer DEF ShaderInv, ShaderTypeOK
    <2>5. StockProgram \in Programs /\ StockCompute \in Programs /\ None \notin Programs
          /\ StockProgram \in Shaders \X Shaders
      BY NamesDiffer DEF StockProgram, Shaders
    <2>6. refs' \in [Programs -> Int]
      BY <2>1, <2>5 DEF ShaderInv, ShaderTypeOK
    <2>7. terrain' \in Handles /\ compute' \in Handles
      BY <2>3, <2>5 DEF Handles
    <2>8. ShaderTypeOK'
      BY <1>1, <1>2, <2>1, <2>6, <2>7 DEF ShaderInv, ShaderTypeOK, mailbox, ghosts
    <2>9. NothingYet'
      BY <2>1 DEF NothingYet
    <2>10. TerrainKept'
      BY <1>1, <2>2, <2>3, <2>5 DEF TerrainKept, Slots
    <2>11. ComputeKept'
      BY <1>1, <2>2, <2>3 DEF ComputeKept, Slots
    <2>12. RunsAsReported'
      <3>1. \A s \in Slots : Reported(s, slot') = Stock
        BY <1>1, <2>2 DEF Reported
      <3>2. noCompute => terrain'.now = StockProgram
        BY <2>3
      <3>3. ~noCompute => compute'.now = StockCompute
        BY <2>3
      <3> QED BY <1>1, <3>1, <3>2, <3>3 DEF RunsAsReported, RunsWhatItReports, Slots, TerrainSlots,
                    StockProgram, StockCompute, ghosts
    <2>13. \A p \in Programs : Owned(p)' = refs'[p]
      BY <2>3, <2>4, <2>5 DEF Owned, Held
    <2>14. NoDangling' /\ NoLeak'
      BY <2>6, <2>13 DEF NoDangling, NoLeak
    <2> QED BY <1>3, <1>4, <2>8, <2>9, <2>10, <2>11, <2>12, <2>14 DEF ShaderInv
  <1>6. CASE ~(ok /\ ~inited)
    <2>1. UNCHANGED <<inited, terrain, compute, refs>>
      BY <1>6 DEF EnsureSurface
    <2>2. ShaderTypeOK'
      BY <1>1, <1>2, <2>1 DEF ShaderInv, ShaderTypeOK, mailbox, ghosts
    <2>3. NothingYet'
      BY <1>1, <1>6, <2>1 DEF ShaderInv, NothingYet
    <2>4. TerrainKept' /\ ComputeKept'
      BY <1>1, <1>2, <2>1 DEF ShaderInv, TerrainKept, ComputeKept, Drawing
    <2>5. RunsAsReported'
      BY <1>1, <2>1 DEF ShaderInv, RunsAsReported, RunsWhatItReports, Reported, Drawing, ghosts
    <2>6. NoDangling' /\ NoLeak'
      BY <1>1, <2>1 DEF ShaderInv, NoDangling, NoLeak, Owned, Held, ghosts
    <2> QED BY <1>3, <1>4, <2>2, <2>3, <2>4, <2>5, <2>6 DEF ShaderInv
  <1> QED BY <1>5, <1>6

(* What the compute stage has done when slot and handles have changed      *)
(* together.                                                               *)
ComputeDone ==
    /\ compute' \in Handles /\ refs' \in [Programs -> Int]
    /\ slot' \in SlotStates /\ Hashed(slot') /\ slot'["compute"].request = None
    /\ \A s \in TerrainSlots : slot'[s] = slot[s]
    /\ noCompute => ~slot'["compute"].active
    /\ ~slot'["compute"].active => compute'.original = None
    /\ slot'["compute"].active => compute'.original = StockCompute
    /\ ~noCompute => compute'.now = <<Reported("compute", slot')>>
    /\ \A p \in Programs : Surplus(refs', compute', p) = Surplus(refs, compute, p)
    /\ {failed'} \subseteq BOOLEAN /\ (failed => failed')
    /\ doubt \subseteq doubt' /\ doubt' \subseteq Slots
    /\ "compute" \notin doubt' => Reported("compute", slot') = Asks("compute")

LEMMA ComputeServed ==
    ASSUME ShaderInv, pc = "compute"
    PROVE  /\ inited /\ compute \in Handles /\ refs \in [Programs -> Int]
           /\ slot \in SlotStates /\ Hashed(slot) /\ failed \in BOOLEAN /\ doubt \subseteq Slots
           /\ noCompute => ~slot["compute"].active
           /\ ~slot["compute"].active => compute.original = None
           /\ slot["compute"].active => compute.original = StockCompute
           /\ ~noCompute => compute.now = <<Reported("compute", slot)>>
           /\ "compute" \in Slots /\ \A s \in TerrainSlots : s \in Slots /\ s # "compute"
  <1>1. inited
    BY DEF ShaderInv, ShaderTypeOK, NothingYet
  <1>2. /\ compute \in Handles /\ refs \in [Programs -> Int] /\ slot \in SlotStates
        /\ Hashed(slot) /\ failed \in BOOLEAN /\ doubt \subseteq Slots
    BY DEF ShaderInv, ShaderTypeOK, SlotStates, ActiveHasHash, Hashed
  <1>3. ~noCompute => compute.now = <<Reported("compute", slot)>>
    BY <1>1 DEF ShaderInv, RunsAsReported, Drawing, RunsWhatItReports
  <1>4. "compute" \in Slots /\ \A s \in TerrainSlots : s \in Slots /\ s # "compute"
    BY DEF Slots, TerrainSlots
  <1> QED BY <1>1, <1>2, <1>3, <1>4 DEF ShaderInv, ComputeKept

LEMMA ProgramOf ==
    ASSUME NEW c \in Shaders
    PROVE  <<c>> \in Programs
  BY DEF Programs

LEMMA RevertComputeDone ==
    ASSUME ShaderInv, pc = "compute", RevertCompute
    PROVE  ComputeDone
  <1>1. slot["compute"].request = Revert /\ UNCHANGED <<doubt, failed>>
    BY DEF RevertCompute
  <1>2. Asks("compute") = Stock
    BY <1>1 DEF Asks
  <1>3. CASE slot["compute"].active
    <2>1. /\ slot' = [slot EXCEPT !["compute"] = NoSlot]
          /\ compute' = [now |-> compute.original, original |-> None]
          /\ refs' = Destroyed(refs, compute.now)
      BY <1>3 DEF RevertCompute
    <2>2. /\ slot' \in SlotStates /\ slot'["compute"] = NoSlot
          /\ \A s \in TerrainSlots : slot'[s] = slot[s]
      BY <2>1, ComputeServed DEF SlotStates, NoSlot
    <2>3. Hashed(slot')
      BY <2>2, ComputeServed DEF Hashed, NoSlot, Slots
    <2>4. Reported("compute", slot') = Stock
      BY <2>2 DEF Reported, NoSlot
    <2>5. compute.original = StockCompute /\ StockCompute \in Programs
      BY <1>3, ComputeServed, NamesDiffer
    <2>6. compute.now \in Programs \cup {None}
      BY ComputeServed DEF Handles
    <2>7. /\ refs' \in [Programs -> Int]
          /\ \A p \in Programs : refs'[p] = refs[p] - (IF compute.now = p THEN 1 ELSE 0)
      BY <2>1, <2>6, ComputeServed, DestroyedIs
    <2>8. \A p \in Programs : Surplus(refs', compute', p) = Surplus(refs, compute, p)
      <3> TAKE p \in Programs
      <3>1. refs[p] \in Int /\ p # None /\ refs'[p] = refs[p] - (IF compute.now = p THEN 1 ELSE 0)
        BY <2>7, ComputeServed, NamesDiffer
      <3> QED BY <2>1, <3>1 DEF Surplus, Held
    <2>9. compute' \in Handles /\ compute'.now = StockCompute /\ compute'.original = None
      BY <2>1, <2>5 DEF Handles
    <2> QED
      BY <1>1, <1>2, <2>2, <2>3, <2>4, <2>7, <2>8, <2>9, ComputeServed
         DEF ComputeDone, NoSlot, StockCompute
  <1>4. CASE ~slot["compute"].active
    <2>1. slot' = [slot EXCEPT !["compute"].request = None] /\ UNCHANGED <<compute, refs>>
      BY <1>4 DEF RevertCompute
    <2>2. /\ slot' \in SlotStates /\ slot'["compute"].request = None
          /\ slot'["compute"].active = slot["compute"].active
          /\ slot'["compute"].hash = slot["compute"].hash
          /\ \A s \in TerrainSlots : slot'[s] = slot[s]
      BY <2>1, ComputeServed DEF SlotStates
    <2>3. Hashed(slot')
      BY <2>2, ComputeServed DEF Hashed, Slots
    <2>4. Reported("compute", slot') = Stock /\ Reported("compute", slot) = Stock
      BY <1>4, <2>2 DEF Reported
    <2>5. \A p \in Programs : Surplus(refs', compute', p) = Surplus(refs, compute, p)
      BY <2>1 DEF Surplus
    <2> QED
      BY <1>1, <1>2, <1>4, <2>1, <2>2, <2>3, <2>4, <2>5, ComputeServed DEF ComputeDone
  <1> QED BY <1>3, <1>4

LEMMA ApplyComputeDone ==
    ASSUME ShaderInv, pc = "compute", NEW ok \in BOOLEAN, ApplyCompute(ok)
    PROVE  ComputeDone
  <1> DEFINE bin == slot["compute"].request
  <1>1. bin \in Shaders /\ bin # Revert /\ bin # None /\ (ok => ~noCompute)
    BY ShaderAssumption DEF ApplyCompute
  <1>2. Asks("compute") = bin
    BY <1>1 DEF Asks
  <1>3. CASE ok
    <2>1. /\ slot' = [slot EXCEPT !["compute"] =
                        [active |-> TRUE, hash |-> bin, request |-> None]]
          /\ UNCHANGED <<doubt, failed>>
      BY <1>3 DEF ApplyCompute
    <2>2. /\ slot' \in SlotStates
          /\ slot'["compute"] = [active |-> TRUE, hash |-> bin, request |-> None]
          /\ \A s \in TerrainSlots : slot'[s] = slot[s]
      BY <1>1, <2>1, ComputeServed DEF SlotStates
    <2>3. Hashed(slot')
      BY <1>1, <2>2, ComputeServed DEF Hashed, Slots
    <2>4. Reported("compute", slot') = bin
      BY <2>2 DEF Reported
    <2>5. /\ <<bin>> \in Programs /\ compute.now \in Programs \cup {None}
          /\ compute.original \in Programs \cup {None}
      BY <1>1, ProgramOf, ComputeServed DEF Handles
    <2>6. ~slot["compute"].active => compute.now = StockCompute
      BY <1>1, <1>3, ComputeServed DEF Reported, StockCompute
    <2>7. \A p \in Programs : p # None /\ refs[p] \in Int
      BY NamesDiffer, ComputeServed
    <2> DEFINE q == <<bin>>
    <2>8. /\ compute' \in Handles /\ compute'.now = q /\ compute'.original = StockCompute
          /\ refs' \in [Programs -> Int]
          /\ \A p \in Programs : Surplus(refs', compute', p) = Surplus(refs, compute, p)
      <3>1. CASE slot["compute"].active
        <4>1. compute' = [compute EXCEPT !.now = q] /\ refs' = Created(Destroyed(refs, compute.now), q)
          BY <1>3, <3>1 DEF ApplyCompute
        <4> DEFINE d == Destroyed(refs, compute.now)
        <4>2. /\ d \in [Programs -> Int]
              /\ \A p \in Programs : d[p] = refs[p] - (IF compute.now = p THEN 1 ELSE 0)
          BY <2>5, ComputeServed, DestroyedIs
        <4> HIDE DEF q, d
        <4>3. /\ refs' \in [Programs -> Int]
              /\ \A p \in Programs : refs'[p] = d[p] + (IF q = p THEN 1 ELSE 0)
          BY <2>5, <4>1, <4>2, CreatedIs DEF q, d
        <4>4. compute' = [now |-> q, original |-> StockCompute] /\ compute.original = StockCompute
          BY <3>1, <4>1, ComputeServed DEF Handles
        <4>5. \A p \in Programs : Surplus(refs', compute', p) = Surplus(refs, compute, p)
          <5> TAKE p \in Programs
          <5>1. refs'[p] = (refs[p] - (IF compute.now = p THEN 1 ELSE 0)) + (IF q = p THEN 1 ELSE 0)
            BY <4>2, <4>3
          <5>2. refs[p] \in Int /\ compute'.now = q /\ compute'.original = compute.original
            BY <2>7, <4>4
          <5> QED BY <5>1, <5>2 DEF Surplus, Held
        <4>6. q \in Programs /\ StockCompute \in Programs
          BY <2>5, NamesDiffer DEF q
        <4> QED BY <4>3, <4>4, <4>5, <4>6 DEF Handles
      <3>2. CASE ~slot["compute"].active
        <4>1. compute' = [now |-> q, original |-> compute.now] /\ refs' = Created(refs, q)
          BY <1>3, <3>2 DEF ApplyCompute
        <4> HIDE DEF q
        <4>2. /\ refs' \in [Programs -> Int]
              /\ \A p \in Programs : refs'[p] = refs[p] + (IF q = p THEN 1 ELSE 0)
          BY <2>5, <4>1, ComputeServed, CreatedIs DEF q
        <4>3. compute.now = StockCompute /\ compute.original = None
          BY <2>6, <3>2, ComputeServed
        <4>4. \A p \in Programs : Surplus(refs', compute', p) = Surplus(refs, compute, p)
          <5> TAKE p \in Programs
          <5>1. refs'[p] = refs[p] + (IF q = p THEN 1 ELSE 0) /\ refs[p] \in Int /\ p # None
            BY <2>7, <4>2
          <5>2. compute'.now = q /\ compute'.original = compute.now /\ compute.original = None
            BY <4>1, <4>3
          <5> QED BY <5>1, <5>2 DEF Surplus, Held
        <4>5. q \in Programs /\ StockCompute \in Programs
          BY <2>5, NamesDiffer DEF q
        <4> QED BY <4>1, <4>2, <4>3, <4>4, <4>5 DEF Handles
      <3> QED BY <3>1, <3>2
    <2> QED
      BY <1>1, <1>2, <1>3, <2>1, <2>2, <2>3, <2>4, <2>8, ComputeServed DEF ComputeDone
  <1>4. CASE ~ok
    <2>1. /\ slot' = [slot EXCEPT !["compute"].request = None] /\ UNCHANGED <<compute, refs>>
          /\ doubt' = doubt \cup {"compute"} /\ failed' = TRUE
      BY <1>4 DEF ApplyCompute
    <2>2. /\ slot' \in SlotStates /\ slot'["compute"].request = None
          /\ slot'["compute"].active = slot["compute"].active
          /\ slot'["compute"].hash = slot["compute"].hash
          /\ \A s \in TerrainSlots : slot'[s] = slot[s]
      BY <2>1, ComputeServed DEF SlotStates
    <2>3. Hashed(slot')
      BY <2>2, ComputeServed DEF Hashed, Slots
    <2>4. Reported("compute", slot') = Reported("compute", slot)
      BY <2>2 DEF Reported
    <2>5. \A p \in Programs : Surplus(refs', compute', p) = Surplus(refs, compute, p)
      BY <2>1 DEF Surplus
    <2> QED
      BY <2>1, <2>2, <2>3, <2>4, <2>5, ComputeServed DEF ComputeDone
  <1> QED BY <1>3, <1>4

LEMMA ComputeDoneKeeps ==
    ASSUME ShaderInv, pc = "compute", pc' = "idle", ComputeDone,
           UNCHANGED <<noCompute, mailbox, inited, terrain, asked, want, stale>>
    PROVE  ShaderInv'
  <1>1. ShaderTypeOK'
    BY DEF ShaderInv, ShaderTypeOK, ComputeDone, SlotStates, mailbox
  <1>2. NothingYet' /\ ActiveHasHash'
    BY ComputeServed DEF NothingYet, ActiveHasHash, ComputeDone, Hashed
  <1>3. TerrainKept'
    BY DEF ShaderInv, TerrainKept, Drawing, ComputeDone
  <1>4. ComputeKept'
    BY DEF ComputeKept, ComputeDone
  <1>5. applyBox = None /\ revertBox = None /\ applyBox' = None /\ revertBox' = None
    BY DEF ShaderInv, RequestsKept, mailbox
  <1>6. RequestsKept'
    <2>1. None \notin Slots
      BY ShaderAssumption
    <2> SUFFICES ASSUME NEW t \in Slots \ doubt' PROVE Coming(t)' = want[t]
      BY <1>5 DEF RequestsKept
    <2>2. t \notin doubt /\ Coming(t) = want[t]
      BY DEF ComputeDone, ShaderInv, RequestsKept, Drawing
    <2>3. CASE t = "compute"
      <3>1. Coming(t) = Asks(t)
        BY <1>5, <2>1 DEF Coming, Asks
      <3>2. Coming(t)' = Reported(t, slot')
        BY <1>5, <2>1, <2>3, ShaderAssumption DEF ComputeDone, Coming
      <3> QED BY <2>2, <2>3, <3>1, <3>2 DEF ComputeDone
    <2>4. CASE t # "compute"
      <3>1. slot'[t] = slot[t]
        BY <2>4 DEF ComputeDone, Slots
      <3> QED BY <1>5, <2>1, <2>2, <3>1 DEF Coming, Reported
    <2> QED BY <2>3, <2>4
  <1>7. RunsAsReported'
    <2>1. \A s \in TerrainSlots : Reported(s, slot') = Reported(s, slot)
      BY DEF ComputeDone, Reported
    <2>2. noCompute /\ ~stale =>
            terrain.now = <<Reported("vertex", slot), Reported("fragment", slot)>>
      BY ComputeServed DEF ShaderInv, RunsAsReported, Drawing, RunsWhatItReports
    <2>3. ~noCompute => compute'.now = <<Reported("compute", slot')>>
      BY DEF ComputeDone
    <2> QED BY <2>1, <2>2, <2>3 DEF RunsAsReported, RunsWhatItReports, TerrainSlots
  <1>8. \A p \in Programs :
            /\ refs[p] \in Int /\ refs'[p] \in Int
            /\ Owned(p) = Held(terrain, p) + Held(compute, p)
            /\ Owned(p)' = Held(terrain, p) + Held(compute', p)
            /\ Held(terrain, p) \in Int /\ Held(compute', p) \in Int /\ Held(compute, p) \in Int
    BY ComputeServed DEF ComputeDone, Owned, Held
  <1>9. \A p \in Programs : refs'[p] - Owned(p)' = refs[p] - Owned(p)
    <2> TAKE p \in Programs
    <2>1. Surplus(refs', compute', p) = Surplus(refs, compute, p)
      BY DEF ComputeDone
    <2> QED BY <1>8, <2>1 DEF Surplus
  <1>10. \A p \in Programs : Owned(p) \in Int /\ Owned(p)' \in Int
    BY <1>8
  <1>11. NoDangling'
    <2> SUFFICES ASSUME NEW p \in Programs, ~(failed' /\ ~noCompute)
                 PROVE  Owned(p)' <= refs'[p]
      BY DEF NoDangling
    <2>1. Owned(p) <= refs[p]
      BY DEF ComputeDone, ShaderInv, NoDangling
    <2>2. refs'[p] - Owned(p)' = refs[p] - Owned(p)
      BY <1>9
    <2>3. Owned(p) \in Int /\ Owned(p)' \in Int /\ refs[p] \in Int /\ refs'[p] \in Int
      BY <1>8, <1>10
    <2> QED BY <2>1, <2>2, <2>3
  <1>12. NoLeak'
    <2> SUFFICES ASSUME NEW p \in Programs, p # StockProgram,
                        ~(~noCompute /\ p \in Shaders \X Shaders)
                 PROVE  refs'[p] <= Owned(p)'
      BY DEF NoLeak
    <2>1. refs[p] <= Owned(p)
      BY DEF ShaderInv, NoLeak
    <2>2. refs'[p] - Owned(p)' = refs[p] - Owned(p)
      BY <1>9
    <2>3. Owned(p) \in Int /\ Owned(p)' \in Int /\ refs[p] \in Int /\ refs'[p] \in Int
      BY <1>8, <1>10
    <2> QED BY <2>1, <2>2, <2>3
  <1> QED
    BY <1>1, <1>2, <1>3, <1>4, <1>6, <1>7, <1>11, <1>12 DEF ShaderInv

LEMMA ComputeStageKeeps ==
    ASSUME ShaderInv, ApplyComputeStage
    PROVE  ShaderInv'
  <1>1. /\ pc = "compute" /\ pc' = "idle"
        /\ UNCHANGED <<noCompute, mailbox, inited, terrain, asked, want, stale>>
    BY DEF ApplyComputeStage
  <1>2. CASE RevertCompute
    BY <1>1, <1>2, RevertComputeDone, ComputeDoneKeeps
  <1>3. ASSUME NEW ok \in BOOLEAN, ApplyCompute(ok) PROVE ShaderInv'
    BY <1>1, <1>3, ApplyComputeDone, ComputeDoneKeeps
  <1>4. CASE slot["compute"].request = None /\ UNCHANGED <<slot, compute, refs, doubt, failed>>
    <2>1. Asks("compute") = Reported("compute", slot)
      BY <1>4, ShaderAssumption DEF Asks
    <2>2. \A p \in Programs : Surplus(refs', compute', p) = Surplus(refs, compute, p)
      BY <1>4 DEF Surplus
    <2>3. ComputeDone
      BY <1>1, <1>4, <2>1, <2>2, ComputeServed DEF ComputeDone
    <2> QED BY <1>1, <2>3, ComputeDoneKeeps
  <1> QED BY <1>2, <1>3, <1>4 DEF ApplyComputeStage

LEMMA ShutdownKeeps ==
    ASSUME ShaderInv, Shutdown
    PROVE  ShaderInv'
  <1> DEFINE r1 == Destroyed(refs, terrain.now)
             r2 == Destroyed(r1, terrain.original)
             r3 == Destroyed(r2, compute.now)
             r4 == Destroyed(r3, compute.original)
  <1>1. /\ pc = "idle" /\ pc' = "gone" /\ refs' = r4
        /\ terrain' = [now |-> None, original |-> None]
        /\ compute' = [now |-> None, original |-> None]
        /\ slot' = [s \in Slots |-> NoSlot]
        /\ UNCHANGED <<noCompute, mailbox, inited, ghosts>>
    BY DEF Shutdown
  <1>2. /\ {terrain.now, terrain.original, compute.now, compute.original}
              \subseteq Programs \cup {None}
        /\ refs \in [Programs -> Int]
    BY DEF ShaderInv, ShaderTypeOK, Handles
  <1>3. /\ r1 \in [Programs -> Int]
        /\ \A p \in Programs : r1[p] = refs[p] - (IF terrain.now = p THEN 1 ELSE 0)
    BY <1>2, DestroyedIs
  <1> HIDE DEF r1
  <1>4. /\ r2 \in [Programs -> Int]
        /\ \A p \in Programs : r2[p] = r1[p] - (IF terrain.original = p THEN 1 ELSE 0)
    BY <1>2, <1>3, DestroyedIs
  <1> HIDE DEF r2
  <1>5. /\ r3 \in [Programs -> Int]
        /\ \A p \in Programs : r3[p] = r2[p] - (IF compute.now = p THEN 1 ELSE 0)
    BY <1>2, <1>4, DestroyedIs
  <1> HIDE DEF r3
  <1>6. /\ r4 \in [Programs -> Int]
        /\ \A p \in Programs : r4[p] = r3[p] - (IF compute.original = p THEN 1 ELSE 0)
    BY <1>2, <1>5, DestroyedIs
  <1> HIDE DEF r4
  <1>7. \A p \in Programs : /\ Owned(p)' = 0 /\ Owned(p) \in Int /\ refs[p] \in Int
                            /\ refs'[p] = refs[p] - Owned(p)
    <2> TAKE p \in Programs
    <2>1. p # None /\ refs[p] \in Int
      BY <1>2, NamesDiffer
    <2>2. refs'[p] = refs[p] - (IF terrain.now = p THEN 1 ELSE 0)
                       - (IF terrain.original = p THEN 1 ELSE 0)
                       - (IF compute.now = p THEN 1 ELSE 0)
                       - (IF compute.original = p THEN 1 ELSE 0)
      BY <1>1, <1>3, <1>4, <1>5, <1>6
    <2>3. Owned(p)' = 0
      BY <1>1, <2>1 DEF Owned, Held
    <2> QED BY <2>1, <2>2, <2>3 DEF Owned, Held
  <1>8. NoDangling'
    <2> SUFFICES ASSUME NEW p \in Programs, ~(failed /\ ~noCompute)
                 PROVE  Owned(p)' <= refs'[p]
      BY <1>1 DEF NoDangling, ghosts
    <2>1. Owned(p) <= refs[p]
      BY DEF ShaderInv, NoDangling
    <2> QED BY <1>7, <2>1
  <1>9. NoLeak'
    <2> SUFFICES ASSUME NEW p \in Programs, p # StockProgram,
                        ~(~noCompute /\ p \in Shaders \X Shaders)
                 PROVE  refs'[p] <= Owned(p)'
      BY <1>1 DEF NoLeak
    <2>1. refs[p] <= Owned(p)
      BY DEF ShaderInv, NoLeak
    <2> QED BY <1>7, <2>1
  <1>10. ShaderTypeOK'
    BY <1>1, <1>6 DEF ShaderInv, ShaderTypeOK, Handles, NoSlot, mailbox, ghosts
  <1>11. NothingYet'
    <2>1. ~inited => \A p \in Programs : Owned(p) = 0 /\ refs[p] = 0
      BY NamesDiffer DEF ShaderInv, NothingYet, Owned, Held
    <2>2. ~inited => \A p \in Programs : refs'[p] = 0
      BY <1>7, <2>1
    <2> QED BY <1>1, <2>2 DEF NothingYet, NoSlot
  <1>12. TerrainKept' /\ RequestsKept' /\ RunsAsReported'
    BY <1>1 DEF TerrainKept, RequestsKept, RunsAsReported, Drawing
  <1>13. ComputeKept' /\ ActiveHasHash'
    BY <1>1 DEF ComputeKept, ActiveHasHash, NoSlot, Slots
  <1> QED
    BY <1>8, <1>9, <1>10, <1>11, <1>12, <1>13 DEF ShaderInv
-----------------------------------------------------------------------------
LEMMA ShadersStart == ShaderInit => ShaderInv
  <1> SUFFICES ASSUME ShaderInit PROVE ShaderInv
    OBVIOUS
  <1>1. Stock \in Shaders /\ MaxRequests \in Nat /\ None \notin Slots /\ None \notin Programs
    BY ShaderAssumption DEF Shaders
  <1>2. ShaderTypeOK
    <2>1. slot \in SlotStates
      BY DEF ShaderInit, SlotStates, NoSlot
    <2>2. terrain \in Handles /\ compute \in Handles /\ refs \in [Programs -> Int]
      BY DEF ShaderInit, Handles
    <2>3. want \in [Slots -> Shaders] /\ asked \in 0 .. MaxRequests
      BY <1>1 DEF ShaderInit
    <2> QED BY <2>1, <2>2, <2>3 DEF ShaderInit, ShaderTypeOK, SlotStates
  <1>3. NothingYet /\ TerrainKept /\ ComputeKept /\ ActiveHasHash
    BY DEF ShaderInit, NothingYet, TerrainKept, ComputeKept, ActiveHasHash, NoSlot, Slots
  <1>4. RequestsKept
    BY <1>1, ShaderAssumption DEF ShaderInit, RequestsKept, Coming, Reported, NoSlot
  <1>5. RunsAsReported
    BY DEF ShaderInit, RunsAsReported
  <1>6. NoDangling /\ NoLeak
    BY <1>1 DEF ShaderInit, NoDangling, NoLeak, Owned, Held
  <1> QED
    BY <1>2, <1>3, <1>4, <1>5, <1>6 DEF ShaderInv

LEMMA ShadersStay == ShaderInv /\ UNCHANGED shaders => ShaderInv'
  <1> SUFFICES ASSUME ShaderInv, UNCHANGED shaders PROVE ShaderInv'
    OBVIOUS
  <1>1. ShaderTypeOK' /\ NothingYet'
    BY DEF ShaderInv, ShaderTypeOK, NothingYet, shaders, mailbox, ghosts
  <1>2. TerrainKept' /\ ComputeKept' /\ ActiveHasHash'
    BY DEF ShaderInv, TerrainKept, ComputeKept, ActiveHasHash, Drawing, shaders, mailbox, ghosts
  <1>3. RequestsKept'
    BY DEF ShaderInv, RequestsKept, Coming, Reported, Drawing, shaders, mailbox, ghosts
  <1>4. RunsAsReported'
    BY DEF ShaderInv, RunsAsReported, RunsWhatItReports, Reported, Drawing, shaders, ghosts
  <1>5. NoDangling' /\ NoLeak'
    BY DEF ShaderInv, NoDangling, NoLeak, Owned, Held, shaders, ghosts
  <1> QED BY <1>1, <1>2, <1>3, <1>4, <1>5 DEF ShaderInv

LEMMA ShadersStep == ShaderInv /\ [ShaderNext]_shaders => ShaderInv'
  <1> SUFFICES ASSUME ShaderInv, [ShaderNext]_shaders PROVE ShaderInv'
    OBVIOUS
  <1>1. ASSUME NEW s \in Slots, NEW b \in Shaders, RequestLiveShader(s, b) PROVE ShaderInv'
    BY <1>1, ApplyAskKeeps
  <1>2. ASSUME NEW s \in Slots, RequestRevertLiveShader(s) PROVE ShaderInv'
    BY <1>2, RevertAskKeeps
  <1>3. CASE Synchronize
    BY <1>3, SynchronizeKeeps
  <1>4. ASSUME NEW ok \in BOOLEAN, EnsureSurface(ok) PROVE ShaderInv'
    BY <1>4, SurfaceKeeps
  <1>5. CASE ApplyTerrainStage("vertex", "fragment")
    BY <1>5, TerrainStageKeeps DEF TerrainSlots
  <1>6. CASE ApplyTerrainStage("fragment", "compute")
    BY <1>6, TerrainStageKeeps DEF TerrainSlots
  <1>7. CASE ApplyComputeStage
    BY <1>7, ComputeStageKeeps
  <1>8. CASE Shutdown
    BY <1>8, ShutdownKeeps
  <1>9. CASE UNCHANGED shaders
    BY <1>9, ShadersStay
  <1> QED
    BY <1>1, <1>2, <1>3, <1>4, <1>5, <1>6, <1>7, <1>8, <1>9 DEF ShaderNext

LEMMA ShadersHold == ShaderSpec => []ShaderInv
  BY ShadersStart, ShadersStep, PTL DEF ShaderSpec

(* Whatever applies, reverts and failed builds follow each other, in any   *)
(* order over the frames (TerrainRenderer::applyPendingLiveShader), no     *)
(* program is destroyed that a handle names, or twice, and none is lost.   *)
THEOREM ProgramsAreCounted == ShaderSpec => []RefsMatch
  <1>1. ShaderInv => RefsMatch
    BY DEF ShaderInv, RefsMatch
  <1> QED BY <1>1, ShadersHold, PTL

(* Between frames the slots run what they report, and report what was last *)
(* asked of them (RenderViewportItem::requestLiveShader and                *)
(* requestRevertLiveShader), for any shaders and any number of requests.   *)
THEOREM SlotsDoAsAsked == ShaderSpec => []SlotsObey
  <1>1. ShaderInv => SlotsObey
    <2> SUFFICES ASSUME ShaderInv, pc = "idle"
                 PROVE  /\ inited => RunsWhatItReports
                        /\ applyBox = None /\ revertBox = None => LastRequestDecides
      BY DEF SlotsObey
    <2>1. inited => RunsWhatItReports
      BY DEF ShaderInv, RunsAsReported, Drawing
    <2>2. ASSUME applyBox = None, revertBox = None, NEW s \in Slots \ doubt,
                 slot[s].request = None
          PROVE  Reported(s, slot) = want[s]
      <3>1. Coming(s) = want[s]
        BY DEF ShaderInv, RequestsKept, Drawing
      <3>2. Coming(s) = Reported(s, slot)
        BY <2>2, ShaderAssumption DEF Coming
      <3> QED BY <3>1, <3>2
    <2> QED BY <2>1, <2>2 DEF LastRequestDecides
  <1> QED BY <1>1, ShadersHold, PTL
-----------------------------------------------------------------------------
(* The compiled shaders.                                                   *)
CompilerSpec == CompilerInit /\ [][CompilerNext]_compiler

(* A file is what its hash says, or a shaderc that failed has left it.     *)
FilesTrue ==
    \A hash \in Inputs : binaries[hash] \in {NoBinary, hash} \/ hash \in leftOver

(* What a process has records of it can use, and is for its own renderer.  *)
RecordsTrue ==
    \A hash \in Inputs :
        records[hash] = "ok" => hash.renderer = renderer /\ binaries[hash] # NoBinary

(* Only what was recorded is asked for, and for its own slot.              *)
RequestsTrue ==
    \A s \in SupportedSlots :
        requested[s] \in Inputs =>
            requested[s].slot = s /\ records[requested[s]] = "ok"

LastTrue == lastAppliedHash # NoHash => requested[lastAppliedHash.slot] = lastAppliedHash

CacheInv ==
    /\ CompilerTypeOK
    /\ FilesTrue /\ RecordsTrue /\ RequestsTrue /\ LastTrue
-----------------------------------------------------------------------------
LEMMA HashIsInput ==
    ASSUME CompilerTypeOK, NEW s \in SupportedSlots, NEW text \in Sources
    PROVE  /\ HashOf(s, text) \in Inputs
           /\ HashOf(s, text).slot = s
           /\ HashOf(s, text).source = text
           /\ HashOf(s, text).renderer = renderer
           /\ Given(s, text) = HashOf(s, text)
  BY DEF CompilerTypeOK, HashOf, Inputs, Given

(* Whatever shaderc leaves, files stay true, and those of other hashes are *)
(* left alone.                                                             *)
LEMMA LeavesFiles ==
    ASSUME CacheInv, NEW s \in SupportedSlots, NEW text \in Sources,
           NEW run \in Runs(s, text), Leaves(HashOf(s, text), run)
    PROVE  /\ FilesTrue'
           /\ binaries' \in [Inputs -> Inputs \cup {NoBinary, Torn}]
           /\ leftOver' \subseteq Inputs
           /\ \A hash \in Inputs : hash # HashOf(s, text) => binaries'[hash] = binaries[hash]
           /\ binaries'[HashOf(s, text)] = run.file
  <1> DEFINE h == HashOf(s, text)
  <1>1. h \in Inputs /\ Given(s, text) = h
    BY HashIsInput DEF CacheInv
  <1>2. /\ run.file \in {NoBinary, Torn, h}
        /\ run.exit = "success" => run.file \in {NoBinary, h}
    BY <1>1 DEF Runs
  <1>3. binaries' = [binaries EXCEPT ![h] = run.file]
    BY DEF Leaves
  <1>4. binaries \in [Inputs -> Inputs \cup {NoBinary, Torn}] /\ leftOver \subseteq Inputs
    BY DEF CacheInv, CompilerTypeOK
  <1>5. \/ run.exit # "success" /\ run.file # NoBinary /\ leftOver' = leftOver \cup {h}
        \/ (run.exit = "success" \/ run.file = NoBinary) /\ leftOver' = leftOver
    BY DEF Leaves
  <1> HIDE DEF h
  <1>6. FilesTrue'
    BY <1>1, <1>2, <1>3, <1>4, <1>5 DEF FilesTrue, CacheInv
  <1> QED
    BY <1>1, <1>2, <1>3, <1>4, <1>5, <1>6 DEF h

LEMMA CacheInit == CompilerInit => CacheInv
  BY CompilerAssumption DEF CompilerInit, CacheInv, CompilerTypeOK, FilesTrue, RecordsTrue, RequestsTrue, LastTrue

LEMMA CacheStep ==
    ASSUME CacheInv, [CompilerNext]_compiler
    PROVE  CacheInv'
  <1> USE CompilerAssumption
  <1>1. ASSUME NEW s \in SupportedSlots, NEW text \in Sources, CompileCached(s, text)
        PROVE  CacheInv'
    <2>1. HashOf(s, text) \in Inputs /\ HashOf(s, text).renderer = renderer
      BY HashIsInput DEF CacheInv
    <2> QED
      BY <1>1, <2>1 DEF CompileCached, Called, CacheInv, CompilerTypeOK, FilesTrue, RecordsTrue, RequestsTrue, LastTrue
  <1>2. ASSUME NEW s \in SupportedSlots, NEW text \in Sources, NEW run \in Runs(s, text),
               Compile(s, text, run)
        PROVE  CacheInv'
    <2> DEFINE h == HashOf(s, text)
    <2>1. h \in Inputs /\ h.renderer = renderer
      BY HashIsInput DEF CacheInv
    <2>2. /\ FilesTrue' /\ binaries' \in [Inputs -> Inputs \cup {NoBinary, Torn}]
          /\ leftOver' \subseteq Inputs
          /\ \A hash \in Inputs : hash # h => binaries'[hash] = binaries[hash]
          /\ binaries'[h] = run.file
      BY <1>2, LeavesFiles DEF Compile
    <2>3. records[h] # "ok"
      BY <1>2, <2>1 DEF Compile, CacheInv, RecordsTrue
    <2>4. \/ records' = records
          \/ records' = [records EXCEPT ![h] = "failed"]
          \/ records' = [records EXCEPT ![h] = "ok"] /\ run.file # NoBinary
      BY <1>2 DEF Compile
    <2>5. UNCHANGED <<renderer, lastAppliedHash, requested>> /\ compiles' \in 0 .. MaxCompiles
      BY <1>2 DEF Compile, Called, CacheInv, CompilerTypeOK
    <2> HIDE DEF h
    <2>6. records' \in [Inputs -> {"none", "ok", "failed"}] /\ RecordsTrue'
      BY <2>1, <2>2, <2>3, <2>4, <2>5 DEF CacheInv, CompilerTypeOK, RecordsTrue
    <2>7. RequestsTrue'
      BY <2>1, <2>3, <2>4, <2>5 DEF CacheInv, CompilerTypeOK, RequestsTrue
    <2> QED
      BY <2>2, <2>5, <2>6, <2>7 DEF CacheInv, CompilerTypeOK, LastTrue
  <1>3. ASSUME NEW hash \in Inputs, Apply(hash)
        PROVE  CacheInv'
    <2>1. hash.slot \in SupportedSlots
      BY DEF Inputs
    <2> QED
      BY <1>3, <2>1 DEF Apply, Called, CacheInv, CompilerTypeOK, FilesTrue, RecordsTrue, RequestsTrue, LastTrue
  <1>4. ASSUME NEW s \in SupportedSlots, RevertSlot(s)
        PROVE  CacheInv'
    BY <1>4 DEF RevertSlot, Called, CacheInv, CompilerTypeOK, FilesTrue, RecordsTrue, RequestsTrue, LastTrue
  <1>5. ASSUME NEW r \in Renderers, Restart(r)
        PROVE  CacheInv'
    BY <1>5 DEF Restart, Started, Called, CacheInv, CompilerTypeOK, FilesTrue, RecordsTrue, RequestsTrue, LastTrue
  <1>6. ASSUME NEW s \in SupportedSlots, NEW text \in Sources, NEW run \in Runs(s, text),
               NEW r \in Renderers, DieCompiling(s, text, run, r)
        PROVE  CacheInv'
    <2>1. /\ FilesTrue' /\ binaries' \in [Inputs -> Inputs \cup {NoBinary, Torn}]
          /\ leftOver' \subseteq Inputs
      BY <1>6, LeavesFiles DEF DieCompiling
    <2>2. Started(r) /\ compiles' \in 0 .. MaxCompiles
      BY <1>6 DEF DieCompiling, Called, CacheInv, CompilerTypeOK
    <2> QED
      BY <2>1, <2>2 DEF Started, CacheInv, CompilerTypeOK, RecordsTrue, RequestsTrue, LastTrue
  <1>7. CASE UNCHANGED compiler
    BY <1>7 DEF compiler, CacheInv, CompilerTypeOK, FilesTrue, RecordsTrue, RequestsTrue, LastTrue
  <1> QED
    BY <1>1, <1>2, <1>3, <1>4, <1>5, <1>6, <1>7 DEF CompilerNext

LEMMA CacheMatches == CacheInv => BinariesMatch
  <1> SUFFICES ASSUME CacheInv PROVE BinariesMatch
    OBVIOUS
  <1>1. ASSUME NEW s \in SupportedSlots, requested[s] \in Inputs
        PROVE  \/ binaries[requested[s]] =
                     [slot |-> s, source |-> requested[s].source, renderer |-> renderer]
               \/ requested[s] \in leftOver
    <2>1. PICK h \in Inputs : h = requested[s]
      BY <1>1
    <2>2. h.slot = s /\ h.renderer = renderer /\ binaries[h] # NoBinary
      BY <1>1, <2>1 DEF CacheInv, RequestsTrue, RecordsTrue
    <2>3. h = [slot |-> s, source |-> h.source, renderer |-> renderer]
      BY <2>2 DEF Inputs
    <2>4. binaries[h] = h \/ h \in leftOver
      BY <2>2 DEF CacheInv, FilesTrue
    <2> QED
      BY <2>1, <2>3, <2>4
  <1> QED
    BY <1>1 DEF BinariesMatch, CacheInv, LastTrue

(* For any slots, sources and renderers, whatever is compiled, restarted   *)
(* and reverted: the item is asked to use nothing but a whole binary for   *)
(* its slot and renderer, or what a failed shaderc has left.               *)
THEOREM BinariesAlwaysMatch == CompilerSpec => []BinariesMatch
  <1>1. CompilerInit => CacheInv
    BY CacheInit
  <1>2. CacheInv /\ [CompilerNext]_compiler => CacheInv'
    BY CacheStep
  <1> QED
    BY <1>1, <1>2, CacheMatches, PTL DEF CompilerSpec
-----------------------------------------------------------------------------
(* The handles of the probe.                                               *)
ProbeSpec == ProbeInit /\ [][ProbeNext]_probe

(* Which children an object has makes no difference.                       *)
IsObject(o) ==
    o \in [stamp : 1 .. created, name : Names, parent : Addresses \cup {Free},
           children : {o.children}, shape : Shapes \cup {Plain}]

HeapTrue ==
    /\ created \in Nat
    /\ DOMAIN heap = Addresses
    /\ \A a \in Live : IsObject(heap[a])
    /\ \A a, b \in Live : heap[a].stamp = heap[b].stamp => a = b

RegistryTrue ==
    /\ DOMAIN registry = Addresses
    /\ \A a \in Addresses : registry[a] = Free \/ registry[a] \in 1 .. created
    /\ announced \subseteq 1 .. created

(* The entry for an address is for the object that is there exactly if a   *)
(* reply has named this object.                                            *)
NamedTrue == \A a \in Live : registry[a] = heap[a].stamp <=> heap[a].stamp \in announced

ProbeInv == HeapTrue /\ RegistryTrue /\ NamedTrue /\ reached \subseteq announced
-----------------------------------------------------------------------------
LEMMA ProbeStarts == ProbeInit => ProbeInv
  <1> SUFFICES ASSUME ProbeInit PROVE ProbeInv
    OBVIOUS
  <1>1. PICK a \in Addresses, name \in Names, shape \in Shapes :
          heap = [b \in Addresses |->
                    IF b = a THEN [stamp |-> 1, name |-> name, parent |-> Free,
                                   children |-> <<>>, shape |-> shape] ELSE Free]
    BY DEF ProbeInit
  <1>2. Live \subseteq {a} /\ (a \in Live => heap[a] = [stamp |-> 1, name |-> name, parent |-> Free,
                                                       children |-> <<>>, shape |-> shape])
    BY <1>1 DEF Live
  <1>3. created = 1 /\ registry = [b \in Addresses |-> Free] /\ announced = {} /\ reached = {}
    BY DEF ProbeInit
  <1>4. HeapTrue
    BY <1>1, <1>2, <1>3 DEF HeapTrue, IsObject
  <1>5. RegistryTrue /\ NamedTrue
    BY <1>2, <1>3, ProbeAssumption DEF RegistryTrue, NamedTrue, Live
  <1> QED
    BY <1>3, <1>4, <1>5 DEF ProbeInv

LEMMA OtherChildren ==
    ASSUME NEW o, NEW cs, IsObject(o)
    PROVE  IsObject([o EXCEPT !.children = cs]) /\ [o EXCEPT !.children = cs].stamp = o.stamp
  BY DEF IsObject

(* A new object has a stamp that nothing knows.                            *)
LEMMA StepCreate ==
    ASSUME ProbeInv, NEW a \in Addresses, NEW parent \in Addresses, NEW name \in Names,
           NEW shape \in Shapes \cup {Plain}, Create(a, parent, name, shape)
    PROVE  ProbeInv'
  <1> DEFINE new == [stamp |-> created + 1, name |-> name, parent |-> parent,
                     children |-> <<>>, shape |-> shape]
             cs == Append(heap[parent].children, a)
             adopter == [heap[parent] EXCEPT !.children = cs]
  <1>1. /\ a \notin Live /\ parent \in Live /\ a # parent
        /\ created' = created + 1 /\ created \in Nat
        /\ registry' = registry /\ announced' = announced /\ reached' = reached
    BY DEF Create, ProbeInv, HeapTrue
  <1>2. heap' = [heap EXCEPT ![a] = new, ![parent] = adopter]
    BY <1>1 DEF Create, ProbeInv, HeapTrue
  <1>3. IsObject(adopter) /\ adopter.stamp = heap[parent].stamp
    <2>1. IsObject(heap[parent])
      BY <1>1 DEF ProbeInv, HeapTrue
    <2> HIDE DEF cs
    <2> QED
      BY <2>1, OtherChildren
  <1>4. new.stamp = created + 1 /\ new.children = <<>>
    OBVIOUS
  <1>5. /\ DOMAIN heap' = Addresses /\ heap'[a] = new /\ heap'[parent] = adopter
        /\ \A b \in Addresses : b \notin {a, parent} => heap'[b] = heap[b]
    BY <1>1, <1>2 DEF ProbeInv, HeapTrue
  <1>6. new \in [stamp : 1 .. created', name : Names, parent : Addresses \cup {Free},
                 children : {new.children}, shape : Shapes \cup {Plain}]
    BY <1>1
  <1> HIDE DEF new, adopter
  <1>7. Live' \subseteq Live \cup {a}
    BY <1>1, <1>5 DEF Live
  <1>8. \A b \in Live : heap'[b].stamp = heap[b].stamp /\ heap[b].stamp \in 1 .. created
    <2>1. \A b \in Live : b \in Addresses /\ b # a /\ heap[b].stamp \in 1 .. created
      BY <1>1 DEF ProbeInv, HeapTrue, IsObject, Live
    <2> QED
      BY <1>3, <1>5, <2>1
  <1>9. heap'[a].stamp = created + 1
    BY <1>4, <1>5
  <1>10. \A b \in Live' : IsObject(heap[b])'
    <2>1. IsObject(heap[a])'
      BY <1>5, <1>6 DEF IsObject
    <2>2. ASSUME NEW b \in Live PROVE IsObject(heap[b])'
      <3>1. IsObject(heap'[b])
        BY <1>1, <1>3, <1>5 DEF ProbeInv, HeapTrue, Live
      <3> QED
        BY <1>1, <3>1 DEF IsObject
    <2> QED
      BY <1>7, <2>1, <2>2
  <1>11. \A b, c \in Live' : heap'[b].stamp = heap'[c].stamp => b = c
    BY <1>1, <1>7, <1>8, <1>9 DEF ProbeInv, HeapTrue
  <1>12. HeapTrue'
    BY <1>1, <1>5, <1>10, <1>11 DEF HeapTrue
  <1>13. RegistryTrue'
    BY <1>1 DEF ProbeInv, RegistryTrue
  <1>14. NamedTrue'
    <2>1. registry[a] # created + 1 /\ created + 1 \notin announced
      BY <1>1, ProbeAssumption DEF ProbeInv, RegistryTrue
    <2>2. ASSUME NEW b \in Live'
          PROVE  registry'[b] = heap'[b].stamp <=> heap'[b].stamp \in announced'
      <3>1. CASE b = a
        BY <1>1, <1>9, <2>1, <3>1
      <3>2. CASE b \in Live
        BY <1>1, <1>8, <3>2 DEF ProbeInv, NamedTrue
      <3> QED
        BY <1>7, <3>1, <3>2
    <2> QED
      BY <2>2 DEF NamedTrue
  <1> QED
    BY <1>1, <1>12, <1>13, <1>14 DEF ProbeInv

(* What goes leaves its entry, which no longer counts.                     *)
LEMMA StepDestroy ==
    ASSUME ProbeInv, NEW a \in Addresses, Destroy(a)
    PROVE  ProbeInv'
  <1> DEFINE gone == {b \in Live : a \in Chain[b]}
             cs == SelectSeq(heap[heap[a].parent].children, LAMBDA c : c # a)
  <1>1. heap' = [b \in Addresses |->
                   IF b \notin Live \ gone THEN Free
                   ELSE IF b = heap[a].parent THEN [heap[b] EXCEPT !.children = cs]
                   ELSE heap[b]]
    BY DEF Destroy
  <1>2. /\ created' = created /\ registry' = registry
        /\ announced' = announced /\ reached' = reached
    BY DEF Destroy
  <1> HIDE DEF gone, cs
  <1>3. ASSUME NEW b \in Live'
        PROVE  /\ b \in Addresses /\ b \in Live
               /\ heap'[b].stamp = heap[b].stamp /\ IsObject(heap'[b])
    <2>1. b \in Addresses /\ b \in Live \ gone
      BY <1>1 DEF Live
    <2>2. IsObject(heap[b])
      BY <2>1 DEF ProbeInv, HeapTrue
    <2>3. heap'[b] = [heap[b] EXCEPT !.children = cs] \/ heap'[b] = heap[b]
      BY <1>1, <2>1
    <2>4. /\ IsObject([heap[b] EXCEPT !.children = cs])
          /\ [heap[b] EXCEPT !.children = cs].stamp = heap[b].stamp
      BY <2>2, OtherChildren
    <2> QED
      BY <2>1, <2>2, <2>3, <2>4
  <1>4. HeapTrue'
    <2>1. DOMAIN heap' = Addresses /\ created' \in Nat
      BY <1>1, <1>2 DEF ProbeInv, HeapTrue
    <2>2. \A b \in Live' : IsObject(heap[b])'
      BY <1>2, <1>3 DEF IsObject
    <2>3. \A b, c \in Live' : heap'[b].stamp = heap'[c].stamp => b = c
      BY <1>3 DEF ProbeInv, HeapTrue
    <2> QED
      BY <2>1, <2>2, <2>3 DEF HeapTrue
  <1>5. RegistryTrue' /\ NamedTrue'
    BY <1>2, <1>3 DEF ProbeInv, RegistryTrue, NamedTrue
  <1> QED
    BY <1>2, <1>4, <1>5 DEF ProbeInv

LEMMA StepAnnounce ==
    ASSUME ProbeInv, NEW objects, Announce(objects)
    PROVE  ProbeInv'
  <1>1. /\ heap' = heap /\ created' = created /\ reached' = reached /\ Live' = Live
        /\ announced' = announced \cup {heap[a].stamp : a \in objects \cap Live}
        /\ registry' = [a \in Addresses |->
                          IF a \in objects \cap Live THEN heap[a].stamp ELSE registry[a]]
    BY DEF Announce, Registered, Live
  <1>2. \A a \in Live : a \in Addresses /\ heap[a].stamp \in 1 .. created
    BY DEF ProbeInv, HeapTrue, IsObject, Live
  <1>3. HeapTrue'
    BY <1>1 DEF ProbeInv, HeapTrue, IsObject
  <1>4. RegistryTrue'
    BY <1>1, <1>2 DEF ProbeInv, RegistryTrue
  <1>5. NamedTrue'
    <2> SUFFICES ASSUME NEW a \in Live
                 PROVE  registry'[a] = heap[a].stamp <=> heap[a].stamp \in announced'
      BY <1>1 DEF NamedTrue
    <2>1. CASE a \in objects
      BY <1>1, <1>2, <2>1
    <2>2. CASE a \notin objects
      <3>1. \A b \in objects \cap Live : heap[b].stamp # heap[a].stamp
        BY <2>2 DEF ProbeInv, HeapTrue
      <3>2. heap[a].stamp \in announced' <=> heap[a].stamp \in announced
        BY <1>1, <3>1
      <3>3. registry'[a] = registry[a]
        BY <1>1, <1>2, <2>2
      <3> QED
        BY <3>2, <3>3 DEF ProbeInv, NamedTrue
    <2> QED
      BY <2>1, <2>2
  <1> QED
    BY <1>1, <1>3, <1>4, <1>5 DEF ProbeInv

LEMMA StepReaches ==
    ASSUME ProbeInv, NEW handle \in Addresses, Reaches(handle)
    PROVE  ProbeInv'
  <1>1. /\ heap' = heap /\ created' = created /\ registry' = registry /\ announced' = announced
        /\ Live' = Live /\ reached' = reached \cup {heap[handle].stamp}
    BY DEF Reaches, Live
  <1>2. handle \in Live /\ heap[handle].stamp = registry[handle]
    BY ProbeAssumption DEF Reaches, ResolveHandle
  <1>3. heap[handle].stamp \in announced
    BY <1>2 DEF ProbeInv, NamedTrue
  <1>4. HeapTrue' /\ RegistryTrue' /\ NamedTrue'
    BY <1>1 DEF ProbeInv, HeapTrue, RegistryTrue, NamedTrue, IsObject
  <1> QED
    BY <1>1, <1>3, <1>4 DEF ProbeInv

LEMMA ProbeStep ==
    ASSUME ProbeInv, [ProbeNext]_probe
    PROVE  ProbeInv'
  <1>1. ASSUME NEW a \in Addresses, NEW parent \in Addresses, NEW name \in Names,
               NEW shape \in Shapes \cup {Plain}, Create(a, parent, name, shape)
        PROVE  ProbeInv'
    BY <1>1, StepCreate
  <1>2. ASSUME NEW a \in Addresses, Destroy(a)
        PROVE  ProbeInv'
    BY <1>2, StepDestroy
  <1>3. CASE List
    BY <1>3, StepAnnounce DEF List
  <1>4. ASSUME NEW name \in Names, Find(name)
        PROVE  ProbeInv'
    BY <1>4, StepAnnounce DEF Find
  <1>5. ASSUME NEW point \in Points, Hit(point)
        PROVE  ProbeInv'
    BY <1>5, StepAnnounce DEF Hit
  <1>6. ASSUME NEW handle \in Addresses, Call(handle)
        PROVE  ProbeInv'
    <2>1. Reaches(handle)
      BY <1>6 DEF Call, Get, Set, Invoke, Click, Type, Mouse, Key, Geometry, Meta, ReachesItem
    <2> QED
      BY <2>1, StepReaches
  <1>7. CASE UNCHANGED probe
    BY <1>7 DEF probe, ProbeInv, HeapTrue, RegistryTrue, NamedTrue, IsObject, Live
  <1> QED
    BY <1>1, <1>2, <1>3, <1>4, <1>5, <1>6, <1>7 DEF ProbeNext

LEMMA ProbeKnows == ProbeInv => HandlesNamed
  <1> SUFFICES ASSUME ProbeInv, NEW a \in Live
               PROVE  ResolveHandle(a) # Free <=> heap[a].stamp \in announced
    BY DEF HandlesNamed, ProbeInv
  <1>1. a # Free
    BY ProbeAssumption DEF Live
  <1>2. ResolveHandle(a) # Free <=> heap[a].stamp = registry[a]
    BY <1>1 DEF ResolveHandle
  <1> QED
    BY <1>2 DEF ProbeInv, NamedTrue

(* For any addresses, names, shapes and number of objects: no call by a    *)
(* handle ever reaches an object that no reply has named, and every object *)
(* that was named is reached for as long as it lives.                      *)
THEOREM AlwaysNamed == ProbeSpec => []HandlesNamed
  <1>1. ProbeInit => ProbeInv
    BY ProbeStarts
  <1>2. ProbeInv /\ [ProbeNext]_probe => ProbeInv'
    BY ProbeStep
  <1>3. ProbeInv => HandlesNamed
    BY ProbeKnows
  <1> QED
    BY <1>1, <1>2, <1>3, PTL DEF ProbeSpec
-----------------------------------------------------------------------------
(***************************************************************************)
(* The mouse.  InputInv is what every step keeps: the buttons held, the    *)
(* gesture they began and the camera it moves agree.  The rest is about    *)
(* the geometry: what the side nearest to the camera is, and that a turn   *)
(* of the camera and a turn of the scene are the same.                     *)
(***************************************************************************)
InputSpec == InputInit /\ [][InputNext]_input

(* While one button is held, and none was with it, the handlers of this    *)
(* button are the ones that are served, from where the last one left off.  *)
GestureTrue ==
    gesture # NoGesture =>
        LET b == gesture.button IN
        /\ held = {b}
        /\ b = "Left" =>
              /\ leftDown /\ leftPressPos = gesture.from
              /\ leftDragging = (gesture.turnedFrom # NoGesture)
        /\ b # "Left" \/ leftDragging => b \in dragging /\ last[b] = pos
        /\ gesture.stopped \/ camera = Expected
        /\ b = "Right" /\ ~gesture.stopped =>
              gesture.view.distance + (pos - gesture.from) \in Near .. Far

FocusTrue ==
    /\ focusPending => focusRectId = askedLast
    /\ map # NoMap => sceneInited

InputInv == InputTypeOK /\ GestureTrue /\ FocusTrue /\ pickPending = clicked
-----------------------------------------------------------------------------
(* What the camera's handlers make of a view.                              *)
LEMMA ClampedIs ==
    ASSUME NEW d \in Int
    PROVE  Clamped(d) \in Near .. Far /\ (d \in Near .. Far => Clamped(d) = d)
  BY InputAssumption DEF Clamped

LEMMA ViewIs ==
    ASSUME NEW v \in Views
    PROVE  /\ v.yaw \in 0 .. 7 /\ v.target \in Int /\ v.distance \in Near .. Far
           /\ Near .. Far \subseteq Int
           /\ v = [yaw |-> v.yaw, target |-> v.target, distance |-> v.distance]
  BY InputAssumption DEF Views, Turn

LEMMA ViewMade ==
    ASSUME NEW y \in 0 .. 7, NEW t \in Int, NEW d \in Near .. Far
    PROVE  [yaw |-> y, target |-> t, distance |-> d] \in Views
  BY DEF Views, Turn

LEMMA DraggedIs ==
    ASSUME NEW v \in Views, NEW delta \in Int
    PROVE  /\ Dragged("Left", v, delta) =
                 [yaw |-> (v.yaw - delta) % 8, target |-> v.target, distance |-> v.distance]
           /\ Dragged("Middle", v, delta) =
                 [yaw |-> v.yaw, target |-> v.target - delta, distance |-> v.distance]
           /\ Dragged("Right", v, delta) =
                 [yaw |-> v.yaw, target |-> v.target, distance |-> Clamped(v.distance + delta)]
  <1>1. v = [yaw |-> v.yaw, target |-> v.target, distance |-> v.distance]
    BY ViewIs
  <1>2. Dragged("Left", v, delta) = [v EXCEPT !.yaw = (@ - delta) % 8]
    BY DEF Dragged, Turn
  <1>3. Dragged("Middle", v, delta) = [v EXCEPT !.target = @ - delta]
    BY DEF Dragged
  <1>4. Dragged("Right", v, delta) = [v EXCEPT !.distance = Clamped(@ + delta)]
    BY DEF Dragged
  <1> QED BY <1>1, <1>2, <1>3, <1>4

LEMMA DraggedView ==
    ASSUME NEW b \in Buttons, NEW v \in Views, NEW delta \in Int
    PROVE  Dragged(b, v, delta) \in Views
  <1>1. v.yaw \in 0 .. 7 /\ v.target \in Int /\ v.distance \in Near .. Far /\ v.distance \in Int
    BY ViewIs
  <1>2. (v.yaw - delta) % 8 \in 0 .. 7 /\ v.target - delta \in Int
    BY <1>1
  <1>3. Clamped(v.distance + delta) \in Near .. Far
    BY <1>1, ClampedIs
  <1>4. CASE b = "Left"
    BY <1>1, <1>2, <1>4, DraggedIs, ViewMade
  <1>5. CASE b = "Middle"
    BY <1>1, <1>2, <1>5, DraggedIs, ViewMade
  <1>6. CASE b = "Right"
    BY <1>1, <1>3, <1>6, DraggedIs, ViewMade
  <1> QED BY <1>4, <1>5, <1>6 DEF Buttons

LEMMA DraggedNot ==
    ASSUME NEW b \in Buttons, NEW v \in Views
    PROVE  Dragged(b, v, 0) = v
  <1>1. /\ v.yaw \in 0 .. 7 /\ v.target \in Int /\ v.distance \in Near .. Far /\ v.distance \in Int
        /\ v = [yaw |-> v.yaw, target |-> v.target, distance |-> v.distance]
    BY ViewIs
  <1>2. (v.yaw - 0) % 8 = v.yaw /\ v.target - 0 = v.target /\ v.distance + 0 = v.distance
    BY <1>1
  <1>3. Clamped(v.distance) = v.distance
    BY <1>1, ClampedIs
  <1>4. 0 \in Int
    OBVIOUS
  <1>5. CASE b = "Left"
    <2>1. Dragged(b, v, 0) = [yaw |-> (v.yaw - 0) % 8, target |-> v.target, distance |-> v.distance]
      BY <1>4, <1>5, DraggedIs
    <2> QED BY <1>1, <1>2, <2>1
  <1>6. CASE b = "Middle"
    <2>1. Dragged(b, v, 0) = [yaw |-> v.yaw, target |-> v.target - 0, distance |-> v.distance]
      BY <1>4, <1>6, DraggedIs
    <2> QED BY <1>1, <1>2, <2>1
  <1>7. CASE b = "Right"
    <2>1. Dragged(b, v, 0) =
            [yaw |-> v.yaw, target |-> v.target, distance |-> Clamped(v.distance + 0)]
      BY <1>4, <1>7, DraggedIs
    <2> QED BY <1>1, <1>2, <1>3, <2>1
  <1> QED BY <1>5, <1>6, <1>7 DEF Buttons

(* Two moves are one, unless the first was stopped at a limit.             *)
LEMMA DraggedOn ==
    ASSUME NEW b \in Buttons, NEW v \in Views, NEW d \in Int, NEW e \in Int,
           b = "Right" => v.distance + d \in Near .. Far
    PROVE  Dragged(b, Dragged(b, v, d), e) = Dragged(b, v, d + e)
  <1>1. v.yaw \in 0 .. 7 /\ v.target \in Int /\ v.distance \in Near .. Far /\ v.distance \in Int
    BY ViewIs
  <1> DEFINE w == Dragged(b, v, d)
  <1>2. w \in Views /\ d + e \in Int
    BY DraggedView
  <1>3. CASE b = "Left"
    <2>1. (((v.yaw - d) % 8) - e) % 8 = (v.yaw - (d + e)) % 8
      BY <1>1
    <2>2. w = [yaw |-> (v.yaw - d) % 8, target |-> v.target, distance |-> v.distance]
      BY <1>3, DraggedIs
    <2>3. Dragged(b, w, e) = [yaw |-> (w.yaw - e) % 8, target |-> w.target, distance |-> w.distance]
      BY <1>2, <1>3, DraggedIs
    <2>4. Dragged(b, v, d + e) =
            [yaw |-> (v.yaw - (d + e)) % 8, target |-> v.target, distance |-> v.distance]
      BY <1>2, <1>3, DraggedIs
    <2> QED BY <2>1, <2>2, <2>3, <2>4
  <1>4. CASE b = "Middle"
    <2>1. (v.target - d) - e = v.target - (d + e)
      BY <1>1
    <2>2. w = [yaw |-> v.yaw, target |-> v.target - d, distance |-> v.distance]
      BY <1>4, DraggedIs
    <2>3. Dragged(b, w, e) = [yaw |-> w.yaw, target |-> w.target - e, distance |-> w.distance]
      BY <1>2, <1>4, DraggedIs
    <2>4. Dragged(b, v, d + e) =
            [yaw |-> v.yaw, target |-> v.target - (d + e), distance |-> v.distance]
      BY <1>2, <1>4, DraggedIs
    <2> QED BY <2>1, <2>2, <2>3, <2>4
  <1>5. CASE b = "Right"
    <2>1. (v.distance + d) + e = v.distance + (d + e) /\ Clamped(v.distance + d) = v.distance + d
      BY <1>1, <1>5, ClampedIs
    <2>2. w = [yaw |-> v.yaw, target |-> v.target, distance |-> v.distance + d]
      BY <1>5, <2>1, DraggedIs
    <2>3. Dragged(b, w, e) =
            [yaw |-> w.yaw, target |-> w.target, distance |-> Clamped(w.distance + e)]
      BY <1>2, <1>5, DraggedIs
    <2>4. Dragged(b, v, d + e) =
            [yaw |-> v.yaw, target |-> v.target, distance |-> Clamped(v.distance + (d + e))]
      BY <1>2, <1>5, DraggedIs
    <2> QED BY <2>1, <2>2, <2>3, <2>4
  <1> QED BY <1>3, <1>4, <1>5 DEF Buttons

LEMMA Centred ==
    ASSUME NEW v \in Views
    PROVE  [v EXCEPT !.target = 0] \in Views
  BY DEF Views

LEMMA LoadedView ==
    ASSUME NEW v, v \in [yaw : 0 .. 7, target : Int, distance : Int]
    PROVE  Loaded(v) \in Views /\ Loaded(v).yaw = v.yaw /\ Loaded(v).target = v.target
  <1>1. v.yaw \in 0 .. 7 /\ v.target \in Int /\ Clamped(v.distance) \in Near .. Far
    BY ClampedIs
  <1>2. Loaded(v) = [yaw |-> v.yaw, target |-> v.target, distance |-> Clamped(v.distance)]
    BY DEF Loaded
  <1> QED BY <1>1, <1>2, ViewMade

LEMMA ViewLoads ==
    ASSUME NEW v \in Views
    PROVE  Loaded(v) = v
  <1>1. v = [yaw |-> v.yaw, target |-> v.target, distance |-> v.distance]
        /\ Clamped(v.distance) = v.distance
    BY ViewIs, ClampedIs
  <1> QED BY <1>1 DEF Loaded

LEMMA FittedView ==
    ASSUME NEW v \in Views, NEW fit \in FitDistances
    PROVE  /\ Fitted(v, fit) \in Views
           /\ Fitted(v, fit).yaw = v.yaw /\ Fitted(v, fit).target = v.target
           /\ Fitted(v, fit).distance <= v.distance
  <1>1. /\ v.yaw \in 0 .. 7 /\ v.target \in Int /\ v.distance \in Near .. Far /\ v.distance \in Int
        /\ v = [yaw |-> v.yaw, target |-> v.target, distance |-> v.distance]
        /\ fit \in Near .. Far /\ fit \in Int
    BY ViewIs DEF FitDistances
  <1>2. Clamped(fit) = fit
    BY <1>1, ClampedIs
  <1>3. CASE fit < v.distance
    <2>1. Fitted(v, fit) = [yaw |-> v.yaw, target |-> v.target, distance |-> fit]
      BY <1>1, <1>2, <1>3 DEF Fitted
    <2> QED BY <1>1, <1>3, <2>1, ViewMade
  <1>4. CASE ~(fit < v.distance)
    BY <1>1, <1>4 DEF Fitted
  <1> QED BY <1>3, <1>4

LEMMA ConfigView ==
    ASSUME saved \in Views \cup {NoView}
    PROVE  Config \in Views
  <1>1. DefaultView \in Views
    BY InputAssumption DEF DefaultView, Views, Turn
  <1> QED BY <1>1 DEF Config
-----------------------------------------------------------------------------
(* The side a rectangle is nearest to, and the camera that faces a side.   *)
SideNames == {"Left", "Right", "Top", "Bottom"}

LEMMA DenseIsSide ==
    ASSUME NEW list, NEW size
    PROVE  DenseSide(list, size) \in SideNames
  BY DEF DenseSide, FirstBest, SideNames

LEMMA NearestIsSide ==
    ASSUME NEW rect, NEW size
    PROVE  NearestSide(rect, size) \in SideNames
  BY DEF NearestSide, FirstBest, SideNames

LEMMA Turns ==
    ASSUME NEW quarters \in 0 .. 3
    PROVE  \/ quarters \in {0, 2} /\ Sin(quarters) = 0 /\ Cos(quarters) \in {-1, 1}
           \/ quarters \in {1, 3} /\ Cos(quarters) = 0 /\ Sin(quarters) \in {-1, 1}
  <1>1. quarters \in {0, 1, 2, 3}
    OBVIOUS
  <1> QED BY <1>1 DEF Sin, Cos

LEMMA YawIs ==
    /\ YawOf(<<0, 1>>) = 0 /\ YawOf(<<1, 0>>) = 2
    /\ YawOf(<<0, -1>>) = 4 /\ YawOf(<<-1, 0>>) = 6
  BY DEF YawOf, Turn

LEMMA FacesSide ==
    ASSUME NEW side \in SideNames, NEW quarters \in 0 .. 3
    PROVE  /\ TargetYaw(side, quarters) \in {0, 2, 4, 6}
           /\ LooksAlong(TargetYaw(side, quarters), side, quarters)
  <1> DEFINE c == Cos(quarters)
             s == Sin(quarters)
             n == Normal(side)
             x == c * n[1] - s * n[2]
             y == s * n[1] + c * n[2]
             flat == side \in {"Left", "Right"}
             even == quarters \in {0, 2}
  <1>1. \/ flat /\ n[1] \in {-1, 1} /\ n[2] = 0
        \/ ~flat /\ n[1] = 0 /\ n[2] \in {-1, 1}
    BY DEF Normal, SideNames
  <1>2. \/ even /\ s = 0 /\ c \in {-1, 1}
        \/ ~even /\ quarters \in {1, 3} /\ c = 0 /\ s \in {-1, 1}
    BY Turns
  <1> HIDE DEF c, s, n
  <1>3. \/ flat = even /\ x \in {-1, 1} /\ y = 0
        \/ flat # even /\ x = 0 /\ y \in {-1, 1}
    BY <1>1, <1>2
  <1>4. Rotated(n, quarters) = <<x, y>>
    BY DEF Rotated, c, s
  <1>5. TargetYaw(side, quarters) = YawOf(<<-x, y>>)
    BY <1>4 DEF TargetYaw, n
  <1> HIDE DEF x, y
  <1>6. \/ flat = even /\ YawOf(<<-x, y>>) \in {2, 6}
        \/ flat # even /\ YawOf(<<-x, y>>) \in {0, 4}
    BY <1>3, YawIs
  <1> DEFINE yaw == TargetYaw(side, quarters)
  <1> HIDE DEF yaw
  <1>7. \/ flat = even /\ yaw \in {2, 6} /\ yaw % 4 = 2
        \/ flat # even /\ yaw \in {0, 4} /\ yaw % 4 = 0
    BY <1>5, <1>6 DEF yaw
  <1>8. quarters % 2 = (IF even THEN 0 ELSE 1) /\ (1 + quarters) % 2 = (IF even THEN 1 ELSE 0)
    BY <1>2
  <1>9. (((IF flat THEN 1 ELSE 0) + quarters) % 2) * 2 = IF flat = even THEN 2 ELSE 0
    BY <1>8
  <1>10. LooksAlong(yaw, side, quarters) <=>
            yaw % 4 = (((IF flat THEN 1 ELSE 0) + quarters) % 2) * 2
    BY DEF LooksAlong, Turn
  <1>11. yaw \in {0, 2, 4, 6} /\ LooksAlong(yaw, side, quarters)
    BY <1>7, <1>9, <1>10
  <1> QED BY <1>11 DEF yaw

LEMMA OrderedIs ==
    ASSUME NEW a \in Int, NEW b \in Int
    PROVE  Ordered(a, b).lo \in Int /\ Ordered(a, b).hi \in Int
  BY DEF Ordered

LEMMA BoundsAreNumbers ==
    ASSUME NEW rect \in Rectangles, NEW size \in Sizes, NEW axis \in Axes
    PROVE  Bounds(rect, size, axis).lo \in Int /\ Bounds(rect, size, axis).hi \in Int
  <1> DEFINE pixels == size[axis]
             base   == IF rect.image[axis] > 0 THEN rect.image[axis] ELSE pixels
             at     == rect.at[axis]
             extent == rect.extent[axis]
  <1>1. /\ pixels \in Nat \ {0} /\ at \in Int /\ extent \in Int
        /\ rect.image[axis] \in Int /\ Parts \in Int /\ Pixel \in Int
        /\ rect.coordType \in {"TopLeftPixels", "NormalizedCenter", "PixelCenter"}
    BY GeometryAssumption DEF Sizes, Rectangles, Pixel
  <1>2. base \in Nat \ {0}
    BY <1>1
  <1> HIDE DEF pixels, at, extent, base
  <1>3. CASE rect.coordType = "TopLeftPixels"
    <2>1. Bounds(rect, size, axis) = Ordered(Pixel * at, Pixel * (at + extent))
      BY <1>3 DEF Bounds, at, extent
    <2>2. Pixel * at \in Int /\ Pixel * (at + extent) \in Int
      BY <1>1
    <2> QED BY <2>1, <2>2, OrderedIs
  <1>4. CASE rect.coordType = "NormalizedCenter"
    <2> DEFINE centre == 2 * pixels * at
               half   == pixels * extent
    <2>1. Bounds(rect, size, axis) = Ordered(centre - half, centre + half)
      BY <1>4 DEF Bounds, Around, at, extent, pixels
    <2>2. centre \in Int /\ half \in Int
      BY <1>1
    <2> HIDE DEF centre, half
    <2>3. centre - half \in Int /\ centre + half \in Int
      BY <2>2
    <2> QED BY <2>1, <2>3, OrderedIs
  <1>5. CASE rect.coordType = "PixelCenter"
    <2> DEFINE num1   == Pixel * pixels * at
               num2   == Parts * pixels * extent
               centre == num1 \div base + Parts * pixels
               half   == num2 \div base
    <2>1. Bounds(rect, size, axis) = Ordered(centre - half, centre + half)
      BY <1>5 DEF Bounds, Around, at, extent, pixels, base
    <2>2. num1 \in Int /\ num2 \in Int /\ Parts * pixels \in Int
      BY <1>1
    <2> HIDE DEF num1, num2
    <2>3. num1 \div base \in Int /\ num2 \div base \in Int
      BY <1>2, <2>2
    <2>4. centre - half \in Int /\ centre + half \in Int
      BY <2>2, <2>3
    <2> HIDE DEF centre, half
    <2> QED BY <2>1, <2>4, OrderedIs
  <1> QED BY <1>1, <1>3, <1>4, <1>5

LEMMA DistanceIsNumber ==
    ASSUME NEW rect \in Rectangles, NEW size \in Sizes, NEW side \in SideNames
    PROVE  Distance(rect, size, side) \in Int
  <1>1. /\ Bounds(rect, size, 1).lo \in Int /\ Bounds(rect, size, 1).hi \in Int
        /\ Bounds(rect, size, 2).lo \in Int /\ Bounds(rect, size, 2).hi \in Int
    BY BoundsAreNumbers DEF Axes
  <1>2. size[1] \in Nat /\ size[2] \in Nat /\ Pixel \in Int
    BY GeometryAssumption DEF Sizes, Axes, Pixel
  <1>3. Pixel * size[1] \in Int /\ Pixel * size[2] \in Int
    BY <1>2
  <1> DEFINE w == Pixel * size[1]
             h == Pixel * size[2]
  <1> HIDE DEF w, h
  <1>4. w \in Int /\ h \in Int
    BY <1>3 DEF w, h
  <1>5. Distance(rect, size, side) =
          CASE side = "Left"   -> Bounds(rect, size, 1).lo
            [] side = "Right"  -> w - Bounds(rect, size, 1).hi
            [] side = "Top"    -> Bounds(rect, size, 2).lo
            [] side = "Bottom" -> h - Bounds(rect, size, 2).hi
    BY Zenon DEF Distance, w, h
  <1> QED BY <1>1, <1>4, <1>5 DEF SideNames

LEMMA SidesAre ==
    /\ DOMAIN Sides = 1 .. 4
    /\ Sides[1] = "Left" /\ Sides[2] = "Right" /\ Sides[3] = "Top" /\ Sides[4] = "Bottom"
  BY DEF Sides

LEMMA NearestIsNearest ==
    ASSUME NEW rect \in Rectangles, NEW size \in Sizes
    PROVE  NearestSide(rect, size) \in NearestSides(rect, size)
  <1> DEFINE l == Distance(rect, size, "Left")
             r == Distance(rect, size, "Right")
             t == Distance(rect, size, "Top")
             b == Distance(rect, size, "Bottom")
             near == NearestSide(rect, size)
             d == Distance(rect, size, near)
  <1>1. l \in Int /\ r \in Int /\ t \in Int /\ b \in Int
    BY DistanceIsNumber DEF SideNames
  <1>2. near \in SideNames
    BY NearestIsSide
  <1>3. d <= l /\ d <= r /\ d <= t /\ d <= b
    <2> DEFINE first == IF r < l THEN "Right" ELSE "Left"
               d1 == Distance(rect, size, first)
               second == IF t < d1 THEN "Top" ELSE first
               d2 == Distance(rect, size, second)
    <2>1. d1 \in Int /\ d1 <= l /\ d1 <= r
      BY <1>1
    <2>2. d2 \in Int /\ d2 <= d1 /\ d2 <= t
      BY <1>1, <2>1
    <2>3. near = IF b < d2 THEN "Bottom" ELSE second
      BY Zenon DEF NearestSide, FirstBest
    <2>4. d <= d2 /\ d <= b
      <3> HIDE DEF second, near, b
      <3>1. CASE b < d2
        BY <1>1, <2>2, <2>3, <3>1 DEF b
      <3>2. CASE ~(b < d2)
        BY <1>1, <2>2, <2>3, <3>2
      <3> QED BY <3>1, <3>2
    <2>5. d \in Int
      BY <1>2, DistanceIsNumber
    <2> HIDE DEF d, d1, d2, l, r, t, b
    <2> QED BY <1>1, <2>1, <2>2, <2>4, <2>5
  <1> HIDE DEF near
  <1>4. PICK i \in DOMAIN Sides : near = Sides[i]
    BY <1>2, SidesAre DEF SideNames
  <1>5. \A k \in DOMAIN Sides : Distance(rect, size, Sides[i]) <= Distance(rect, size, Sides[k])
    <2> TAKE k \in DOMAIN Sides
    <2>1. k \in {1, 2, 3, 4}
      BY SidesAre
    <2> QED BY <1>3, <1>4, <2>1, SidesAre
  <1>6. near \in NearestSides(rect, size)
    BY <1>4, <1>5, Zenon DEF NearestSides
  <1> QED BY <1>6 DEF near

LEMMA FirstHasId ==
    ASSUME NEW list \in Seq(Rectangles), NEW id, Has(list, id)
    PROVE  /\ First(list, id).id = id
           /\ First(list, id) \in {list[i] : i \in DOMAIN list}
  <1> DEFINE T == {i \in DOMAIN list : list[i].id = id}
             P(i) == list[i].id = id /\ \A j \in 1 .. i - 1 : list[j].id # id
  <1>1. DOMAIN list = 1 .. Len(list) /\ Len(list) \in Nat
    OBVIOUS
  <1>2. T \in SUBSET Nat /\ T # {}
    BY <1>1 DEF Has
  <1>3. PICK m \in T : \A k \in T : m <= k
    BY <1>2, LeastNatural
  <1>4. m \in DOMAIN list /\ P(m)
    <2>1. m \in 1 .. Len(list) /\ list[m].id = id
      BY <1>1
    <2>2. ASSUME NEW j \in 1 .. m - 1 PROVE list[j].id # id
      <3>1. j \in DOMAIN list /\ j < m
        BY <1>1, <2>1
      <3> QED BY <1>3, <3>1, <2>1
    <2> QED BY <1>1, <2>1, <2>2
  <1> DEFINE i == CHOOSE x \in DOMAIN list : P(x)
  <1>5. i \in DOMAIN list /\ P(i)
    BY <1>4
  <1>6. First(list, id) = list[i]
    BY DEF First
  <1> QED BY <1>5, <1>6

LEMMA NearerFaceIs ==
    ASSUME NEW yaw \in {0, 2, 4, 6}, NEW view \in Views
    PROVE  /\ NearerFace(yaw, view) \in 0 .. 7
           /\ NearerFace(yaw, view) % 4 = yaw % 4
           /\ Apart(NearerFace(yaw, view), view.yaw) <= 2
  <1> DEFINE v   == view.yaw
             opp == (yaw + 4) % 8
             d   == (yaw - v) % 8
             e   == (opp - v) % 8
  <1>1. v \in 0 .. 7
    BY ViewIs
  <1>2. opp \in 0 .. 7 /\ opp % 4 = yaw % 4
    OBVIOUS
  <1>3. d \in 0 .. 7 /\ e \in 0 .. 7 /\ (e = d + 4 \/ e = d - 4)
    BY <1>1
  <1>4. Apart(yaw, v) = (IF d <= 4 THEN d ELSE 8 - d) /\ Apart(opp, v) = (IF e <= 4 THEN e ELSE 8 - e)
    BY DEF Apart, Turn
  <1>5. NearerFace(yaw, view) = IF Apart(yaw, v) <= Apart(opp, v) THEN yaw ELSE opp
    BY DEF NearerFace, Turn
  <1> HIDE DEF d, e, opp, v
  <1>6. Apart(yaw, v) <= 2 \/ Apart(opp, v) <= 2
    BY <1>3, <1>4
  <1>7. Apart(yaw, v) \in Int /\ Apart(opp, v) \in Int
    BY <1>3, <1>4
  <1>8. NearerFace(yaw, view) \in {yaw, opp} /\ Apart(NearerFace(yaw, view), v) <= 2
    BY <1>5, <1>6, <1>7
  <1> QED BY <1>2, <1>8 DEF v

(* The view that a request to focus shows.                                 *)
LEMMA FocusedFaces ==
    ASSUME NEW id, NEW list \in Seq(Rectangles), NEW size \in MapSizes \cup {NoMap},
           NEW quarters \in 0 .. 3, CanFocus(id, list, size), saved \in Views \cup {NoView}
    PROVE  LET v == FocusedView(id, list, size, quarters) IN
           /\ v \in Views /\ v.target = Config.target /\ v.distance = Config.distance
           /\ \E rect \in {list[i] : i \in DOMAIN list} :
                 /\ \E side \in NearestSides(rect, size) : LooksAlong(v.yaw, side, quarters)
                 /\ IF id = -1 THEN rect.id < 0
                    ELSE rect.id = id /\ Apart(v.yaw, Config.yaw) <= 2
  <1> DEFINE v == FocusedView(id, list, size, quarters)
             base == Config
  <1>1. size \in Sizes /\ \A i \in DOMAIN list : list[i] \in Rectangles
    BY InputAssumption DEF CanFocus
  <1>2. base \in Views /\ Loaded(base) = base
    BY ConfigView, ViewLoads
  <1> HIDE DEF base
  <1>3. ASSUME NEW yaw \in 0 .. 7, v = Loaded([base EXCEPT !.yaw = yaw])
        PROVE  v \in Views /\ v.yaw = yaw /\ v.target = base.target /\ v.distance = base.distance
    <2>1. /\ base = [yaw |-> base.yaw, target |-> base.target, distance |-> base.distance]
          /\ base.target \in Int /\ base.distance \in Near .. Far
      BY <1>2, ViewIs
    <2>2. [base EXCEPT !.yaw = yaw] = [yaw |-> yaw, target |-> base.target, distance |-> base.distance]
      BY <2>1
    <2>3. [yaw |-> yaw, target |-> base.target, distance |-> base.distance] \in Views
      BY <2>1, ViewMade
    <2> QED BY <1>3, <2>2, <2>3, ViewLoads
  <1>4. CASE id = -1
    <2> DEFINE side == DenseSide(list, size)
               yaw  == TargetYaw(side, quarters)
    <2>1. side \in SideNames
      BY DenseIsSide
    <2>2. yaw \in {0, 2, 4, 6} /\ LooksAlong(yaw, side, quarters)
      BY <2>1, FacesSide
    <2>3. v = Loaded([base EXCEPT !.yaw = yaw])
      BY <1>2, <1>4, Zenon DEF FocusedView, base
    <2>4. PICK i \in DOMAIN list : Supports(list[i], size, side)
      <3>1. SideScore(list, size, side) > 0
        BY <1>4 DEF CanFocus, HasDenseSide
      <3>2. CASE {i \in DOMAIN list : Supports(list[i], size, side)} = {}
        <4>1. SideScore(list, size, side) = 0
          BY <3>2, Zenon DEF SideScore
        <4> QED BY <3>1, <4>1
      <3> QED BY <3>2
    <2>5. side \in NearestSides(list[i], size) /\ list[i].id < 0
      BY <1>1, <2>4, NearestIsNearest DEF Supports
    <2> HIDE DEF side, yaw, v
    <2>6. yaw \in 0 .. 7
      BY <2>2
    <2>7. v \in Views /\ v.yaw = yaw /\ v.target = base.target /\ v.distance = base.distance
      BY <1>3, <2>3, <2>6
    <2>8. LooksAlong(v.yaw, side, quarters)
      BY <2>2, <2>7
    <2> QED BY <1>4, <2>5, <2>7, <2>8 DEF v, base
  <1>5. CASE id # -1
    <2> DEFINE rect == First(list, id)
               side == NearestSide(rect, size)
               yaw  == TargetYaw(side, quarters)
               seen == NearerFace(yaw, base)
    <2>1. rect.id = id /\ rect \in {list[i] : i \in DOMAIN list} /\ rect \in Rectangles
      <3>1. Has(list, id)
        BY <1>5 DEF CanFocus
      <3> QED BY <1>1, <3>1, FirstHasId
    <2> HIDE DEF rect
    <2>2. side \in SideNames /\ side \in NearestSides(rect, size)
      BY <1>1, <2>1, NearestIsSide, NearestIsNearest
    <2> HIDE DEF side
    <2>3. yaw \in {0, 2, 4, 6} /\ LooksAlong(yaw, side, quarters)
      BY <2>2, FacesSide
    <2>4. v = Loaded([base EXCEPT !.yaw = seen])
      BY <1>2, <1>5, Zenon DEF FocusedView, base, rect, side
    <2> HIDE DEF yaw, v
    <2>5. seen \in 0 .. 7 /\ seen % 4 = yaw % 4 /\ Apart(seen, base.yaw) <= 2
      BY <1>2, <2>3, NearerFaceIs
    <2> HIDE DEF seen
    <2>6. LooksAlong(seen, side, quarters)
      BY <2>3, <2>5 DEF LooksAlong, Turn
    <2>7. v \in Views /\ v.yaw = seen /\ v.target = base.target /\ v.distance = base.distance
      BY <1>3, <2>4, <2>5
    <2>8. /\ \E s \in NearestSides(rect, size) : LooksAlong(v.yaw, s, quarters)
          /\ rect.id = id /\ Apart(v.yaw, base.yaw) <= 2
      BY <2>1, <2>2, <2>5, <2>6, <2>7
    <2> QED BY <1>5, <2>1, <2>7, <2>8 DEF v, base
  <1> QED BY <1>4, <1>5
-----------------------------------------------------------------------------
(* The mouse's handlers.                                                   *)
LEMMA ForemostIs ==
    ASSUME NEW bs
    PROVE  /\ Foremost(bs) \in Buttons
           /\ \A b \in Buttons : bs = {b} => Foremost(bs) = b
  BY DEF Foremost, Buttons

LEMMA GestureIs ==
    ASSUME NEW g \in Gestures
    PROVE  /\ g.button \in Buttons /\ g.from \in Positions /\ g.view \in Views
           /\ g.turnedFrom \in Positions \cup {NoGesture} /\ g.stopped \in BOOLEAN
           /\ g # NoGesture
           /\ g = [button |-> g.button, from |-> g.from, view |-> g.view,
                   turnedFrom |-> g.turnedFrom, stopped |-> g.stopped]
  BY InputAssumption DEF Gestures

LEMMA GestureMade ==
    ASSUME NEW b \in Buttons, NEW f \in Positions, NEW v \in Views,
           NEW t \in Positions \cup {NoGesture}, NEW s \in BOOLEAN
    PROVE  [button |-> b, from |-> f, view |-> v, turnedFrom |-> t, stopped |-> s] \in Gestures
  BY DEF Gestures

LEMMA PositionsAreNumbers ==
    /\ NoGesture \notin Positions
    /\ \A p, q \in Positions : p \in Int /\ p - q \in Int
    /\ \A p, q, r \in Positions : (q - r) + (p - q) = p - r /\ p - p = 0
  BY InputAssumption

LEMMA EventsAreCounted ==
    ASSUME InputInv, Event
    PROVE  events' \in 0 .. MaxEvents
  <1>1. events \in 0 .. MaxEvents
    BY DEF InputInv, InputTypeOK
  <1> QED BY <1>1, InputAssumption DEF Event

LEMMA PressKeeps ==
    ASSUME InputInv, NEW button \in Buttons, Press(button)
    PROVE  InputInv'
  <1> DEFINE g == [button |-> button, from |-> pos, view |-> camera,
                   turnedFrom |-> NoGesture, stopped |-> FALSE]
             b == Foremost(held')
  <1> USE DEF InputInv
  <1>1. /\ pos \in Positions /\ held \subseteq Buttons /\ camera \in Views
        /\ last \in [Buttons -> Positions] /\ dragging \subseteq Buttons
        /\ events \in 0 .. MaxEvents /\ MaxEvents \in Nat
    BY InputAssumption DEF InputTypeOK
  <1>2. g \in Gestures /\ g # NoGesture
    BY <1>1, GestureMade, GestureIs
  <1>3. b \in Buttons
    BY ForemostIs
  <1>4. gesture' \in Gestures \cup {NoGesture} /\ events' \in 0 .. MaxEvents
    <2>1. gesture' = IF held = {} THEN g ELSE NoGesture
      BY DEF Press
    <2>2. events < MaxEvents /\ events' = events + 1
      BY DEF Press, Event
    <2> QED BY <1>1, <1>2, <2>1, <2>2
  <1>5. /\ camera' \in Views /\ dragging' \subseteq Buttons
        /\ last' \in [Buttons -> Positions]
    <2>1. CASE button = "Left"
      BY <1>1, <2>1 DEF Press, control
    <2>2. CASE button # "Left"
      <3>1. /\ dragging' = dragging \cup {b} /\ last' = [last EXCEPT ![b] = pos]
            /\ camera' = IF b = "Left" THEN [camera EXCEPT !.target = 0] ELSE camera
        BY <2>2 DEF Press, Begin, LastAtBegin
      <3> QED BY <1>1, <1>3, <3>1, Centred
    <2> QED BY <2>1, <2>2
  <1>6. InputTypeOK'
    <2>1. leftDown' \in BOOLEAN /\ leftDragging' \in BOOLEAN /\ leftPressPos' \in Positions
          /\ saved' = saved
      BY <1>1 DEF Press, InputTypeOK, control, item
    <2>2. UNCHANGED <<pos, focus, pick, news, scene, locked>> /\ held' = held \cup {button}
      BY DEF Press
    <2> QED BY <1>4, <1>5, <2>1, <2>2 DEF InputTypeOK, focus, pick, news, scene
  <1>7. GestureTrue'
    <2> SUFFICES ASSUME gesture' # NoGesture PROVE GestureTrue'
      BY DEF GestureTrue
    <2>1. gesture' = g /\ held = {} /\ held' = {button} /\ pos' = pos /\ b = button
      BY ForemostIs DEF Press
    <2>2. gesture'.button = button /\ gesture'.from = pos /\ gesture'.view = camera
          /\ gesture'.turnedFrom = NoGesture /\ gesture'.stopped = FALSE
      BY <2>1
    <2>3. CASE button = "Left"
      <3>1. /\ leftDown' = TRUE /\ leftDragging' = FALSE /\ leftPressPos' = pos
            /\ camera' = camera
        BY <2>3 DEF Press, control
      <3>2. Expected' = camera
        BY <2>2, <2>3 DEF Expected
      <3> QED BY <2>1, <2>2, <2>3, <3>1, <3>2 DEF GestureTrue
    <2>4. CASE button # "Left"
      <3>1. dragging' = dragging \cup {button} /\ last' = [last EXCEPT ![button] = pos]
            /\ camera' = camera
        BY <2>1, <2>4 DEF Press, Begin, LastAtBegin
      <3>2. Expected' = Dragged(button, camera, pos - pos)
        BY <2>1, <2>2, <2>4 DEF Expected
      <3>3. Expected' = camera
        BY <1>1, <3>2, PositionsAreNumbers, DraggedNot
      <3>4. camera.distance + (pos - pos) \in Near .. Far
        <4>1. camera.distance \in Near .. Far /\ camera.distance \in Int
          BY <1>1, ViewIs
        <4>2. pos - pos = 0
          BY <1>1, PositionsAreNumbers
        <4> QED BY <4>1, <4>2
      <3>5. last'[button] = pos'
        BY <1>1, <2>1, <3>1
      <3> QED BY <2>1, <2>2, <2>4, <3>1, <3>3, <3>4, <3>5 DEF GestureTrue
    <2> QED BY <2>3, <2>4
  <1>8. FocusTrue' /\ pickPending' = clicked'
    BY DEF Press, FocusTrue, focus, pick, scene
  <1> QED BY <1>6, <1>7, <1>8

(* What a move makes of the camera while the one button held is the        *)
(* gesture's.                                                              *)
LEMMA DragKeepsView ==
    ASSUME InputInv, NEW p \in Positions, Drag(p), gesture # NoGesture
    PROVE  GestureTrue'
  <1> DEFINE b == gesture.button
             v == gesture.view
             f == gesture.from
             t == gesture.turnedFrom
             c == [v EXCEPT !.target = 0]
             out == b = "Right" /\ v.distance + p - f \notin Near .. Far
  <1> USE DEF InputInv
  <1>1. /\ pos \in Positions /\ camera \in Views /\ gesture \in Gestures
        /\ last \in [Buttons -> Positions] /\ dragging \subseteq Buttons
        /\ leftDragging \in BOOLEAN
    BY DEF InputTypeOK
  <1>2. /\ b \in Buttons /\ f \in Positions /\ v \in Views /\ v.distance \in Int
        /\ t \in Positions \cup {NoGesture} /\ gesture.stopped \in BOOLEAN /\ c \in Views
    BY <1>1, GestureIs, Centred, ViewIs
  <1>3. /\ held = {b} /\ held' = held /\ Foremost(held) = b /\ pos' = p
        /\ b = "Left" =>
              leftDown /\ leftPressPos = f /\ leftDragging = (t # NoGesture)
        /\ leftDown' = leftDown /\ leftPressPos' = leftPressPos
        /\ b # "Left" \/ leftDragging => b \in dragging /\ last[b] = pos
        /\ gesture.stopped \/ camera = Expected
        /\ b = "Right" /\ ~gesture.stopped => v.distance + (pos - f) \in Near .. Far
    BY <1>2, ForemostIs DEF GestureTrue, Drag
  <1>4. /\ gesture'.button = b /\ gesture'.view = v /\ gesture'.from = f
        /\ gesture'.turnedFrom = IF t = NoGesture /\ Strayed(p) THEN p ELSE t
        /\ gesture'.stopped = (gesture.stopped \/ out)
    <2>1. gesture' = [gesture EXCEPT
              !.turnedFrom = IF @ = NoGesture /\ Strayed(p) THEN p ELSE @,
              !.stopped = @ \/ (b = "Right" /\ v.distance + p - f \notin Near .. Far)]
      BY <1>3 DEF Drag
    <2> QED BY <1>1, <2>1, GestureIs
  <1>5. CASE b = "Left"
    <2> DEFINE starts == ~leftDragging /\ Strayed(p)
    <2>1. /\ "Left" \in held /\ {"Middle", "Right"} \cap held = {}
          /\ (leftDown /\ ~leftDragging /\ p - leftPressPos \notin (-Slack + 1) .. (Slack - 1))
                <=> starts
      BY <1>3, <1>5 DEF Strayed
    <2>2. CASE leftDragging
      <3>1. /\ leftDragging' = TRUE /\ dragging' = dragging
            /\ camera' = Dragged("Left", camera, p - pos)
            /\ last' = [last EXCEPT !["Left"] = p]
        BY <1>3, <1>5, <2>1, <2>2 DEF Drag
      <3>2. t \in Positions /\ t # NoGesture
        BY <1>2, <1>3, <1>5, <2>2
      <3>3. gesture'.turnedFrom = t
        BY <1>4, <3>2
      <3>4. Expected = Dragged("Left", c, pos - t) /\ Expected' = Dragged("Left", c, p - t)
        BY <1>3, <1>4, <1>5, <3>2, <3>3 DEF Expected
      <3>5. Dragged("Left", Dragged("Left", c, pos - t), p - pos) = Dragged("Left", c, p - t)
        <4>1. /\ pos - t \in Int /\ p - pos \in Int /\ (pos - t) + (p - pos) = p - t
              /\ "Left" \in Buttons
          BY <1>1, <3>2, PositionsAreNumbers DEF Buttons
        <4> QED BY <1>2, <4>1, DraggedOn
      <3>6. gesture'.stopped \/ camera' = Expected'
        BY <1>3, <1>4, <3>1, <3>4, <3>5
      <3>7. last'["Left"] = p
        BY <1>1, <3>1 DEF Buttons
      <3> QED BY <1>3, <1>4, <1>5, <2>2, <3>1, <3>2, <3>3, <3>6, <3>7 DEF GestureTrue
    <2>3. CASE starts
      <3>1. /\ leftDragging' = TRUE /\ dragging' = dragging \cup {"Left"}
            /\ camera' = Dragged("Left", [camera EXCEPT !.target = 0], p - p)
            /\ last' = [last EXCEPT !["Left"] = p]
        BY <1>3, <1>5, <2>1, <2>3 DEF Drag
      <3>2. t = NoGesture /\ gesture'.turnedFrom = p /\ p # NoGesture
        BY <1>3, <1>4, <1>5, <2>3, PositionsAreNumbers
      <3>3. Expected = v /\ Expected' = Dragged("Left", c, p - p)
        BY <1>3, <1>4, <1>5, <3>2 DEF Expected
      <3>4. gesture'.stopped \/ camera' = Expected'
        BY <1>3, <1>4, <3>1, <3>3
      <3>5. last'["Left"] = p
        BY <1>1, <3>1 DEF Buttons
      <3> QED BY <1>3, <1>4, <1>5, <3>1, <3>2, <3>4, <3>5 DEF GestureTrue
    <2>4. CASE ~leftDragging /\ ~starts
      <3>1. leftDragging' = leftDragging /\ dragging' = dragging /\ camera' = camera
        BY <1>3, <1>5, <2>1, <2>4 DEF Drag
      <3>2. t = NoGesture /\ gesture'.turnedFrom = NoGesture
        BY <1>3, <1>4, <1>5, <2>4
      <3>3. Expected = v /\ Expected' = v
        BY <1>3, <1>4, <1>5, <3>2 DEF Expected
      <3> QED BY <1>3, <1>4, <1>5, <2>4, <3>1, <3>2, <3>3 DEF GestureTrue
    <2> QED BY <2>2, <2>3, <2>4
  <1>6. CASE b # "Left"
    <2>1. "Left" \notin held /\ {"Middle", "Right"} \cap held # {}
      BY <1>2, <1>3, <1>6 DEF Buttons
    <2>2. b \in dragging /\ last[b] = pos
      BY <1>3, <1>6
    <2>3. /\ dragging' = dragging /\ camera' = Dragged(b, camera, p - pos)
          /\ last' = [last EXCEPT ![b] = p]
      BY <1>3, <2>1, <2>2 DEF Drag
    <2>4. Expected = Dragged(b, v, pos - f) /\ Expected' = Dragged(b, v, p - f)
      BY <1>3, <1>4, <1>6 DEF Expected
    <2>5. /\ pos - f \in Int /\ p - pos \in Int /\ (pos - f) + (p - pos) = p - f
          /\ v.distance + p - f = v.distance + (p - f)
      BY <1>1, <1>2, PositionsAreNumbers
    <2>6. ASSUME ~gesture.stopped
          PROVE  Dragged(b, Dragged(b, v, pos - f), p - pos) = Dragged(b, v, p - f)
      BY <1>2, <1>3, <2>5, <2>6, DraggedOn
    <2>7. gesture'.stopped \/ camera' = Expected'
      BY <1>3, <1>4, <2>3, <2>4, <2>6
    <2>8. b = "Right" /\ ~gesture'.stopped => v.distance + (p - f) \in Near .. Far
      BY <1>4, <2>5
    <2>9. last'[b] = p
      BY <1>1, <1>2, <2>3
    <2> QED BY <1>3, <1>4, <1>6, <2>2, <2>3, <2>7, <2>8, <2>9 DEF GestureTrue
  <1> QED BY <1>5, <1>6

LEMMA DragKeeps ==
    ASSUME InputInv, NEW p \in Positions, Drag(p)
    PROVE  InputInv'
  <1> DEFINE left   == "Left" \in held
             starts == left /\ leftDown /\ ~leftDragging
                            /\ p - leftPressPos \notin (-Slack + 1) .. (Slack - 1)
             heeded == \/ left /\ (leftDragging \/ starts)
                       \/ {"Middle", "Right"} \cap held # {}
             b      == Foremost(held)
             view   == IF starts THEN [camera EXCEPT !.target = 0] ELSE camera
             from   == IF starts THEN p ELSE last[b]
             moves  == heeded /\ (starts \/ b \in dragging)
             now    == IF moves THEN Dragged(b, view, p - from) ELSE view
  <1>1. /\ pos \in Positions /\ held \subseteq Buttons /\ camera \in Views
        /\ last \in [Buttons -> Positions] /\ dragging \subseteq Buttons
        /\ events \in 0 .. MaxEvents /\ MaxEvents \in Nat
        /\ gesture \in Gestures \cup {NoGesture} /\ saved \in Views \cup {NoView}
        /\ leftDragging \in BOOLEAN
    BY InputAssumption DEF InputInv, InputTypeOK
  <1>2. b \in Buttons /\ "Left" \in Buttons
    BY ForemostIs DEF Buttons
  <1>3. view \in Views /\ from \in Positions /\ p - from \in Int
    BY <1>1, <1>2, Centred, PositionsAreNumbers
  <1>4. now \in Views
    BY <1>2, <1>3, DraggedView
  <1>5. /\ Event /\ pos' = p
        /\ leftDragging' = (leftDragging \/ starts)
        /\ dragging' = IF starts THEN dragging \cup {"Left"} ELSE dragging
        /\ camera' = now
        /\ IF moves THEN last' = [last EXCEPT ![b] = p] /\ saved' = Notified(now)
           ELSE UNCHANGED <<last, saved>>
        /\ UNCHANGED <<held, leftDown, leftPressPos, focus, pick, news, scene, locked>>
    BY DEF Drag
  <1>6. gesture' \in Gestures \cup {NoGesture}
    <2>1. CASE gesture = NoGesture
      BY <2>1 DEF Drag
    <2>2. CASE gesture # NoGesture
      <3>1. gesture \in Gestures
        BY <1>1, <2>2
      <3>2. PICK t \in Positions \cup {NoGesture}, s \in BOOLEAN :
              gesture' = [gesture EXCEPT !.turnedFrom = t, !.stopped = s]
        <4> DEFINE t == IF gesture.turnedFrom = NoGesture /\ Strayed(p) THEN p
                        ELSE gesture.turnedFrom
                   s == gesture.stopped \/ (b = "Right" /\ gesture.view.distance
                                          + p - gesture.from \notin Near .. Far)
        <4>1. gesture' = [gesture EXCEPT !.turnedFrom = t, !.stopped = s]
          BY <2>2 DEF Drag
        <4>2. t \in Positions \cup {NoGesture} /\ s \in BOOLEAN
          BY <3>1, GestureIs
        <4> QED BY <4>1, <4>2
      <3> QED BY <3>1, <3>2 DEF Gestures
    <2> QED BY <2>1, <2>2
  <1>7. last' \in [Buttons -> Positions] /\ saved' \in Views \cup {NoView}
        /\ dragging' \subseteq Buttons /\ leftDragging' \in BOOLEAN
    <2> HIDE DEF now, moves, b, starts
    <2> QED BY <1>1, <1>2, <1>4, <1>5 DEF Notified
  <1>8. events' \in 0 .. MaxEvents
    BY <1>1, <1>5 DEF Event
  <1> HIDE DEF now, moves, b, starts
  <1>9. InputTypeOK'
    BY <1>1, <1>4, <1>5, <1>6, <1>7, <1>8
       DEF InputInv, InputTypeOK, focus, pick, news, scene
  <1>10. GestureTrue'
    <2>1. CASE gesture = NoGesture
      BY <2>1 DEF Drag, GestureTrue
    <2>2. CASE gesture # NoGesture
      BY <2>2, DragKeepsView
    <2> QED BY <2>1, <2>2
  <1>11. FocusTrue' /\ pickPending' = clicked'
    BY <1>5 DEF InputInv, FocusTrue, focus, pick, scene
  <1> QED BY <1>9, <1>10, <1>11 DEF InputInv

LEMMA HoverKeeps ==
    ASSUME InputInv, NEW p \in Positions, Hover(p)
    PROVE  InputInv'
  <1>1. /\ held = {} /\ pos' = p /\ Event
        /\ UNCHANGED <<held, item, focus, pick, news, control, scene, locked, gesture>>
    BY DEF Hover
  <1>2. gesture = NoGesture
    <2>1. gesture = NoGesture \/ held = {gesture.button}
      BY DEF InputInv, GestureTrue
    <2> QED BY <1>1, <2>1
  <1>3. events' \in 0 .. MaxEvents
    BY <1>1, EventsAreCounted
  <1> QED BY <1>1, <1>2, <1>3 DEF InputInv, InputTypeOK, GestureTrue, FocusTrue,
          item, focus, pick, news, control, scene

LEMMA ReleaseKeeps ==
    ASSUME InputInv, NEW button \in Buttons, Release(button)
    PROVE  InputInv'
  <1>1. /\ Event /\ button \in held /\ held' = held \ {button}
        /\ IF button = "Left" THEN leftDown' = FALSE /\ leftDragging' = FALSE
                              ELSE UNCHANGED <<leftDown, leftDragging>>
        /\ pickPending' = (pickPending \/ Picks(button))
        /\ clicked' = IF gesture = NoGesture THEN pickPending'
                  ELSE clicked \/ (button = "Left" /\ gesture.turnedFrom = NoGesture)
        /\ dragging' = IF Picks(button) THEN dragging ELSE Ended(button)
        /\ gesture' = NoGesture
        /\ UNCHANGED <<pos, leftPressPos, focus, news, camera, last, saved, scene, locked>>
    BY DEF Release
  <1>2. events' \in 0 .. MaxEvents
    BY <1>1, EventsAreCounted
  <1>3. pickPending' = clicked'
    <2>1. CASE gesture = NoGesture
      BY <1>1, <2>1
    <2>2. CASE gesture # NoGesture
      <3>1. button = gesture.button
            /\ (button = "Left" => leftDragging = (gesture.turnedFrom # NoGesture))
        BY <1>1, <2>2 DEF InputInv, GestureTrue
      <3>2. Picks(button) <=> button = "Left" /\ gesture.turnedFrom = NoGesture
        BY <3>1 DEF Picks
      <3> QED BY <1>1, <2>2, <3>2 DEF InputInv, InputTypeOK
    <2> QED BY <2>1, <2>2
  <1>4. /\ leftDown' \in BOOLEAN /\ leftDragging' \in BOOLEAN
        /\ pickPending' \in BOOLEAN /\ clicked' \in BOOLEAN
        /\ held' \subseteq Buttons /\ dragging' \subseteq Buttons
    BY <1>1, <1>3 DEF InputInv, InputTypeOK, Picks, Ended
  <1> QED BY <1>1, <1>2, <1>3, <1>4 DEF InputInv, InputTypeOK, GestureTrue, FocusTrue,
          focus, news, scene

LEMMA UngrabKeeps ==
    ASSUME InputInv, Ungrab
    PROVE  InputInv'
  <1>1. events' \in 0 .. MaxEvents
    BY EventsAreCounted DEF Ungrab
  <1> QED BY <1>1 DEF Ungrab, InputInv, InputTypeOK, GestureTrue, FocusTrue,
          item, focus, pick, news, control, scene

LEMMA WheelKeeps ==
    ASSUME InputInv, NEW step \in Wheels, Wheel(step)
    PROVE  InputInv'
  <1>1. /\ Event /\ camera' = [camera EXCEPT !.distance = Clamped(@ - step)]
        /\ saved' = Notified(camera') /\ gesture' = NoGesture
        /\ UNCHANGED <<mouse, item, focus, pick, news, dragging, last, scene, locked>>
    BY DEF Wheel
  <1>2. camera' \in Views
    <2>1. camera \in Views /\ camera.distance - step \in Int
      BY InputAssumption, ViewIs DEF InputInv, InputTypeOK
    <2>2. Clamped(camera.distance - step) \in Near .. Far
      BY <2>1, ClampedIs
    <2>3. camera' = [camera EXCEPT !.distance = Clamped(camera.distance - step)]
      BY <1>1
    <2> QED BY <2>1, <2>2, <2>3 DEF Views
  <1>3. events' \in 0 .. MaxEvents
    BY <1>1, EventsAreCounted
  <1>4. saved' \in Views \cup {NoView}
    BY <1>1, <1>2 DEF Notified, InputInv, InputTypeOK
  <1>5. InputTypeOK'
    BY <1>1, <1>2, <1>3, <1>4 DEF InputInv, InputTypeOK,
       mouse, item, focus, pick, news, scene
  <1>6. GestureTrue'
    BY <1>1 DEF GestureTrue
  <1>7. FocusTrue' /\ pickPending' = clicked'
    BY <1>1 DEF InputInv, FocusTrue, focus, pick, news, scene
  <1> QED BY <1>5, <1>6, <1>7 DEF InputInv

(* The setters.                                                            *)
LEMMA SettersKeep ==
    ASSUME InputInv, SceneNext
    PROVE  InputInv'
  <1> DEFINE still == UNCHANGED <<mouse, item, pick, control, scene, locked, gesture>>
  <1>1. Event /\ still
    BY DEF SceneNext, SetOverlayRects, SetImageRotation, SetHeightfieldSource,
           FocusOverlayRect, news, focus
  <1>2. events' \in 0 .. MaxEvents
    BY <1>1, EventsAreCounted
  <1>3. /\ newRects' \in SUBSET RectLists /\ newRotation' \in SUBSET (0 .. 3)
        /\ source' \in MapSizes \cup {NoMap, NoFile}
        /\ focusPending' \in BOOLEAN /\ focusRectId' \in Int /\ askedLast' \in Int
        /\ (focusPending' => focusRectId' = askedLast')
    <2>1. CASE \E list \in RectLists : SetOverlayRects(list)
      BY <2>1 DEF SetOverlayRects, InputInv, InputTypeOK, FocusTrue, focus
    <2>2. CASE \E quarters \in 0 .. 3 : SetImageRotation(quarters)
      BY <2>2 DEF SetImageRotation, InputInv, InputTypeOK, FocusTrue, focus
    <2>3. CASE \E size \in MapSizes \cup {NoMap, NoFile} : SetHeightfieldSource(size)
      BY <2>3 DEF SetHeightfieldSource, InputInv, InputTypeOK, FocusTrue, focus
    <2>4. CASE \E id \in Int : FocusOverlayRect(id)
      BY <2>4 DEF FocusOverlayRect, InputInv, InputTypeOK, FocusTrue, news
    <2>5. ASSUME NEW list \in RectLists, NEW i \in DOMAIN list
          PROVE  list[i].id \in Int
      <3>1. list \in Seq(Rectangles)
        BY InputAssumption
      <3>2. list[i] \in Rectangles
        BY <3>1
      <3> QED BY <3>2 DEF Rectangles
    <2>6. -1 \in Int
      OBVIOUS
    <2>7. \/ \E list \in RectLists : SetOverlayRects(list)
          \/ \E quarters \in 0 .. 3 : SetImageRotation(quarters)
          \/ \E size \in MapSizes \cup {NoMap, NoFile} : SetHeightfieldSource(size)
          \/ \E id \in Int : FocusOverlayRect(id)
      <3>1. CASE \E list \in RectLists : \E i \in DOMAIN list : FocusOverlayRect(list[i].id)
        BY <2>5, <3>1
      <3>2. CASE FocusOverlayRect(-1)
        BY <2>6, <3>2
      <3> QED BY <3>1, <3>2, Zenon DEF SceneNext
    <2> QED BY <2>1, <2>2, <2>3, <2>4, <2>7
  <1>4. InputTypeOK'
    BY <1>1, <1>2, <1>3 DEF InputInv, InputTypeOK, mouse, item, pick, control, scene
  <1>5. GestureTrue'
    BY <1>1 DEF InputInv, GestureTrue, Expected, Strayed, mouse, item, control
  <1>6. FocusTrue' /\ pickPending' = clicked'
    BY <1>1, <1>3 DEF InputInv, FocusTrue, pick, scene
  <1> QED BY <1>4, <1>5, <1>6 DEF InputInv
-----------------------------------------------------------------------------
(* One frame: what it makes of the camera, and of a request to focus.      *)
LEMMA AnyOfIs ==
    ASSUME NEW T, NEW new \in SUBSET T, NEW old \in T
    PROVE  AnyOf(new, old) \in T
  BY DEF AnyOf

LEMMA FrameFocuses ==
    ASSUME InputInv, NEW ok \in BOOLEAN, NEW arrived \in MapSizes \cup {NoMap},
           NEW fit \in FitDistances, Frame(ok, arrived, fit)
    PROVE  /\ camera' \in Views
           /\ focusPending =>
                \/ focusPending' /\ focusRectId' = focusRectId
                \/ /\ ~focusPending' /\ map' # NoMap
                   /\ camera'.target = saved'.target /\ camera'.distance <= saved'.distance
                   /\ \E rect \in {rects'[i] : i \in DOMAIN rects'} :
                         /\ \E side \in NearestSides(rect, IF map = NoMap THEN map' ELSE map) :
                               LooksAlong(camera'.yaw, side, rotation')
                         /\ IF focusRectId = -1 THEN rect.id < 0
                            ELSE rect.id = focusRectId
                                 /\ Apart(camera'.yaw, saved'.yaw) <= Turn \div 4
  <1> DEFINE list     == AnyOf(newRects, rects)
             quarters == AnyOf(newRotation, rotation)
             reloads  == source # lastSource
             cleared  == reloads /\ source = NoMap
             shown    == IF cleared THEN NoMap ELSE map
             fitAsked == \/ ~cleared /\ autoFitPending
                         \/ reloads /\ ~cleared
                         \/ newRotation # {}
             focuses  == focusPending /\ CanFocus(focusRectId, list, shown)
             starts   == ok /\ ~sceneInited
             seen     == FocusedView(focusRectId, list, shown, quarters)
             view     == IF starts THEN Loaded(Config) ELSE IF focuses THEN seen ELSE camera
             arrives  == arrived # NoMap
             fits     == ok /\ fitAsked /\ mapState' = "ready"
  <1>1. /\ rects' = list /\ rotation' = quarters
        /\ map' = IF arrives THEN arrived ELSE shown
        /\ saved' = IF starts \/ focuses THEN Config ELSE saved
        /\ camera' = IF fits THEN Fitted(view, fit) ELSE view
        /\ focusPending' = (focusPending /\ ~focuses)
        /\ focusRectId' = IF focuses THEN -1 ELSE focusRectId
    BY DEF Frame
  <1>2. /\ saved \in Views \cup {NoView} /\ camera \in Views /\ focusRectId \in Int
        /\ map \in MapSizes \cup {NoMap} /\ focusPending \in BOOLEAN
        /\ newRects \in SUBSET RectLists /\ rects \in RectLists \cup {<<>>}
        /\ newRotation \in SUBSET (0 .. 3) /\ rotation \in 0 .. 3
        /\ (map # NoMap => sceneInited)
    BY DEF InputInv, InputTypeOK, FocusTrue
  <1>3. list \in Seq(Rectangles) /\ quarters \in 0 .. 3
    <2>1. newRects \in SUBSET Seq(Rectangles) /\ rects \in Seq(Rectangles)
      <3>1. RectLists \subseteq Seq(Rectangles) /\ <<>> \in Seq(Rectangles)
        BY InputAssumption
      <3> QED BY <1>2, <3>1, Zenon
    <2>2. list \in Seq(Rectangles)
      BY <2>1, AnyOfIs
    <2>3. quarters \in 0 .. 3
      BY <1>2, AnyOfIs
    <2> QED BY <2>2, <2>3
  <1>4. shown \in MapSizes \cup {NoMap} /\ (shown # NoMap => map' # NoMap /\ shown = map)
    BY <1>1, <1>2
  <1>5. Config \in Views /\ Loaded(Config) = Config
    BY <1>2, ConfigView, ViewLoads
  <1> HIDE DEF list, quarters, shown, fitAsked, seen, arrives, fits
  <1>6. CASE focuses
    <2>1. CanFocus(focusRectId, list, shown) /\ focusPending
      BY <1>6
    <2>2. shown # NoMap
      BY <2>1 DEF CanFocus
    <2>3. ~starts
      BY <1>2, <1>4, <2>2
    <2>4. /\ seen \in Views /\ seen.target = Config.target /\ seen.distance = Config.distance
          /\ \E rect \in {list[i] : i \in DOMAIN list} :
                 /\ \E side \in NearestSides(rect, shown) : LooksAlong(seen.yaw, side, quarters)
                 /\ IF focusRectId = -1 THEN rect.id < 0
                    ELSE rect.id = focusRectId /\ Apart(seen.yaw, Config.yaw) <= 2
      BY <1>2, <1>3, <1>4, <2>1, FocusedFaces DEF seen
    <2>5. view = seen /\ saved' = Config /\ ~focusPending'
      BY <1>1, <1>6, <2>3
    <2>6. /\ camera' \in Views /\ camera'.yaw = seen.yaw /\ camera'.target = seen.target
          /\ camera'.distance <= seen.distance
      <3>1. CASE fits
        <4>1. camera' = Fitted(seen, fit)
          BY <1>1, <2>5, <3>1
        <4> QED BY <2>4, <4>1, FittedView
      <3>2. CASE ~fits
        <4>1. camera' = seen
          BY <1>1, <2>5, <3>2
        <4> QED BY <2>4, <4>1, ViewIs
      <3> QED BY <3>1, <3>2
    <2>7. map' # NoMap /\ (IF map = NoMap THEN map' ELSE map) = shown
      BY <1>1, <1>4, <2>2
    <2>8. Turn \div 4 = 2
      BY DEF Turn
    <2> HIDE DEF view, starts
    <2>9. PICK rect \in {list[i] : i \in DOMAIN list} :
             /\ \E side \in NearestSides(rect, shown) : LooksAlong(seen.yaw, side, quarters)
             /\ IF focusRectId = -1 THEN rect.id < 0
                ELSE rect.id = focusRectId /\ Apart(seen.yaw, Config.yaw) <= 2
      BY <2>4
    <2>10. rect \in {rects'[i] : i \in DOMAIN rects'}
      BY <1>1, <2>9, Zenon
    <2>11. \E side \in NearestSides(rect, IF map = NoMap THEN map' ELSE map) :
              LooksAlong(camera'.yaw, side, rotation')
      BY <1>1, <2>6, <2>7, <2>9, Zenon
    <2>12. IF focusRectId = -1 THEN rect.id < 0
           ELSE rect.id = focusRectId /\ Apart(camera'.yaw, saved'.yaw) <= Turn \div 4
      BY <2>5, <2>6, <2>8, <2>9, Zenon
    <2>13. camera'.target = saved'.target /\ camera'.distance <= saved'.distance
      BY <2>4, <2>5, <2>6, Zenon
    <2> QED BY <2>5, <2>6, <2>7, <2>10, <2>11, <2>12, <2>13, Zenon
  <1>7. CASE ~focuses
    <2>1. view \in Views
      BY <1>2, <1>5, <1>7
    <2>2. camera' \in Views
      BY <1>1, <2>1, FittedView
    <2>3. focusPending => focusPending' /\ focusRectId' = focusRectId
      BY <1>1, <1>7
    <2> QED BY <2>2, <2>3, Zenon
  <1> QED BY <1>6, <1>7

LEMMA FrameKeeps ==
    ASSUME InputInv, NEW ok \in BOOLEAN, NEW arrived \in MapSizes \cup {NoMap},
           NEW fit \in FitDistances, Frame(ok, arrived, fit)
    PROVE  InputInv'
  <1> DEFINE reloads  == source # lastSource
             cleared  == reloads /\ source = NoMap
             shown    == IF cleared THEN NoMap ELSE map
             wanted   == IF reloads THEN Loading(source) ELSE loading
             state    == IF reloads THEN StateOfMap(source) ELSE mapState
             arrives  == arrived # NoMap
  <1>1. /\ arrives => ok /\ wanted[arrived] > 0
        /\ rects' = AnyOf(newRects, rects) /\ newRects' = {}
        /\ rotation' = AnyOf(newRotation, rotation) /\ newRotation' = {}
        /\ lastSource' = source
        /\ loading' = IF arrives THEN [wanted EXCEPT ![arrived] = @ - 1] ELSE wanted
        /\ map' = IF arrives THEN arrived ELSE shown
        /\ mapState' = IF arrives /\ state # "none" THEN "ready" ELSE state
        /\ sceneInited' = (sceneInited \/ ok)
        /\ saved' \in {Config, saved}
        /\ pickPending' = FALSE /\ clicked' = FALSE
        /\ gesture' = IF camera' = camera THEN gesture ELSE NoGesture
        /\ UNCHANGED <<mouse, item, askedLast, source, dragging, last, locked, events>>
    BY DEF Frame
  <1>2. /\ autoFitPending' \in BOOLEAN /\ focusPending' \in BOOLEAN
        /\ focusRectId' \in {-1, focusRectId} /\ (focusPending' => focusPending)
    BY DEF Frame, InputInv, InputTypeOK
  <1>3. /\ saved \in Views \cup {NoView} /\ camera \in Views
        /\ map \in MapSizes \cup {NoMap} /\ loading \in [MapSizes -> Nat]
        /\ mapState \in {"none", "loading", "ready"}
        /\ source \in MapSizes \cup {NoMap, NoFile}
        /\ newRects \in SUBSET RectLists /\ rects \in RectLists \cup {<<>>}
        /\ newRotation \in SUBSET (0 .. 3) /\ rotation \in 0 .. 3
        /\ ok \in BOOLEAN /\ sceneInited \in BOOLEAN
        /\ (map # NoMap => sceneInited)
        /\ focusRectId \in Int /\ (focusPending => focusRectId = askedLast)
        /\ gesture \in Gestures \cup {NoGesture}
    BY DEF InputInv, InputTypeOK, FocusTrue
  <1>4. /\ camera' \in Views
        /\ focusPending /\ focusPending' => focusRectId' = focusRectId
    BY FrameFocuses, Zenon
  <1>5. rects' \in RectLists \cup {<<>>} /\ rotation' \in 0 .. 3
    BY <1>1, <1>3 DEF AnyOf
  <1>6. saved' \in Views \cup {NoView}
    BY <1>1, <1>3, ConfigView
  <1>7. wanted \in [MapSizes -> Nat] /\ state \in {"none", "loading", "ready"}
    BY <1>3 DEF Loading, StateOfMap
  <1>8. /\ map' \in MapSizes \cup {NoMap} /\ loading' \in [MapSizes -> Nat]
        /\ mapState' \in {"none", "loading", "ready"}
    <2>1. ASSUME arrives PROVE loading' \in [MapSizes -> Nat]
      <3>1. arrived \in MapSizes /\ wanted[arrived] \in Nat /\ wanted[arrived] > 0
        BY <1>1, <1>7, <2>1
      <3> QED BY <1>1, <1>7, <2>1, <3>1
    <2> QED BY <1>1, <1>3, <1>7, <2>1
  <1>9. InputTypeOK'
    <2>1. -1 \in Int /\ gesture' \in Gestures \cup {NoGesture} /\ sceneInited' \in BOOLEAN
      BY <1>1, <1>3
    <2> QED BY <1>1, <1>2, <1>3, <1>4, <1>5, <1>6, <1>8, <2>1
            DEF InputInv, InputTypeOK, mouse, item
  <1>10. GestureTrue'
    <2>1. CASE camera' = camera
      BY <1>1, <2>1 DEF InputInv, GestureTrue, Expected, mouse, item
    <2>2. CASE camera' # camera
      BY <1>1, <2>2 DEF GestureTrue
    <2> QED BY <2>1, <2>2
  <1>11. FocusTrue'
    <2>1. focusPending' => focusRectId' = askedLast'
      BY <1>1, <1>2, <1>3, <1>4
    <2>2. map' # NoMap => sceneInited'
      BY <1>1, <1>3
    <2> QED BY <2>1, <2>2 DEF FocusTrue
  <1> QED BY <1>1, <1>9, <1>10, <1>11 DEF InputInv
-----------------------------------------------------------------------------
LEMMA InputStarts == InputInit => InputInv
  <1> SUFFICES ASSUME InputInit PROVE InputInv
    OBVIOUS
  <1>1. camera \in Views
    <2>1. 0 \in 0 .. 7 /\ 0 \in Int /\ 3 \in Near .. Far
      BY InputAssumption
    <2> QED BY <2>1, ViewMade DEF InputInit
  <1>2. /\ last \in [Buttons -> Positions] /\ -1 \in Int /\ events \in 0 .. MaxEvents
        /\ pos \in Positions /\ held = {}
    BY InputAssumption DEF InputInit
  <1>3. InputTypeOK
    <2>1. /\ held \subseteq Buttons /\ dragging \subseteq Buttons
          /\ leftPressPos \in Positions /\ focusRectId \in Int /\ askedLast \in Int
          /\ newRects \in SUBSET RectLists /\ newRotation \in SUBSET (0 .. 3)
          /\ rotation \in 0 .. 3
      BY <1>2 DEF InputInit
    <2> QED BY <1>1, <1>2, <2>1 DEF InputInit, InputTypeOK
  <1> QED BY <1>3 DEF InputInit, InputInv, GestureTrue, FocusTrue

LEMMA InputStep == InputInv /\ [InputNext]_input => InputInv'
  <1> SUFFICES ASSUME InputInv, [InputNext]_input PROVE InputInv'
    OBVIOUS
  <1>1. CASE MouseNext
    BY <1>1, PressKeeps, ReleaseKeeps, DragKeeps, HoverKeeps, UngrabKeeps, WheelKeeps
       DEF MouseNext
  <1>2. CASE SceneNext
    BY <1>2, SettersKeep
  <1>3. CASE \E ok \in BOOLEAN, arrived \in MapSizes \cup {NoMap}, fit \in FitDistances :
                Frame(ok, arrived, fit)
    BY <1>3, FrameKeeps
  <1>4. CASE UNCHANGED input
    <2>1. UNCHANGED <<pos, held, leftDown, leftDragging, leftPressPos, focusPending,
                      focusRectId, askedLast, pickPending, clicked, newRects, newRotation,
                      source, camera, dragging, last, saved>>
      BY <1>4 DEF input, mouse, item, focus, pick, news, control
    <2>2. UNCHANGED <<sceneInited, autoFitPending, lastSource, rects, rotation, loading,
                      mapState, map, locked, events, gesture>>
      BY <1>4 DEF input, scene
    <2> QED BY <2>1, <2>2 DEF InputInv, InputTypeOK, GestureTrue, FocusTrue, Expected
  <1> QED BY <1>1, <1>2, <1>3, <1>4 DEF InputNext

(* The view has moved by exactly as far as the pointer, and a click within *)
(* the slack, and nothing else, picks a rectangle: through interleaved     *)
(* presses, releases, moves, wheel steps, setters and frames, a press cut  *)
(* off by the window, and any slack and limits of the distance.            *)
THEOREM GesturesMoveTheView == InputSpec => []GesturesKept
  <1>1. InputInv => GesturesKept
    BY DEF InputInv, GestureTrue, GesturesKept
  <1> QED BY <1>1, InputStarts, InputStep, PTL DEF InputSpec

(* A request to focus is lost to another only, and when a frame grants it  *)
(* the camera looks at a side nearest to the rectangle: for any rectangles,*)
(* maps, rotations, and any distance that fits.                            *)
THEOREM FocusIsGranted == InputSpec => FocusKept
  <1> DEFINE granted ==
         /\ map' # NoMap
         /\ camera'.target = saved'.target /\ camera'.distance <= saved'.distance
         /\ \E rect \in {rects'[i] : i \in DOMAIN rects'} :
               /\ \E side \in NearestSides(rect, IF map = NoMap THEN map' ELSE map) :
                     LooksAlong(camera'.yaw, side, rotation')
               /\ IF askedLast = -1 THEN rect.id < 0
                  ELSE rect.id = askedLast
                       /\ Apart(camera'.yaw, saved'.yaw) <= Turn \div 4
             kept == focusPending => focusRectId = askedLast /\ (focusPending' \/ granted)
  <1>1. InputInv /\ [InputNext]_input => [kept]_input
    <2> SUFFICES ASSUME InputInv, InputNext, focusPending
                 PROVE  focusRectId = askedLast /\ (focusPending' \/ granted)
      OBVIOUS
    <2>1. focusRectId = askedLast
      BY DEF InputInv, FocusTrue
    <2>2. CASE MouseNext
      BY <2>1, <2>2 DEF MouseNext, Press, Release, Drag, Hover, Ungrab, Wheel, focus
    <2>3. CASE SceneNext
      BY <2>1, <2>3 DEF SceneNext, SetOverlayRects, SetImageRotation,
         SetHeightfieldSource, FocusOverlayRect, focus
    <2>4. CASE \E ok \in BOOLEAN, arrived \in MapSizes \cup {NoMap}, fit \in FitDistances :
                Frame(ok, arrived, fit)
      BY <2>1, <2>4, FrameFocuses, Zenon
    <2> QED BY <2>2, <2>3, <2>4 DEF InputNext
  <1> QED BY <1>1, InputStarts, InputStep, PTL DEF InputSpec, FocusKept
-----------------------------------------------------------------------------
(* What a click finds.  The bounds of a rectangle are in order, so the     *)
(* area of one that is not degenerate is positive.                         *)
LEMMA BoundsInOrder ==
    ASSUME NEW rect \in Rectangles, NEW size \in Sizes, NEW axis \in Axes
    PROVE  Bounds(rect, size, axis).lo <= Bounds(rect, size, axis).hi
  <1> DEFINE b == Bounds(rect, size, axis)
  <1>1. \A x, y \in Int : Ordered(x, y).lo <= Ordered(x, y).hi
    BY DEF Ordered
  <1>2. \E x, y : b = Ordered(x, y)
    <2>1. rect.coordType \in {"TopLeftPixels", "NormalizedCenter", "PixelCenter"}
      BY DEF Rectangles
    <2>2. CASE rect.coordType = "TopLeftPixels"
      BY <2>2 DEF Bounds
    <2>3. CASE rect.coordType = "NormalizedCenter"
      BY <2>3 DEF Bounds, Around
    <2>4. CASE rect.coordType = "PixelCenter"
      BY <2>4 DEF Bounds, Around
    <2> QED
      BY <2>1, <2>2, <2>3, <2>4
  <1>3. PICK x, y : b = Ordered(x, y)
    BY <1>2
  <1>4. b.lo \in Int /\ b.hi \in Int
    BY BoundsAreNumbers
  <1> HIDE DEF b
  <1>5. (b.lo = x /\ b.hi = y /\ x <= y) \/ (b.lo = y /\ b.hi = x /\ ~(x <= y))
    BY <1>3 DEF Ordered
  <1>6. b.lo <= b.hi
    BY <1>4, <1>5
  <1> QED
    BY <1>6 DEF b

LEMMA SameSign ==
    ASSUME NEW k \in Int, k > 0, NEW y \in Int
    PROVE  k * y \in Int /\ (k * y >= 0 <=> y >= 0)
  <1>1. CASE y >= 0
    BY <1>1
  <1>2. CASE y < 0
    BY <1>2
  <1> QED
    BY <1>1, <1>2

(* The test of pointInQuad2D divides by nothing: what it compares are      *)
(* products with the area.                                                 *)
LEMMA ScaledWithin ==
    ASSUME NEW e \in Int, NEW f \in Int, f > 0, NEW x \in Int
    PROVE  /\ x * (2 * f) \in Int /\ (2 * e) * (2 * f) \in Int
           /\ x * (2 * f) \in 0 .. (2 * e) * (2 * f) <=> x \in 0 .. 2 * e
  <1> DEFINE k == 2 * f
             r == 2 * e - x
  <1>1. k \in Int /\ k > 0 /\ r \in Int
    OBVIOUS
  <1>2. k * x = x * (2 * f) /\ k * r = (2 * e) * (2 * f) - x * (2 * f)
    OBVIOUS
  <1>3. k * x \in Int /\ (k * x >= 0 <=> x >= 0) /\ k * r \in Int /\ (k * r >= 0 <=> r >= 0)
    BY <1>1, SameSign
  <1>4. (r >= 0 <=> x <= 2 * e) /\ x * (2 * f) \in Int /\ (2 * e) * (2 * f) \in Int
    OBVIOUS
  <1> HIDE DEF k
  <1> DEFINE a == x * (2 * f)
             d == (2 * e) * (2 * f)
  <1>5. a \in Int /\ d \in Int /\ (a >= 0 <=> x >= 0) /\ (d - a >= 0 <=> x <= 2 * e)
    BY <1>2, <1>3, <1>4
  <1> HIDE DEF a, d
  <1>6. a \in 0 .. d <=> x \in 0 .. 2 * e
    BY <1>5
  <1> QED
    BY <1>5, <1>6 DEF a, d

(* The quad that is made of a rectangle is the part of the plane that the  *)
(* rectangle covers.                                                       *)
LEMMA QuadCovers ==
    ASSUME NEW rect \in Rectangles, NEW size \in Sizes, ~Degenerate(rect, size),
           NEW p \in [Axes -> Int]
    PROVE  PointInQuad(p, Quad(rect, size)) <=> Covers(rect, size, p)
  <1> DEFINE bx == Bounds(rect, size, 1)
             by == Bounds(rect, size, 2)
             e  == bx.hi - bx.lo
             f  == by.hi - by.lo
             c  == bx.lo + bx.hi
             d  == by.lo + by.hi
             sw == Pixel * size[1]
             sh == Pixel * size[2]
             x  == p[1] + sw - c
             y  == p[2] + sh - d
             q  == Quad(rect, size)
  <1>1. 1 \in Axes /\ 2 \in Axes /\ \A axis \in Axes : axis = 1 \/ axis = 2
    BY DEF Axes
  <1>2. /\ bx.lo \in Int /\ bx.hi \in Int /\ bx.lo <= bx.hi
        /\ by.lo \in Int /\ by.hi \in Int /\ by.lo <= by.hi
    BY <1>1, BoundsAreNumbers, BoundsInOrder
  <1>3. bx.lo # bx.hi /\ by.lo # by.hi
    BY <1>1 DEF Degenerate
  <1>4. p[1] \in Int /\ p[2] \in Int /\ sw \in Int /\ sh \in Int
    <2>1. Pixel \in Int /\ size[1] \in Int /\ size[2] \in Int
      BY <1>1, GeometryAssumption DEF Pixel, Sizes
    <2> QED
      BY <1>1, <2>1
  <1>5. rect.turns \in {0, 1}
    BY DEF Rectangles
  <1>6. /\ q.corner[1] = (c - sw) - (q.u[1] + q.v[1]) \div 2
        /\ q.corner[2] = (d - sh) - (q.u[2] + q.v[2]) \div 2
        /\ q.u = Turned(<<2 * e, 0>>, rect) /\ q.v = Turned(<<0, 2 * f>>, rect)
    <2> DEFINE u == Turned(<<2 * e, 0>>, rect)
               v == Turned(<<0, 2 * f>>, rect)
               m == [axis \in Axes |-> Bounds(rect, size, axis).lo + Bounds(rect, size, axis).hi
                                          - Pixel * size[axis]]
    <2>1. q = [id |-> rect.id, u |-> u, v |-> v,
               corner |-> [axis \in Axes |-> m[axis] - (u[axis] + v[axis]) \div 2]]
      BY Zenon DEF Quad
    <2>2. m[1] = c - sw /\ m[2] = d - sh
      <3>1. /\ m[1] = bx.lo + bx.hi - sw /\ m[2] = by.lo + by.hi - sh
        BY <1>1, Zenon
      <3> HIDE DEF m, bx, by
      <3> QED
        BY <1>2, <1>4, <3>1
    <2> HIDE DEF q, u, v, m, c, d, sw, sh
    <2>3. /\ q.u = u /\ q.v = v
          /\ q.corner[1] = m[1] - (u[1] + v[1]) \div 2
          /\ q.corner[2] = m[2] - (u[2] + v[2]) \div 2
      BY <1>1, <2>1
    <2> QED
      BY <2>2, <2>3 DEF u, v
  <1>7. Covers(rect, size, p) <=>
          /\ p[1] + sw \in (c - (IF rect.turns = 1 THEN f ELSE e)) .. (c + (IF rect.turns = 1 THEN f ELSE e))
          /\ p[2] + sh \in (d - (IF rect.turns = 1 THEN e ELSE f)) .. (d + (IF rect.turns = 1 THEN e ELSE f))
    <2>1. CASE rect.turns = 1
      <3>1. 3 - 1 = 2 /\ 3 - 2 = 1
        OBVIOUS
      <3> QED
        BY <2>1, <3>1, <1>1 DEF Covers
    <2>2. CASE rect.turns # 1
      BY <2>2, <1>1 DEF Covers
    <2> QED
      BY <2>1, <2>2
  <1> HIDE DEF bx, by
  <1>8. e \in Int /\ f \in Int /\ e > 0 /\ f > 0 /\ c \in Int /\ d \in Int
    BY <1>2, <1>3
  <1> HIDE DEF e, f, c, d, sw, sh, q
  <1>9. x \in Int /\ y \in Int
    BY <1>4, <1>8
  <1> DEFINE w     == <<p[1] - q.corner[1], p[2] - q.corner[2]>>
             denom == q.u[1] * q.v[2] - q.u[2] * q.v[1]
             s     == w[1] * q.v[2] - w[2] * q.v[1]
             t     == q.u[1] * w[2] - q.u[2] * w[1]
  <1>10. PointInQuad(p, q) <=> denom # 0 /\ s \in 0 .. denom /\ t \in 0 .. denom
    BY DEF PointInQuad
  <1>11. CASE rect.turns = 0
    <2>1. q.u = <<2 * e, 0>> /\ q.v = <<0, 2 * f>>
      BY <1>6, <1>11 DEF Turned
    <2>2. q.u[1] = 2 * e /\ q.u[2] = 0 /\ q.v[1] = 0 /\ q.v[2] = 2 * f
      BY <2>1
    <2>3. w[1] = x + e /\ w[2] = y + f
      BY <1>4, <1>6, <1>8, <2>2
    <2> HIDE DEF w, x, y
    <2>4. denom = (2 * e) * (2 * f) /\ s = (x + e) * (2 * f) /\ t = (2 * e) * (y + f)
      BY <1>8, <1>9, <2>2, <2>3
    <2>5. t = (y + f) * (2 * e) /\ (2 * f) * (2 * e) = denom
      BY <1>8, <1>9, <2>4
    <2>6. denom > 0
      BY <1>8, <2>4
    <2>7. (s \in 0 .. denom <=> x + e \in 0 .. 2 * e) /\ (t \in 0 .. denom <=> y + f \in 0 .. 2 * f)
      <3>1. x + e \in Int /\ y + f \in Int
        BY <1>8, <1>9
      <3>2. (x + e) * (2 * f) \in 0 .. (2 * e) * (2 * f) <=> x + e \in 0 .. 2 * e
        BY <1>8, <3>1, ScaledWithin
      <3>3. (y + f) * (2 * e) \in 0 .. (2 * f) * (2 * e) <=> y + f \in 0 .. 2 * f
        BY <1>8, <3>1, ScaledWithin
      <3> HIDE DEF s, t, denom
      <3> QED
        BY <2>4, <2>5, <3>2, <3>3
    <2>8. (x + e \in 0 .. 2 * e <=> p[1] + sw \in (c - e) .. (c + e))
          /\ (y + f \in 0 .. 2 * f <=> p[2] + sh \in (d - f) .. (d + f))
      BY <1>4, <1>8 DEF x, y
    <2> HIDE DEF s, t, denom
    <2>9. 0 # 1 /\ denom # 0
      <3>1. denom \in Int
        BY <1>8, <2>4
      <3> QED BY <2>6, <3>1
    <2> QED
      BY <1>7, <1>10, <1>11, <2>7, <2>8, <2>9 DEF q
  <1>12. CASE rect.turns = 1
    <2>1. q.u = <<-0, 2 * e>> /\ q.v = <<-(2 * f), 0>>
      BY <1>6, <1>12 DEF Turned, QuarterTurned
    <2>2. q.u[1] = 0 /\ q.u[2] = 2 * e /\ q.v[1] = -(2 * f) /\ q.v[2] = 0
      <3>1. -0 = 0
        <4>1. \A n \in Int : -n = 0 - n
          OBVIOUS
        <4>2. 0 \in Int /\ 0 - 0 = 0
          OBVIOUS
        <4>3. -0 = 0 - 0
          BY <4>1, <4>2, Zenon
        <4> QED
          BY <4>2, <4>3, Zenon
      <3>2. q.u[1] = -0 /\ q.u[2] = 2 * e /\ q.v[1] = -(2 * f) /\ q.v[2] = 0
        BY <2>1
      <3> QED
        BY <3>1, <3>2
    <2>3. w[1] = x - f /\ w[2] = y + e
      BY <1>4, <1>6, <1>8, <2>2
    <2> HIDE DEF w, x, y
    <2>4. denom = (2 * e) * (2 * f) /\ s = (y + e) * (2 * f) /\ t = (f - x) * (2 * e)
      BY <1>8, <1>9, <2>2, <2>3
    <2>5. (2 * f) * (2 * e) = denom
      BY <1>8, <1>9, <2>4
    <2>6. denom > 0
      BY <1>8, <2>4
    <2>7. (s \in 0 .. denom <=> y + e \in 0 .. 2 * e) /\ (t \in 0 .. denom <=> f - x \in 0 .. 2 * f)
      <3>1. y + e \in Int /\ f - x \in Int
        BY <1>8, <1>9
      <3>2. (y + e) * (2 * f) \in 0 .. (2 * e) * (2 * f) <=> y + e \in 0 .. 2 * e
        BY <1>8, <3>1, ScaledWithin
      <3>3. (f - x) * (2 * e) \in 0 .. (2 * f) * (2 * e) <=> f - x \in 0 .. 2 * f
        BY <1>8, <3>1, ScaledWithin
      <3> HIDE DEF s, t, denom
      <3> QED
        BY <2>4, <2>5, <3>2, <3>3
    <2>8. (f - x \in 0 .. 2 * f <=> p[1] + sw \in (c - f) .. (c + f))
          /\ (y + e \in 0 .. 2 * e <=> p[2] + sh \in (d - e) .. (d + e))
      BY <1>4, <1>8 DEF x, y
    <2> HIDE DEF s, t, denom
    <2>9. denom # 0
      <3>1. denom \in Int
        BY <1>8, <2>4
      <3> QED BY <2>6, <3>1
    <2> QED
      BY <1>7, <1>10, <1>12, <2>7, <2>8, <2>9 DEF q
  <1> QED
    BY <1>5, <1>11, <1>12

(* The loop over the quads: after n of them it has the first of those that *)
(* the ray meets nearest, or 0.                                            *)
MetAmong(quads, heights, ray, n) == {i \in 1 .. n : Meets(ray, quads[i], heights[i])}

Before(heights, ray, i, j) ==
    \/ Reach(ray, heights[i]) < Reach(ray, heights[j])
    \/ Reach(ray, heights[i]) = Reach(ray, heights[j]) /\ i <= j

NearestOf(quads, heights, ray, n, i) ==
    LET met == MetAmong(quads, heights, ray, n) IN
    IF met = {} THEN i = 0 ELSE i \in met /\ \A j \in met : Before(heights, ray, i, j)

LEMMA NearestOnly ==
    ASSUME NEW quads, NEW heights, NEW ray, NEW n \in Nat,
           \A i \in MetAmong(quads, heights, ray, n) : Reach(ray, heights[i]) \in Int,
           NEW i, NearestOf(quads, heights, ray, n, i),
           NEW j, NearestOf(quads, heights, ray, n, j)
    PROVE  i = j
  <1> DEFINE met == MetAmong(quads, heights, ray, n)
  <1>1. \A k \in met : k \in Int /\ Reach(ray, heights[k]) \in Int
    BY DEF MetAmong
  <1>2. /\ met = {} => i = 0 /\ j = 0
        /\ met # {} => /\ i \in met /\ \A k \in met : Before(heights, ray, i, k)
                       /\ j \in met /\ \A k \in met : Before(heights, ray, j, k)
    BY Zenon DEF NearestOf
  <1> HIDE DEF met
  <1>3. CASE met = {}
    BY <1>2, <1>3
  <1>4. CASE met # {}
    <2>1. i \in met /\ j \in met /\ Before(heights, ray, i, j) /\ Before(heights, ray, j, i)
      BY <1>2, <1>4
    <2> QED
      BY <1>1, <2>1 DEF Before
  <1> QED
    BY <1>3, <1>4

LEMMA NearerIsNearest ==
    ASSUME NEW quads, NEW heights, NEW ray, NEW n \in Nat \ {0},
           \A i \in MetAmong(quads, heights, ray, n) : Reach(ray, heights[i]) \in Int,
           NEW i, NearestOf(quads, heights, ray, n - 1, i)
    PROVE  NearestOf(quads, heights, ray, n, Nearer(quads, heights, ray, n, i))
  <1> DEFINE old == MetAmong(quads, heights, ray, n - 1)
             all == MetAmong(quads, heights, ray, n)
             k   == Nearer(quads, heights, ray, n, i)
             meets == Meets(ray, quads[n], heights[n])
  <1>1. /\ all = IF meets THEN old \cup {n} ELSE old
        /\ \A j \in all : j \in Int /\ Reach(ray, heights[j]) \in Int
        /\ \A j \in old : j < n /\ j # 0
    <2>1. 1 .. n = (1 .. n - 1) \cup {n}
      OBVIOUS
    <2>2. all = IF meets THEN old \cup {n} ELSE old
      BY <2>1 DEF MetAmong
    <2>3. \A j \in all : j \in Int
      BY DEF MetAmong
    <2>4. \A j \in old : j < n /\ j # 0
      BY DEF MetAmong
    <2> QED
      BY <2>2, <2>3, <2>4
  <1>2. k = IF meets /\ (i = 0 \/ Reach(ray, heights[n]) < Reach(ray, heights[i]))
            THEN n ELSE i
    BY DEF Nearer
  <1>3. IF old = {} THEN i = 0 ELSE i \in old /\ \A j \in old : Before(heights, ray, i, j)
    BY Zenon DEF NearestOf
  <1> HIDE DEF old, all, k, meets
  <1>4. IF all = {} THEN k = 0 ELSE k \in all /\ \A j \in all : Before(heights, ray, k, j)
    <2>1. CASE old = {}
      <3>1. CASE meets
        <4>1. all = {n} /\ k = n
          BY <1>1, <1>2, <1>3, <2>1, <3>1
        <4> QED
          BY <1>1, <4>1 DEF Before
      <3>2. CASE ~meets
        BY <1>1, <1>2, <1>3, <2>1, <3>2
      <3> QED
        BY <3>1, <3>2
    <2>2. CASE old # {}
      <3>1. i \in old /\ \A j \in old : Before(heights, ray, i, j)
        BY <1>3, <2>2
      <3>2. i \in all /\ i # 0 /\ i < n /\ i \in Int /\ Reach(ray, heights[i]) \in Int
        BY <1>1, <3>1
      <3>3. k \in all
        BY <1>1, <1>2, <3>2
      <3>4. ASSUME NEW j \in all PROVE Before(heights, ray, k, j)
        <4>1. j \in Int /\ Reach(ray, heights[j]) \in Int /\ (j \in old \/ (j = n /\ meets))
          BY <1>1
        <4>2. meets => n \in Int /\ Reach(ray, heights[n]) \in Int
          BY <1>1
        <4>3. CASE j \in old
          <5>1. Before(heights, ray, i, j)
            BY <3>1, <4>3
          <5> QED
            BY <1>2, <3>2, <4>1, <4>2, <5>1 DEF Before
        <4>4. CASE j = n /\ meets
          BY <1>2, <3>2, <4>1, <4>2, <4>4 DEF Before
        <4> QED
          BY <4>1, <4>3, <4>4
      <3> QED
        BY <3>2, <3>3, <3>4
    <2> QED
      BY <2>1, <2>2
  <1> QED
    BY <1>4, Zenon DEF NearestOf, all, k

(* There is a function that the recurrence of the loop defines: it chooses *)
(* what NearestOf says, which by the lemmas above there is, and but once.  *)
LEMMA NearestMetIs ==
    ASSUME NEW quads, NEW heights, NEW ray, Len(quads) \in Nat,
           \A i \in MetAmong(quads, heights, ray, Len(quads)) : Reach(ray, heights[i]) \in Int
    PROVE  NearestOf(quads, heights, ray, Len(quads), NearestMet(quads, heights, ray))
  <1> DEFINE N == Len(quads)
             Is(n, i) == NearestOf(quads, heights, ray, n, i)
             Next(n, i) == Nearer(quads, heights, ray, n, i)
             Loop(h) == [n \in 0 .. N |-> IF n = 0 THEN 0 ELSE Next(n, h[n - 1])]
             Chosen(n) == CHOOSE i : Is(n, i)
             g == [n \in 0 .. N |-> Chosen(n)]
             f == CHOOSE h : h = Loop(h)
             S == {n \in 0 .. N : \E i : Is(n, i)}
             T == {n \in 0 .. N : Is(n, f[n])}
  <1>1. N \in Nat
    OBVIOUS
  <1>2. ASSUME NEW n \in 0 .. N
        PROVE  \A i \in MetAmong(quads, heights, ray, n) : Reach(ray, heights[i]) \in Int
    <2>1. MetAmong(quads, heights, ray, n) \subseteq MetAmong(quads, heights, ray, N)
      BY <1>1 DEF MetAmong
    <2> QED
      BY <2>1
  <1>3. Is(0, 0)
    <2>1. MetAmong(quads, heights, ray, 0) = {}
      BY DEF MetAmong
    <2> QED
      BY <2>1 DEF NearestOf
  <1>4. ASSUME NEW n \in 0 .. N, NEW i, Is(n, i), NEW j, Is(n, j) PROVE i = j
    <2>1. n \in Nat
      BY <1>1
    <2> QED
      BY <1>2, <1>4, <2>1, NearestOnly
  <1>5. ASSUME NEW n \in 1 .. N, NEW i, Is(n - 1, i) PROVE Is(n, Next(n, i))
    <2>1. n \in Nat \ {0} /\ n \in 0 .. N
      BY <1>1
    <2>2. \A j \in MetAmong(quads, heights, ray, n) : Reach(ray, heights[j]) \in Int
      BY <1>2, <2>1
    <2> QED
      BY <1>5, <2>1, <2>2, NearerIsNearest
  <1>6. NearestMet(quads, heights, ray) = f[N]
    BY Zenon DEF NearestMet
  <1> HIDE DEF Is, Next, N
  <1>7. 0 .. N \subseteq S
    <2>1. 0 \in S
      BY <1>1, <1>3
    <2>2. ASSUME NEW k \in 0 .. N - 1, k \in S PROVE k + 1 \in S
      <3>1. k + 1 \in 1 .. N /\ k + 1 \in 0 .. N /\ (k + 1) - 1 = k
        BY <1>1
      <3>2. PICK i : Is(k, i)
        BY <2>2
      <3>3. Is(k + 1, Next(k + 1, i))
        BY <1>5, <3>1, <3>2
      <3> QED
        BY <3>1, <3>3
    <2> HIDE DEF S
    <2> QED
      BY <1>1, <2>1, <2>2, CountUp
  <1>8. ASSUME NEW n \in 0 .. N PROVE Is(n, g[n])
    <2>1. \E i : Is(n, i)
      BY <1>7
    <2> QED
      BY <2>1
  <1> HIDE DEF Chosen
  <1>9. g = Loop(g)
    <2>1. g = [n \in 0 .. N |-> g[n]]
      BY Zenon
    <2> HIDE DEF g
    <2>2. ASSUME NEW n \in 0 .. N
          PROVE  g[n] = IF n = 0 THEN 0 ELSE Next(n, g[n - 1])
      <3>1. CASE n = 0
        <4>1. Is(0, g[0]) /\ 0 \in 0 .. N
          BY <1>8, <3>1
        <4>2. g[0] = 0
          BY <1>3, <1>4, <4>1
        <4> QED
          BY <3>1, <4>2
      <3>2. CASE n # 0
        <4>1. n \in 1 .. N /\ n - 1 \in 0 .. N
          BY <1>1, <3>2
        <4>2. Is(n - 1, g[n - 1])
          BY <1>8, <4>1
        <4>3. Is(n, Next(n, g[n - 1])) /\ Is(n, g[n])
          BY <1>5, <1>8, <4>1, <4>2
        <4>4. g[n] = Next(n, g[n - 1])
          BY <1>4, <4>3
        <4> QED
          BY <3>2, <4>4
      <3> QED
        BY <3>1, <3>2
    <2> QED
      BY <2>1, <2>2
  <1>10. f = Loop(f)
    <2> HIDE DEF g, Loop
    <2>1. \E h : h = Loop(h)
      BY <1>9
    <2> QED
      BY <2>1
  <1>11. 0 .. N \subseteq T
    <2> HIDE DEF f
    <2>1. 0 \in T
      <3>1. f[0] = 0 /\ 0 \in 0 .. N
        BY <1>1, <1>10
      <3> QED
        BY <1>3, <3>1
    <2>2. ASSUME NEW k \in 0 .. N - 1, k \in T PROVE k + 1 \in T
      <3>1. k + 1 \in 1 .. N /\ k + 1 \in 0 .. N /\ k + 1 # 0 /\ (k + 1) - 1 = k
        BY <1>1
      <3>2. f[k + 1] = Next(k + 1, f[k])
        BY <1>10, <3>1
      <3>3. Is(k + 1, Next(k + 1, f[k]))
        BY <1>5, <2>2, <3>1
      <3> QED
        BY <3>1, <3>2, <3>3
    <2> HIDE DEF T
    <2> QED
      BY <1>1, <2>1, <2>2, CountUp
  <1>12. Is(N, f[N])
    BY <1>1, <1>11
  <1> QED
    BY <1>6, <1>12, Zenon DEF Is, N

(* The rectangles that a click may find, and the quads made of them.       *)
LEMMA ShownIs ==
    ASSUME NEW given \in Seq(Rectangles), NEW size \in Sizes
    PROVE  /\ Shown(given, size) \in Seq(Rectangles)
           /\ \A i \in 1 .. Len(Shown(given, size)) :
                 Shown(given, size)[i] \in Rectangles /\ ~Degenerate(Shown(given, size)[i], size)
  <1> DEFINE I == {i \in DOMAIN given : ~Degenerate(given[i], size)}
             s == Shown(given, size)
  <1>1. s = Subsequence(given, I)
    BY DEF Shown
  <1>2. I \subseteq DOMAIN given /\ \A i \in I : ~Degenerate(given[i], size)
    OBVIOUS
  <1> HIDE DEF I, s
  <1>3. s \in Seq(Rectangles) /\ Keeps(s, given, I)
    BY <1>1, <1>2, SubsequenceKeeps
  <1>4. ASSUME NEW i \in 1 .. Len(s) PROVE s[i] \in Rectangles /\ ~Degenerate(s[i], size)
    BY <1>2, <1>3 DEF Keeps
  <1> QED
    BY <1>3, <1>4 DEF s

LEMMA QuadsAre ==
    ASSUME NEW given \in Seq(Rectangles), NEW size \in Sizes
    PROVE  /\ Len(Quads(given, size)) = Len(Shown(given, size))
           /\ \A i \in 1 .. Len(Shown(given, size)) :
                 /\ Quads(given, size)[i].id = Shown(given, size)[i].id
                 /\ \A p \in [Axes -> Int] :
                       PointInQuad(p, Quads(given, size)[i])
                          <=> Covers(Shown(given, size)[i], size, p)
  <1> DEFINE shown == Shown(given, size)
             quads == Quads(given, size)
  <1>1. /\ shown \in Seq(Rectangles)
        /\ \A i \in 1 .. Len(shown) : shown[i] \in Rectangles /\ ~Degenerate(shown[i], size)
    BY ShownIs
  <1>2. quads = [i \in 1 .. Len(shown) |-> Quad(shown[i], size)]
    BY Zenon DEF Quads
  <1> HIDE DEF shown, quads
  <1>3. Len(shown) \in Nat
    BY <1>1
  <1>4. Len(quads) = Len(shown)
    BY <1>2, <1>3
  <1>5. ASSUME NEW i \in 1 .. Len(shown)
        PROVE  /\ quads[i].id = shown[i].id
               /\ \A p \in [Axes -> Int] : PointInQuad(p, quads[i]) <=> Covers(shown[i], size, p)
    <2>1. quads[i] = Quad(shown[i], size) /\ shown[i] \in Rectangles /\ ~Degenerate(shown[i], size)
      BY <1>1, <1>2
    <2>2. Quad(shown[i], size).id = shown[i].id
      BY DEF Quad
    <2>3. \A p \in [Axes -> Int] : PointInQuad(p, Quad(shown[i], size)) <=> Covers(shown[i], size, p)
      BY <2>1, QuadCovers
    <2> QED
      BY <2>1, <2>2, <2>3
  <1> QED
    BY <1>4, <1>5 DEF shown, quads

(* A ray meets a quad exactly if it is not behind the camera and points at *)
(* the rectangle.                                                          *)
LEMMA ReachesNumber ==
    ASSUME NEW ray \in [origin : [Axes -> Int], along : [Axes -> Int],
                        height : Int, up : {-1, 1}],
           NEW h \in Int
    PROVE  Reach(ray, h) \in Int /\ At(ray, Reach(ray, h)) \in [Axes -> Int]
  <1>1. Reach(ray, h) \in Int
    BY DEF Reach
  <1> DEFINE t == Reach(ray, h)
  <1> HIDE DEF t
  <1>2. t \in Int
    BY <1>1 DEF t
  <1>3. ASSUME NEW axis \in Axes PROVE ray.origin[axis] + t * ray.along[axis] \in Int
    BY <1>2
  <1>4. At(ray, t) \in [Axes -> Int]
    BY <1>3 DEF At
  <1> QED
    BY <1>1, <1>4 DEF t

(* The invariant: sights are what clicks may see, and the answer is right. *)
PickSpec == PickInit /\ [][PickOverlayRect]_<<sight, picked>>

PickInv == sight \in Sights /\ PickedIsNearest

Pointed(shown, heights, size, ray) ==
    {i \in DOMAIN shown \cap DOMAIN heights :
        LET h == heights[i] IN
        /\ h # NotFinite /\ Reach(ray, h) >= 0
        /\ Covers(shown[i], size, At(ray, Reach(ray, h)))}

RightAnswer(s, answer) ==
    LET shown == Shown(s.rects, s.size)
        under == Pointed(shown, s.heights, s.size, s.ray)
    IN  answer # Unpicked =>
            IF under = {} \/ Len(s.heights) < Len(shown)
            THEN answer = -1
            ELSE \E i \in under :
                    /\ answer = shown[i].id
                    /\ \A j \in under : Reach(s.ray, s.heights[i]) <= Reach(s.ray, s.heights[j])

LEMMA PickFindsNearest ==
    ASSUME sight \in Sights, PickOverlayRect
    PROVE  PickedIsNearest'
  <1> DEFINE size    == sight.size
             heights == sight.heights
             ray     == sight.ray
             shown   == Shown(sight.rects, size)
             quads   == Quads(sight.rects, size)
             N       == Len(shown)
             best    == NearestMet(quads, heights, ray)
             under   == Pointed(shown, heights, size, ray)
             met     == MetAmong(quads, heights, ray, N)
             rays    == [origin : [Axes -> Int], along : [Axes -> Int], height : Int, up : {-1, 1}]
  <1>1. /\ size \in Sizes /\ sight.rects \in Seq(Rectangles)
        /\ heights \in Seq(Int \cup {NotFinite}) /\ ray \in rays
        /\ NotFinite \notin Int
    <2>1. sight \in [size : Sizes, rects : Seq(Rectangles), heights : Seq(Int \cup {NotFinite}),
                     ray : rays]
      BY PickAssumption
    <2> QED
      BY <2>1, PickAssumption
  <1>2. /\ shown \in Seq(Rectangles) /\ Len(quads) = N
        /\ \A i \in 1 .. N :
              /\ quads[i].id = shown[i].id
              /\ \A p \in [Axes -> Int] : PointInQuad(p, quads[i]) <=> Covers(shown[i], size, p)
    BY <1>1, ShownIs, QuadsAre
  <1>3. sight' = sight /\ picked' = IF Len(heights) < N \/ best = 0 THEN -1 ELSE quads[best].id
    BY <1>2, Zenon DEF PickOverlayRect
  <1>4. PickedIsNearest' <=>
          (picked' # Unpicked =>
              IF under = {} \/ Len(heights) < N THEN picked' = -1
              ELSE \E i \in under :
                      /\ picked' = shown[i].id
                      /\ \A j \in under : Reach(ray, heights[i]) <= Reach(ray, heights[j]))
    <2>1. PickedIsNearest' <=> RightAnswer(sight', picked')
      BY Zenon DEF PickedIsNearest, RightAnswer, Pointed
    <2>2. RightAnswer(sight', picked') <=> RightAnswer(sight, picked')
      BY <1>3, Zenon
    <2>3. RightAnswer(sight, picked') <=>
            (picked' # Unpicked =>
                IF under = {} \/ Len(heights) < N THEN picked' = -1
                ELSE \E i \in under :
                        /\ picked' = shown[i].id
                        /\ \A j \in under : Reach(ray, heights[i]) <= Reach(ray, heights[j]))
      BY Zenon DEF RightAnswer
    <2> QED
      BY <2>1, <2>2, <2>3, Zenon
  <1> HIDE DEF size, heights, ray, shown, quads, N, best, rays
  <1>5. N \in Nat /\ DOMAIN shown = 1 .. N /\ Len(heights) \in Nat /\ DOMAIN heights = 1 .. Len(heights)
    BY <1>1, <1>2 DEF N
  <1>6. CASE Len(heights) < N
    <2>1. picked' = -1
      BY <1>3, <1>6
    <2> QED
      BY <1>4, <1>6, <2>1, Zenon
  <1>7. CASE ~(Len(heights) < N)
    <2>1. DOMAIN shown \cap DOMAIN heights = 1 .. N
      BY <1>5, <1>7
    <2>2. ASSUME NEW i \in 1 .. N
          PROVE  Meets(ray, quads[i], heights[i])
                   <=> /\ heights[i] # NotFinite /\ Reach(ray, heights[i]) >= 0
                       /\ Covers(shown[i], size, At(ray, Reach(ray, heights[i])))
      <3>1. heights[i] \in Int \cup {NotFinite}
        BY <1>1, <2>1
      <3>2. CASE heights[i] = NotFinite
        BY <3>2 DEF Meets
      <3>3. CASE heights[i] # NotFinite
        <4>1. At(ray, Reach(ray, heights[i])) \in [Axes -> Int]
          BY <1>1, <3>1, <3>3, ReachesNumber DEF rays
        <4> QED
          BY <1>2, <3>3, <4>1, Zenon DEF Meets
      <3> QED
        BY <3>2, <3>3
    <2>3. met = under
      BY <2>1, <2>2, Zenon DEF MetAmong, Pointed
    <2>4. \A i \in met : i \in 1 .. N /\ Reach(ray, heights[i]) \in Int
      <3> SUFFICES ASSUME NEW i \in met PROVE i \in 1 .. N /\ Reach(ray, heights[i]) \in Int
        OBVIOUS
      <3>1. i \in 1 .. N /\ heights[i] # NotFinite
        BY Zenon DEF MetAmong, Meets
      <3>2. heights[i] \in Int
        BY <1>1, <2>1, <3>1
      <3> QED
        BY <1>1, <3>1, <3>2, ReachesNumber DEF rays
    <2>5. NearestOf(quads, heights, ray, N, best)
      <3>1. Len(quads) \in Nat /\ Len(quads) = N
        BY <1>2, <1>5
      <3>2. \A i \in MetAmong(quads, heights, ray, Len(quads)) : Reach(ray, heights[i]) \in Int
        BY <2>4, <3>1
      <3>3. NearestOf(quads, heights, ray, Len(quads), NearestMet(quads, heights, ray))
        BY <3>1, <3>2, NearestMetIs, Zenon
      <3> QED
        BY <3>1, <3>3, Zenon DEF best
    <2>6. IF met = {} THEN best = 0 ELSE best \in met /\ \A j \in met : Before(heights, ray, best, j)
      BY <2>5, Zenon DEF NearestOf
    <2> HIDE DEF met, under
    <2>7. CASE met = {}
      <3>1. best = 0
        BY <2>6, <2>7
      <3>2. picked' = -1
        BY <1>3, <3>1
      <3> QED
        BY <1>4, <2>3, <2>7, <3>2, Zenon
    <2>8. CASE met # {}
      <3>1. best \in met /\ \A j \in met : Before(heights, ray, best, j)
        BY <2>6, <2>8
      <3>2. best \in 1 .. N /\ best # 0
        BY <1>5, <2>4, <3>1
      <3>3. picked' = shown[best].id
        BY <1>2, <1>3, <1>7, <3>2
      <3>4. \A j \in met : Reach(ray, heights[best]) <= Reach(ray, heights[j])
        BY <2>4, <3>1 DEF Before
      <3> QED
        BY <1>4, <1>7, <2>3, <2>8, <3>1, <3>3, <3>4, Zenon
    <2> QED
      BY <2>7, <2>8
  <1> QED
    BY <1>6, <1>7

THEOREM AlwaysNearest == PickSpec => []PickedIsNearest
  <1>1. PickInit => PickInv
    BY DEF PickInit, PickInv, PickedIsNearest
  <1>2. PickInv /\ [PickOverlayRect]_<<sight, picked>> => PickInv'
    <2> SUFFICES ASSUME PickInv, [PickOverlayRect]_<<sight, picked>> PROVE PickInv'
      OBVIOUS
    <2>1. CASE PickOverlayRect
      <3>1. sight' = sight
        BY <2>1 DEF PickOverlayRect
      <3> QED
        BY <2>1, <3>1, PickFindsNearest DEF PickInv
    <2>2. CASE UNCHANGED <<sight, picked>>
      BY <2>2 DEF PickInv, PickedIsNearest
    <2> QED
      BY <2>1, <2>2
  <1>3. PickInv => PickedIsNearest
    BY DEF PickInv
  <1> QED
    BY <1>1, <1>2, <1>3, PTL DEF PickSpec
=============================================================================
