----------------------------- MODULE LiveShader -----------------------------
(***************************************************************************)
(* Live shader slots of one TerrainRenderer.  shader.apply and             *)
(* shader.revert leave their request in one of two mailboxes of the item;  *)
(* synchronize hands both to the slots, and TerrainRenderer::update        *)
(* serves the slots one after the other (pc names the slot that is next):  *)
(* it builds a program, swaps it in, and keeps the stock program aside     *)
(* for the revert.                                                         *)
(*                                                                         *)
(* A program is what it is built from: bgfx gives equal programs one       *)
(* handle and counts its references.  A live shader may have the contents  *)
(* of the stock one.                                                       *)
(***************************************************************************)
EXTENDS Integers

CONSTANTS
    Bins,        \* live shaders, by their hash
    Stock,       \* the shader the application comes with
    None,        \* BGFX_INVALID_HANDLE, no request
    Revert,
    MaxRequests  \* bound: calls of shader.apply and shader.revert

TerrainSlots == {"vertex", "fragment"}
Slots        == TerrainSlots \cup {"compute"}

Shaders  == Bins \cup {Stock}
Programs == (Shaders \X Shaders) \cup {<<c>> : c \in Shaders}
Applies  == [slot : Slots, bin : Shaders]

(* No handle and no request is none of the programs, slots and shaders.    *)
ASSUME ShaderAssumption ==
    /\ Stock \notin Bins /\ None # Revert
    /\ {None, Revert} \cap (Shaders \cup Programs \cup Slots \cup Applies) = {}
    /\ MaxRequests \in Nat

VARIABLES
    noCompute,   \* the tier of the device
    applyBox,    \* m_pendingLiveShaderSlot and -BinPath of the item, or None
    revertBox,   \* m_pendingLiveShaderRevertSlot, or None
    pc,
    inited,      \* RenderScene::m_inited
    slot,        \* LiveShaderSlotState of each slot
    terrain,     \* m_programsSimpleDraw[PROGRAM_TERRAIN], its original
    compute,     \* m_programsCompute[PROGRAM_OVERLAY_MAX_ELEVATION], its original
    refs,        \* bgfx: references of each program
    \* history
    asked, want, \* number of requests, the last one of each slot
    doubt,       \* slots whose last request was lost on its way, or failed
    stale,       \* the last build of the terrain program failed
    failed       \* some build has failed

mailbox == <<applyBox, revertBox>>
ghosts  == <<asked, want, doubt, stale, failed>>
shaders == <<noCompute, mailbox, pc, inited, slot, terrain, compute, refs, ghosts>>

Handles == [now : Programs \cup {None}, original : Programs \cup {None}]

ShaderTypeOK ==
    /\ {noCompute, inited, stale, failed} \subseteq BOOLEAN
    /\ applyBox \in Applies \cup {None}
    /\ revertBox \in Slots \cup {None}
    /\ pc \in Slots \cup {"idle", "surface", "gone"}
    /\ slot \in [Slots -> [active : BOOLEAN, hash : Shaders \cup {None},
                           request : Shaders \cup {None, Revert}]]
    /\ terrain \in Handles /\ compute \in Handles
    /\ refs \in [Programs -> Int]
    /\ asked \in 0 .. MaxRequests /\ want \in [Slots -> Shaders]
    /\ doubt \subseteq Slots

NoSlot == [active |-> FALSE, hash |-> None, request |-> None]

ShaderInit ==
    /\ noCompute \in BOOLEAN
    /\ applyBox = None /\ revertBox = None /\ pc = "idle" /\ inited = FALSE
    /\ slot = [s \in Slots |-> NoSlot]
    /\ terrain = [now |-> None, original |-> None]
    /\ compute = [now |-> None, original |-> None]
    /\ refs = [p \in Programs |-> 0]
    /\ asked = 0 /\ want = [s \in Slots |-> Stock] /\ doubt = {}
    /\ stale = FALSE /\ failed = FALSE
-----------------------------------------------------------------------------
(* The GUI thread.                                                         *)

(* RenderViewportItem::requestLiveShader.                                  *)
RequestLiveShader(s, b) ==
    /\ pc = "idle" /\ asked < MaxRequests
    /\ applyBox' = [slot |-> s, bin |-> b]
    /\ asked' = asked + 1
    /\ want' = [want EXCEPT ![s] = b]
    /\ doubt' = LET lost == IF applyBox = None THEN {}
                            ELSE {applyBox.slot} \ {s, revertBox}
                IN  IF revertBox = s THEN doubt \cup lost \cup {s}
                                     ELSE (doubt \cup lost) \ {s}
    /\ UNCHANGED <<noCompute, revertBox, pc, inited, slot, terrain, compute,
                   refs, stale, failed>>

(* RenderViewportItem::requestRevertLiveShader.                            *)
RequestRevertLiveShader(s) ==
    /\ pc = "idle" /\ asked < MaxRequests
    /\ revertBox' = s
    /\ asked' = asked + 1
    /\ want' = [want EXCEPT ![s] = Stock]
    /\ doubt' = (doubt \cup ({revertBox} \ {None})) \ {s}
    /\ UNCHANGED <<noCompute, applyBox, pc, inited, slot, terrain, compute,
                   refs, stale, failed>>
-----------------------------------------------------------------------------
(* One frame.                                                              *)

SyncRevertFirst ==    \* mutant: the revert is handed on before the apply
    [s \in Slots |->
        [slot[s] EXCEPT !.request =
            IF applyBox # None /\ applyBox.slot = s THEN applyBox.bin
            ELSE IF revertBox = s THEN Revert ELSE @]]

(* requestLiveShader, then requestRevertLiveShader of TerrainRenderer:     *)
(* the later of a slot's requests takes the place of the earlier.          *)
SyncSlots ==
    [s \in Slots |->
        [slot[s] EXCEPT !.request =
            IF revertBox = s THEN Revert
            ELSE IF applyBox # None /\ applyBox.slot = s THEN applyBox.bin
            ELSE @]]

(* The end of RenderViewportRenderer::synchronize.                         *)
Synchronize ==
    /\ pc = "idle"
    /\ slot' = SyncSlots
    /\ applyBox' = None /\ revertBox' = None
    /\ pc' = "surface"
    /\ UNCHANGED <<noCompute, inited, terrain, compute, refs, ghosts>>

StockProgram == <<Stock, Stock>>
StockCompute == <<Stock>>

(* ensureSurface: without a surface the frame ends.  The first surface     *)
(* makes RenderScene::resize call TerrainRenderer::init, and loadPrograms. *)
EnsureSurface(ok) ==
    /\ pc = "surface"
    /\ pc' = IF ok THEN "vertex" ELSE "idle"
    /\ IF ok /\ ~inited
       THEN /\ inited' = TRUE
            /\ terrain' = [terrain EXCEPT !.now =
                              IF noCompute THEN StockProgram ELSE None]
            /\ compute' = [compute EXCEPT !.now =
                              IF noCompute THEN None ELSE StockCompute]
            /\ refs' = [refs EXCEPT ![StockProgram] = IF noCompute THEN 1 ELSE 0,
                                    ![StockCompute] = IF noCompute THEN 0 ELSE 1]
       ELSE UNCHANGED <<inited, terrain, compute, refs>>
    /\ UNCHANGED <<noCompute, mailbox, slot, ghosts>>

(* bgfx::createProgram and bgfx::destroy.                                  *)
Created(r, p)   == [r EXCEPT ![p] = @ + 1]
Destroyed(r, p) == IF p = None THEN r ELSE [r EXCEPT ![p] = @ - 1]

Reported(s, sl) == IF sl[s].active THEN sl[s].hash ELSE Stock

DestroyOnRevert(r, h, original) ==    \* mutant: the stock program goes as well
    Destroyed(r, h.now)

(* Back to the original: the live program is destroyed, unless it is it.   *)
DestroyLive(r, h, original) ==
    IF h.now = original THEN r ELSE Destroyed(r, h.now)

(* A new live program is in: the one it replaces is destroyed, unless it   *)
(* is the original.                                                        *)
DestroyReplaced(r, h, original) ==
    IF h.now = original THEN r ELSE Destroyed(r, h.now)

(* rebuildLiveTerrainSimpleProgram for the slots sl, on the handles h and  *)
(* references r; ok: shaders are loaded and the program is created.        *)
Rebuild(h, r, sl, ok) ==
    LET original == IF h.original = None THEN h.now ELSE h.original
        program  == <<Reported("vertex", sl), Reported("fragment", sl)>>
    IN  IF \A s \in TerrainSlots : ~sl[s].active
        THEN [handles |-> [now |-> original, original |-> None],
              refs |-> DestroyLive(r, h, original), done |-> TRUE]
        ELSE IF ~ok
        THEN [handles |-> [h EXCEPT !.original = original],
              refs |-> r, done |-> FALSE]
        ELSE [handles |-> [now |-> program, original |-> original],
              refs |-> DestroyReplaced(Created(r, program), h, original),
              done |-> TRUE]

(* What applyTerrainStage does when the slots have become sl.              *)
Install(sl, built) ==
    /\ slot' = sl /\ terrain' = built.handles /\ refs' = built.refs
    /\ stale' = ~built.done

Reverted(s) == [slot EXCEPT ![s] = NoSlot]

RevertStage(s) ==
    /\ slot[s].request = Revert
    /\ \E ok \in BOOLEAN :
          LET sl == Reverted(s)
          IN  /\ Install(sl, Rebuild(terrain, refs, sl, ok))
              /\ failed' = (failed \/ stale')
    /\ UNCHANGED doubt

(* A live shader that cannot be built is deactivated and the program built *)
(* once more without it; its hash stays.                                   *)
ApplyStage(s) ==
    /\ slot[s].request \in Shaders
    /\ \E ok, again \in BOOLEAN :
          LET sl == [slot EXCEPT ![s] = [active |-> TRUE, request |-> None,
                                         hash |-> slot[s].request]]
              off == [sl EXCEPT ![s].active = FALSE]
              built == Rebuild(terrain, refs, sl, ok)
          IN  IF built.done
              THEN Install(sl, built) /\ UNCHANGED <<doubt, failed>>
              ELSE /\ Install(off, Rebuild(built.handles, built.refs, off, again))
                   /\ doubt' = doubt \cup {s} /\ failed' = TRUE

(* applyTerrainStage.                                                      *)
ApplyTerrainStage(s, next) ==
    /\ pc = s /\ pc' = next
    /\ \/ RevertStage(s)
       \/ ApplyStage(s)
       \/ slot[s].request = None
          /\ UNCHANGED <<slot, terrain, refs, doubt, stale, failed>>
    /\ UNCHANGED <<noCompute, mailbox, inited, compute, asked, want>>

RevertCompute ==
    /\ slot["compute"].request = Revert
    /\ IF slot["compute"].active
       THEN /\ slot' = [slot EXCEPT !["compute"] = NoSlot]
            /\ compute' = [now |-> compute.original, original |-> None]
            /\ refs' = Destroyed(refs, compute.now)
       ELSE /\ slot' = [slot EXCEPT !["compute"].request = None]
            /\ UNCHANGED <<compute, refs>>
    /\ UNCHANGED <<doubt, failed>>

(* A compute shader that cannot be built leaves the slot as it was.        *)
ApplyCompute(ok) ==
    LET bin == slot["compute"].request IN
    /\ bin \in Shaders
    /\ ok => ~noCompute
    /\ IF ok
       THEN /\ slot' = [slot EXCEPT !["compute"] =
                          [active |-> TRUE, hash |-> bin, request |-> None]]
            /\ IF slot["compute"].active
               THEN /\ compute' = [compute EXCEPT !.now = <<bin>>]
                    /\ refs' = Created(Destroyed(refs, compute.now), <<bin>>)
               ELSE /\ compute' = [now |-> <<bin>>, original |-> compute.now]
                    /\ refs' = Created(refs, <<bin>>)
            /\ UNCHANGED <<doubt, failed>>
       ELSE /\ slot' = [slot EXCEPT !["compute"].request = None]
            /\ doubt' = doubt \cup {"compute"} /\ failed' = TRUE
            /\ UNCHANGED <<compute, refs>>

(* The compute part of applyPendingLiveShader.                             *)
ApplyComputeStage ==
    /\ pc = "compute" /\ pc' = "idle"
    /\ \/ RevertCompute
       \/ \E ok \in BOOLEAN : ApplyCompute(ok)
       \/ slot["compute"].request = None
          /\ UNCHANGED <<slot, compute, refs, doubt, failed>>
    /\ UNCHANGED <<noCompute, mailbox, inited, terrain, asked, want, stale>>

(* The item goes away: TerrainRenderer::shutdown destroys what the         *)
(* handles name and forgets the slots.                                     *)
Shutdown ==
    /\ pc = "idle"
    /\ pc' = "gone"
    /\ refs' = Destroyed(Destroyed(Destroyed(Destroyed(refs, terrain.now),
                  terrain.original), compute.now), compute.original)
    /\ terrain' = [now |-> None, original |-> None]
    /\ compute' = [now |-> None, original |-> None]
    /\ slot' = [s \in Slots |-> NoSlot]
    /\ UNCHANGED <<noCompute, mailbox, inited, ghosts>>

ShaderNext ==
    \/ \E s \in Slots, b \in Shaders : RequestLiveShader(s, b)
    \/ \E s \in Slots : RequestRevertLiveShader(s)
    \/ Synchronize
    \/ \E ok \in BOOLEAN : EnsureSurface(ok)
    \/ ApplyTerrainStage("vertex", "fragment")
    \/ ApplyTerrainStage("fragment", "compute")
    \/ ApplyComputeStage
    \/ Shutdown

-----------------------------------------------------------------------------
Held(h, p) == (IF h.now = p THEN 1 ELSE 0) + (IF h.original = p THEN 1 ELSE 0)
Owned(p)   == Held(terrain, p) + Held(compute, p)

(* No program is destroyed while a handle names it, and none is destroyed  *)
(* twice, whatever applies, reverts and failures follow each other.  Where *)
(* the stock program does not exist (the full tier never loads it) the     *)
(* claim stops at the first failed build.                                  *)
NoDangling == \A p \in Programs : Owned(p) <= refs[p] \/ (failed /\ ~noCompute)

(* No live program is lost: what bgfx still holds, a handle names.  The    *)
(* stock program may keep references, of live copies of it; the full tier  *)
(* has no stock terrain program, and a live one plays its part.            *)
NoLeak == \A p \in Programs : \/ refs[p] <= Owned(p)
                              \/ p = StockProgram
                              \/ ~noCompute /\ p \in Shaders \X Shaders

(* What bgfx holds is what the handles name, also where two of them name   *)
(* one program.                                                            *)
RefsMatch == ShaderTypeOK /\ NoDangling /\ NoLeak

(* Between frames a slot runs the shader it reports.  The terrain program  *)
(* may differ only after a failed build, and where nothing draws with it.  *)
RunsWhatItReports ==
    /\ noCompute /\ ~stale =>
          terrain.now = <<Reported("vertex", slot), Reported("fragment", slot)>>
    /\ ~noCompute => compute.now = <<Reported("compute", slot)>>

(* Each slot reports what was last asked of it, if that request was not    *)
(* lost in a mailbox (another request of the kind, or a revert of the      *)
(* slot, before the next frame).                                           *)
LastRequestDecides ==
    \A s \in Slots \ doubt :
        slot[s].request = None => Reported(s, slot) = want[s]

(* Between frames, with all requests served, what is drawn with is what    *)
(* the slots report, and they report what was last asked.                  *)
SlotsObey ==
    pc = "idle" =>
        /\ inited => RunsWhatItReports
        /\ applyBox = None /\ revertBox = None => LastRequestDecides
=============================================================================
