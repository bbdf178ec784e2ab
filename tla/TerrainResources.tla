-------------------------- MODULE TerrainResources --------------------------
(***************************************************************************)
(* What a TerrainRenderer holds of bgfx besides its maps (TerrainMaps) and *)
(* its live shaders (LiveShader): made by init, replaced when the terrain  *)
(* restarts and when overlay rectangles outgrow it, destroyed with it.     *)
(*                                                                         *)
(* bgfx keeps one uniform of a name and one program of two shaders, and    *)
(* counts how often each was created, so what the renderers share is       *)
(* counted as what each of them has alone.  The device runs, and is the    *)
(* same, throughout: it is shut down with the process.                     *)
(***************************************************************************)
EXTENDS Integers, FiniteSets

CONSTANTS
    Renderers,     \* TerrainRenderers, one after the other or side by side
    MaxFailures    \* bound: things that cannot be created, and throws

ASSUME ResourceAssumption ==
    IsFiniteSet(Renderers) /\ MaxFailures \in Nat

VARIABLES
    simple,      \* RenderDevice::renderCaps().noCompute()
    state,       \* of each renderer; "valid" is m_resourcesValid
    held,        \* the members of each that hold a valid handle
    alive,       \* bgfx: how often each is created and not destroyed
    threw,       \* an init has thrown
    failures     \* how many things have failed or thrown

resources == <<simple, state, held, alive, threw, failures>>

Grid    == {"m_simpleGridVertices", "m_simpleGridIndices"}
Wire    == {"m_rectWireVertices", "m_rectWireIndices"}
Patches == {"m_bufferSubd", "m_bufferCulledSubd", "m_instancedGeometry"}
Rects   == {"m_rectParamsBuffer", "m_rectMaxTexture", "m_rectMaxReadTexture"}
Compute == {"m_programsDraw", "m_programsCompute", "m_geometry",
            "m_bufferCounter", "m_dispatchIndirect"}
Both    == {"uniforms", "m_programRectWire", "m_programColor"}

Members == Both \cup Compute \cup Patches \cup Rects \cup Wire \cup Grid
             \cup {"m_programsSimpleDraw", "m_dummySmap"}

ResourcesTypeOK ==
    /\ simple \in BOOLEAN /\ threw \in BOOLEAN
    /\ state \in [Renderers -> {"new", "valid", "broken", "gone"}]
    /\ held \in [Renderers -> SUBSET Members]
    /\ alive \in [Members -> Int]
    /\ failures \in 0 .. MaxFailures

ResourcesInit ==
    /\ simple \in BOOLEAN
    /\ state = [r \in Renderers |-> "new"]
    /\ held = [r \in Renderers |-> {}]
    /\ alive = [m \in Members |-> 0]
    /\ threw = FALSE
    /\ failures = 0
-----------------------------------------------------------------------------
(* What init creates, for a renderer that holds h.  Grid and wire frame    *)
(* are made together unless both are there.                                *)
InitMakes(h) ==
    Both
      \cup (IF simple THEN {"m_programsSimpleDraw"} ELSE Compute \cup Patches)
      \cup (IF simple /\ ~(Grid \subseteq h) THEN Grid ELSE {})
      \cup (IF Wire \subseteq h THEN {} ELSE Wire)
      \cup ({"m_dummySmap"} \ h)

(* At most one of the things that a call creates fails.                    *)
Failing(wanted, failed, throws) ==
    /\ failed \in {{}} \cup {{m} : m \in wanted}
    /\ failures' = failures + Cardinality(failed) + (IF throws THEN 1 ELSE 0)
    /\ failures' <= MaxFailures

CountedWith(counts, destroyed, created) ==
    [m \in Members |-> counts[m] - (IF m \in destroyed THEN 1 ELSE 0)
                                 + (IF m \in created THEN 1 ELSE 0)]

(* invalidateAllHandles, which leaves the grid's handles as they are.      *)
Invalidated(h) == h \cap Grid

NothingDestroyed(h) == {}    \* mutant: the handles are only invalidated

(* destroyAllResources, while they are valid; not the grid's either.       *)
Destroyed(h) == h \ Grid

(* init: of a renderer that is new, or in ensureValidResources, after one  *)
(* that threw.  What throws is the last step, when everything is made      *)
(* (buildTerrainFramePasses allocates): then destroyAllResources finds     *)
(* that the resources are not valid yet, and only forgets them.            *)
InitRenderer(r, failed, throws) ==
    LET before == Invalidated(held[r])
        wanted == InitMakes(before)
        after  == (before \ wanted) \cup (wanted \ failed)
    IN  /\ state[r] \in {"new", "broken"}
        /\ Failing(wanted, failed, throws)
        /\ alive' = CountedWith(alive, {}, wanted \ failed)
        /\ held' = [held EXCEPT ![r] = IF throws THEN Invalidated(after) ELSE after]
        /\ state' = [state EXCEPT ![r] = IF throws THEN "broken" ELSE "valid"]
        /\ threw' = (threw \/ throws)
        /\ UNCHANGED simple

(* Members are destroyed if they are valid, and created again.             *)
Replace(r, wanted, failed) ==
    /\ state[r] = "valid"
    /\ Failing(wanted, failed, FALSE)
    /\ alive' = CountedWith(alive, held[r] \cap wanted, wanted \ failed)
    /\ held' = [held EXCEPT ![r] = (@ \ wanted) \cup (wanted \ failed)]
    /\ UNCHANGED <<simple, state, threw>>

(* renderTerrain, when m_restart is set.                                   *)
RestartPatches(r, failed) == ~simple /\ Replace(r, Patches, failed)

(* ensureOverlayRectBuffers: the buffer is not there or too small.         *)
EnsureRectBuffers(r, failed) ==
    ~simple /\ Replace(r, {"m_rectParamsBuffer"}, failed)

(* ensureOverlayMaxTexture: the texture is not there, too narrow or of the *)
(* other kind; the one to read from is made when it is not there.          *)
EnsureMaxTexture(r, failed) ==
    \E wanted \in SUBSET {"m_rectMaxTexture", "m_rectMaxReadTexture"} :
        /\ wanted # {}
        /\ "m_rectMaxReadTexture" \in wanted =>
              ~simple /\ "m_rectMaxReadTexture" \notin held[r]
        /\ Replace(r, wanted, failed)

(* ~TerrainRenderer.                                                       *)
Shutdown(r) ==
    /\ state[r] # "gone"
    /\ alive' = CountedWith(alive,
                    IF state[r] = "valid" THEN Destroyed(held[r]) ELSE {}, {})
    /\ held' = [held EXCEPT ![r] = Invalidated(@)]
    /\ state' = [state EXCEPT ![r] = "gone"]
    /\ UNCHANGED <<simple, threw, failures>>

ResourcesNext ==
    \E r \in Renderers :
        \/ Shutdown(r)
        \/ \E failed \in {{}} \cup {{m} : m \in Members} :
               \/ \E throws \in BOOLEAN : InitRenderer(r, failed, throws)
               \/ RestartPatches(r, failed)
               \/ EnsureRectBuffers(r, failed)
               \/ EnsureMaxTexture(r, failed)

ResourcesSpec == ResourcesInit /\ [][ResourcesNext]_resources
-----------------------------------------------------------------------------
(***************************************************************************)
(* Properties                                                              *)
(***************************************************************************)
Holders(m) == {r \in Renderers : m \in held[r]}

(* Whatever of them cannot be created, through restarts, growing overlays, *)
(* a second attempt to initialise and teardown beside other renderers:     *)
(* what a renderer holds exists, nothing is destroyed twice, and nothing   *)
(* exists that no renderer holds, unless an init has thrown.  A renderer   *)
(* that is gone still counts as the holder of its grid, which nothing ever *)
(* destroys.                                                               *)
ResourcesKept ==
    /\ ResourcesTypeOK
    /\ \A m \in Members :
           /\ alive[m] >= Cardinality(Holders(m))
           /\ ~threw => alive[m] = Cardinality(Holders(m))
    /\ \A r \in Renderers : state[r] # "valid" => held[r] \subseteq Grid
=============================================================================
