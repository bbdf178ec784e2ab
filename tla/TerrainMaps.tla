----------------------------- MODULE TerrainMaps -----------------------------
(***************************************************************************)
(* The terrain's two textures as bgfx handles: DMAP, the heights, and      *)
(* SMAP, the slopes computed from them, each replaced while earlier frames *)
(* may still use the old one, which deferDestroyTexture schedules for      *)
(* destruction.  bgfx gives freed handles out again, and bgfx::isValid     *)
(* only tells the invalid handle from the others.                          *)
(*                                                                         *)
(* HeightfieldPipeline has how a map gets here; in this module any map may *)
(* be restored, uploaded or decoded in any frame.                          *)
(***************************************************************************)
EXTENDS Integers

CONSTANTS
    Maps,          \* heightfields
    None,          \* no map, or the flat default slopes
    Handles,       \* bound: texture handles bgfx has for the two
    RetireDmap,    \* kDmapRetireFrames
    RetireTexture, \* kTextureRetireFrames
    DeferFrames    \* kSmapUseDeferFrames

ASSUME MapsAssumption ==
    /\ None \notin Maps
    /\ {Handles, RetireDmap, RetireTexture, DeferFrames} \subseteq Nat \ {0}
    /\ RetireTexture <= RetireDmap

VARIABLES
    noCompute,   \* RenderDevice::renderCaps().noCompute()
    writable,    \* RGBA32F textures can be written by compute shaders
    useGpuSmap,  \* m_useGpuSmap
    hasPath,     \* m_heightfieldPath is not empty
    reload,      \* m_heightfieldNeedReload, m_diffuseNeedReload, first frame
    ready,       \* m_heightfieldReady
    sized,       \* m_heightfieldWidth and m_heightfieldHeight are not 0
    dmap, smap,  \* m_textures
    texture,     \* bgfx: what each handle holds
    retiring,    \* DeferredDeleteQueue: how often each handle is in it, by frames left
    needsRegen,  \* m_smapNeedsRegen
    defer,       \* m_deferSmapUseFrames
    cpuMap,      \* map of m_dmapNormalizedCpu
    underUse,    \* a handle in use was scheduled for destruction (see Restore)
    step         \* the next step of update()

tier     == <<noCompute, writable>>
handles  == <<dmap, smap, texture, retiring>>
maps     == <<tier, useGpuSmap, hasPath, reload, ready, sized, handles,
              needsRegen, defer, cpuMap, underUse, step>>

Invalid == 0
Handle  == 1 .. Handles
Left    == 1 .. RetireDmap
Free    == [kind |-> "free", map |-> None]
Heights(m) == [kind |-> "heights", map |-> m]
Slopes(m)  == [kind |-> "slopes", map |-> m]

MapsTypeOK ==
    /\ noCompute \in BOOLEAN /\ writable \in BOOLEAN /\ useGpuSmap \in BOOLEAN
    /\ hasPath \in BOOLEAN /\ reload \in BOOLEAN /\ ready \in BOOLEAN
    /\ sized \in BOOLEAN /\ needsRegen \in BOOLEAN /\ underUse \in BOOLEAN
    /\ dmap \in {Invalid} \cup Handle
    /\ smap \in {Invalid} \cup Handle
    /\ texture \in [Handle -> [kind : {"free", "heights", "slopes"},
                               map : Maps \cup {None}]]
    /\ retiring \in [Handle -> [Left -> Nat]]
    /\ defer \in 0 .. DeferFrames
    /\ cpuMap \in Maps \cup {None}
    /\ step \in {"idle", "cache", "upload", "decode", "load", "regen", "render",
                "draw", "end", "gone"}

Goes(from, to) == step = from /\ step' = to
-----------------------------------------------------------------------------
(***************************************************************************)
(* Handles                                                                 *)
(***************************************************************************)

(* bgfx::createTexture2D: a free handle, no matter which, or none.         *)
Creatable ==
    LET free == {h \in Handle : texture[h] = Free} IN
    {Invalid} \cup IF free = {} THEN {} ELSE {CHOOSE h \in free : TRUE}

Holding(h, content) ==
    IF h = Invalid THEN texture ELSE [texture EXCEPT ![h] = content]

(* deferDestroyTexture; handles are collected in endFrame.                 *)
Retire(queue, h, frames) ==
    IF h = Invalid THEN queue
                   ELSE [queue EXCEPT ![h][frames] = @ + 1]

Never     == [left \in Left |-> 0]
Due(left) == [Never EXCEPT ![left] = 1]

(* RenderDevice::endFrame, also of other viewports: what is due is         *)
(* destroyed.                                                              *)
EndFrame ==
    /\ \/ Goes("end", "idle")
       \/ Goes("gone", "gone") /\ \E h \in Handle : retiring[h] # Never
    /\ retiring' = [h \in Handle |-> [left \in Left |->
                       IF left = RetireDmap THEN 0 ELSE retiring[h][left + 1]]]
    /\ texture' = [h \in Handle |-> IF retiring[h][1] > 0 THEN Free ELSE texture[h]]
    /\ UNCHANGED <<tier, useGpuSmap, hasPath, reload, ready, sized, dmap, smap,
                   needsRegen, defer, cpuMap, underUse>>
-----------------------------------------------------------------------------
(***************************************************************************)
(* The GUI                                                                 *)
(***************************************************************************)
LoadHeightfield ==
    /\ Goes("idle", "idle")
    /\ hasPath' = TRUE
    /\ ready' = FALSE
    /\ reload' = TRUE
    /\ UNCHANGED <<tier, useGpuSmap, sized, handles, needsRegen, defer, cpuMap,
                   underUse>>

RetireBoth(queue) ==
    Retire(Retire(queue, dmap, RetireTexture), smap, RetireTexture)

ClearHeightfield ==
    /\ Goes("idle", "idle")
    /\ hasPath' = FALSE
    /\ ready' = FALSE
    /\ reload' = TRUE
    /\ sized' = FALSE
    /\ retiring' = RetireBoth(retiring)
    /\ dmap' = Invalid
    /\ smap' = Invalid
    /\ UNCHANGED <<tier, useGpuSmap, texture, needsRegen, defer, cpuMap, underUse>>

(* loadDiffuseFromFile, clearDiffuse, reloadTextures.                      *)
ReloadTextures ==
    /\ Goes("idle", "idle")
    /\ reload' = TRUE
    /\ UNCHANGED <<tier, useGpuSmap, hasPath, ready, sized, handles, needsRegen,
                   defer, cpuMap, underUse>>
-----------------------------------------------------------------------------
(***************************************************************************)
(* update(): a new map                                                     *)
(***************************************************************************)
NormalizedCopy(m) == IF noCompute THEN m ELSE cpuMap

(* tryLoadFromCache.  The old DMAP is retired first: if the new one cannot *)
(* be created it stays installed, and is destroyed while in use.           *)
Restore(m) ==
    /\ Goes("cache", "cache")
    /\ retiring' = Retire(retiring, dmap, RetireDmap)
    /\ \E h \in Creatable :
         \/ /\ h = Invalid
            /\ underUse' = (underUse \/ dmap # Invalid)
            /\ UNCHANGED <<dmap, texture, sized, ready, needsRegen, cpuMap>>
         \/ /\ h # Invalid
            /\ texture' = Holding(h, Heights(m))
            /\ dmap' = h
            /\ sized' = TRUE
            /\ ready' = TRUE
            /\ needsRegen' = TRUE
            /\ cpuMap' = NormalizedCopy(m)
            /\ UNCHANGED underUse
    /\ UNCHANGED <<tier, useGpuSmap, hasPath, reload, smap, defer>>

(* processAsyncUploads: the new DMAP is installed, valid or not.           *)
Upload(m) ==
    /\ Goes("upload", "decode")
    /\ \E h \in Creatable : texture' = Holding(h, Heights(m)) /\ dmap' = h
    /\ retiring' = Retire(retiring, dmap, RetireDmap)
    /\ sized' = TRUE
    /\ ready' = hasPath
    /\ needsRegen' = TRUE
    /\ cpuMap' = NormalizedCopy(m)
    /\ UNCHANGED <<tier, useGpuSmap, hasPath, reload, smap, defer, underUse>>

NoRegenAfterDecode == needsRegen    \* mutant: the slopes are not computed again

RegenAfterDecode == TRUE

(* dispatchGpuHeightfieldDecode: a failure leaves everything as it was.    *)
Decode(m) ==
    /\ Goes("decode", "load")
    /\ ~noCompute
    /\ \E h \in Creatable \ {Invalid} :
         texture' = Holding(h, Heights(m)) /\ dmap' = h
    /\ retiring' = Retire(retiring, dmap, RetireDmap)
    /\ sized' = TRUE
    /\ ready' = hasPath
    /\ needsRegen' = RegenAfterDecode
    /\ UNCHANGED <<tier, useGpuSmap, hasPath, reload, smap, defer, cpuMap, underUse>>
-----------------------------------------------------------------------------
(***************************************************************************)
(* update(): its slopes                                                    *)
(***************************************************************************)
InstallSlopes(m) ==
    \E h \in Creatable :
        /\ texture' = Holding(h, Slopes(m))
        /\ smap' = h
        /\ retiring' = Retire(retiring, smap, RetireTexture)

(* loadSmapTextureGPU: slopes of the DMAP, flat ones without a DMAP, or,   *)
(* where the format cannot be written, flat ones from now on.              *)
LoadSmapTextureGPU ==
    \/ /\ dmap = Invalid \/ ~sized
       /\ InstallSlopes(None)
       /\ UNCHANGED <<useGpuSmap, defer>>
    \/ /\ dmap # Invalid /\ sized /\ ~writable
       /\ useGpuSmap' = FALSE
       /\ InstallSlopes(None)
       /\ UNCHANGED defer
    \/ /\ dmap # Invalid /\ sized /\ writable
       /\ InstallSlopes(texture[dmap].map)
       /\ defer' = DeferFrames
       /\ UNCHANGED useGpuSmap

(* cpuRegenerateSmap, from the copy of the map it keeps.                   *)
CpuCanRegenerate == cpuMap # None /\ sized

LoadTextures ==
    /\ Goes("load", "regen")
    /\ reload
    /\ reload' = FALSE
    /\ \/ /\ useGpuSmap
          /\ LoadSmapTextureGPU
          /\ UNCHANGED needsRegen
       \/ /\ ~useGpuSmap /\ noCompute /\ cpuMap # None
          /\ IF CpuCanRegenerate THEN InstallSlopes(cpuMap) /\ needsRegen' = FALSE
                                 ELSE UNCHANGED <<handles, needsRegen>>
          /\ UNCHANGED <<useGpuSmap, defer>>
       \/ /\ ~useGpuSmap /\ ~(noCompute /\ cpuMap # None)
          /\ InstallSlopes(None)
          /\ UNCHANGED <<useGpuSmap, defer, needsRegen>>
    /\ UNCHANGED <<tier, hasPath, ready, sized, dmap, cpuMap, underUse>>

RegenerateSmap ==
    /\ Goes("regen", "render")
    /\ needsRegen
    /\ \/ /\ useGpuSmap
          /\ LoadSmapTextureGPU
          /\ needsRegen' = FALSE
       \/ /\ ~useGpuSmap /\ noCompute /\ CpuCanRegenerate
          /\ InstallSlopes(cpuMap)
          /\ needsRegen' = FALSE
          /\ UNCHANGED <<useGpuSmap, defer>>
    /\ UNCHANGED <<tier, hasPath, reload, ready, sized, dmap, cpuMap, underUse>>

(* A step of update() that finds nothing to do.                            *)
Unneeded ==
    /\ \/ Goes("idle", "cache") \/ Goes("cache", "upload")
       \/ Goes("upload", "decode") \/ Goes("decode", "load")
       \/ Goes("load", "regen") /\ ~reload
       \/ /\ Goes("regen", "render")
          /\ needsRegen => ~useGpuSmap /\ ~(noCompute /\ CpuCanRegenerate)
       \/ Goes("draw", "end")
    /\ UNCHANGED <<tier, useGpuSmap, hasPath, reload, ready, sized, handles,
                   needsRegen, defer, cpuMap, underUse>>

Drawable == ready /\ dmap # Invalid /\ smap # Invalid

(* renderTerrain draws, with the dummy slopes while defer > 0 and there    *)
(* are compute shaders.                                                    *)
SlopesShown == IF ~noCompute /\ defer > 0 THEN Slopes(None) ELSE texture[smap]

CountedDown == IF defer > 0 THEN defer - 1 ELSE 0

CountDown ==
    /\ Goes("render", IF Drawable THEN "draw" ELSE "end")
    /\ defer' = CountedDown
    /\ UNCHANGED <<tier, useGpuSmap, hasPath, reload, ready, sized, handles,
                   needsRegen, cpuMap, underUse>>

(* destroyAllResources: what is installed is destroyed at once.            *)
DestroyAll ==
    /\ Goes("idle", "gone")
    /\ texture' = [h \in Handle |-> IF h \in {dmap, smap} THEN Free ELSE texture[h]]
    /\ dmap' = Invalid
    /\ smap' = Invalid
    /\ ready' = FALSE
    /\ sized' = FALSE
    /\ needsRegen' = FALSE
    /\ reload' = FALSE
    /\ UNCHANGED <<tier, useGpuSmap, hasPath, retiring, defer, cpuMap, underUse>>

(* loadPrograms turns m_useGpuSmap off where there is no compute.          *)
MapsInit ==
    /\ noCompute \in BOOLEAN
    /\ writable \in BOOLEAN
    /\ noCompute => ~writable
    /\ useGpuSmap = ~noCompute
    /\ hasPath = FALSE
    /\ reload = TRUE
    /\ ready = FALSE
    /\ sized = FALSE
    /\ dmap = Invalid /\ smap = Invalid
    /\ texture = [h \in Handle |-> Free]
    /\ retiring = [h \in Handle |-> Never]
    /\ needsRegen = FALSE
    /\ defer = 0
    /\ cpuMap = None
    /\ underUse = FALSE
    /\ step = "idle"

MapsNext ==
    \/ LoadHeightfield \/ ClearHeightfield \/ ReloadTextures \/ DestroyAll
    \/ \E m \in Maps : Restore(m) \/ Upload(m) \/ Decode(m)
    \/ LoadTextures \/ RegenerateSmap \/ CountDown \/ Unneeded
    \/ EndFrame

MapsSpec == MapsInit /\ [][MapsNext]_maps
-----------------------------------------------------------------------------
(***************************************************************************)
(* Properties                                                              *)
(***************************************************************************)

(* The slopes drawn are those of the map that is drawn, or the flat ones,  *)
(* which stand in only while new slopes are young or where they cannot be  *)
(* computed; unless a handle was lost to a failed restore.                 *)
SlopesMatch ==
    step = "draw" /\ ~underUse =>
        LET m == texture[dmap].map IN
        /\ texture[dmap] = Heights(m)
        /\ SlopesShown \in {Slopes(None), Slopes(m)}
        /\ (noCompute \/ (writable /\ defer = 0)) => SlopesShown = Slopes(m)

(* A texture is installed, or waits to be destroyed once: it is neither    *)
(* lost, nor destroyed twice, nor destroyed under the terrain, whatever    *)
(* combination of load, clear, restore, upload and decode replaces it;     *)
(* unless a restore failed.                                                *)
DestroyedOnce ==
    /\ MapsTypeOK
    /\ ~underUse => \A h \in Handle :
         \/ texture[h] = Free /\ h \notin {dmap, smap} /\ retiring[h] = Never
         \/ texture[h] # Free /\ (h = dmap) # (h = smap) /\ retiring[h] = Never
         \/ /\ texture[h] # Free /\ h \notin {dmap, smap}
            /\ \E left \in Left : retiring[h] = Due(left)
=============================================================================
