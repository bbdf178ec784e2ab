--------------------------- MODULE DiffuseTexture ---------------------------
(***************************************************************************)
(* The picture on the terrain, and whether its axes are swapped to lie on  *)
(* a heightfield of the other orientation: HeightfieldPipeline with what   *)
(* each of its steps makes of TEXTURE_DIFFUSE and m_diffuseUvMode.         *)
(***************************************************************************)
EXTENDS HeightfieldPipeline

CONSTANTS
    Pictures,    \* files a diffuse texture can be loaded from
    NoPicture,   \* the empty path, or no texture
    Grey,        \* the default texture
    Size         \* of the files' pictures; 0 x 0 if a file cannot be read

ASSUME PictureAssumption ==
    /\ Pictures \cap {NoPicture, Grey} = {}
    /\ Size \in [Paths \cup Pictures -> [w : Nat, h : Nat]]

VARIABLES
    diffusePath,   \* m_diffuseTexturePath
    diffuse,       \* what TEXTURE_DIFFUSE holds
    swapped        \* m_diffuseUvMode is SwapUV

pictureVars == <<diffusePath, diffuse, swapped>>

PictureTypeOK ==
    /\ diffusePath \in Pictures \cup {NoPicture}
    /\ diffuse \in Pictures \cup {NoPicture, Grey}
    /\ swapped \in BOOLEAN

(* probeImageSize finds a picture.                                         *)
Probed(p) == p # NoPicture /\ Size[p].w > 0 /\ Size[p].h > 0

(* m_heightfieldWidth and m_heightfieldHeight.  Without a path the loader  *)
(* makes a map of one texel.                                               *)
MapSize(m) ==
    CASE m.from = "none" -> [w |-> 0, h |-> 0]
      [] m.from # "none" /\ m.path = NoPath -> [w |-> 1, h |-> 1]
      [] OTHER -> Size[m.path]

(* chooseDiffuseUvMode                                                     *)
Swaps(d, m) ==
    /\ 0 \notin {d.w, d.h, m.w, m.h}
    /\ (m.w > m.h /\ d.h > d.w) \/ (m.h > m.w /\ d.w > d.h)
-----------------------------------------------------------------------------
(***************************************************************************)
(* The GUI                                                                 *)
(***************************************************************************)
AsksForReload ==
    LoadDiffuse \/ (pc = "idle" /\ diffuseReload /\ UNCHANGED vars)

LoadDiffuseFromFile(p) ==
    /\ AsksForReload
    /\ diffusePath' = p
    /\ UNCHANGED <<diffuse, swapped>>

ClearDiffuse ==
    /\ AsksForReload
    /\ diffusePath' = NoPicture /\ diffuse' = NoPicture
    /\ swapped' = FALSE

ClearMap ==
    /\ ClearHeightfield
    /\ swapped' = FALSE
    /\ UNCHANGED <<diffusePath, diffuse>>
-----------------------------------------------------------------------------
(***************************************************************************)
(* update()                                                                *)
(***************************************************************************)
KeepsMode(m) == swapped    \* mutant: a new map does not change the axes

(* What a new map makes of the mode, if the picture can be read again.     *)
ModeFor(m) ==
    IF Probed(diffusePath) THEN Swaps(Size[diffusePath], MapSize(m)) ELSE swapped

UploadMap ==
    /\ UploadTask
    /\ swapped' = IF uploads = <<>> THEN swapped ELSE ModeFor(dmap')
    /\ UNCHANGED <<diffusePath, diffuse>>

DecodeMap(created) ==
    /\ DispatchDecode(created)
    /\ swapped' = IF decodes # <<>> /\ created THEN ModeFor(dmap') ELSE swapped
    /\ UNCHANGED <<diffusePath, diffuse>>

(* loadDiffuseTexture.  Where the picture cannot be read or the texture    *)
(* cannot be made, the default one stands in.                              *)
LoadDiffuseTexture ==
    /\ diffuse' \in {Grey} \cup {p \in {diffusePath} : Probed(p)}
    /\ swapped' = (Probed(diffusePath) /\ Swaps(Size[diffusePath], MapSize(dmap)))
    /\ UNCHANGED diffusePath

LoadTextures ==
    /\ Reload
    /\ IF NeedsLoad THEN LoadDiffuseTexture ELSE UNCHANGED pictureVars

(* destroyAllResources                                                     *)
Destroyed ==
    /\ Joined
    /\ diffuse' = NoPicture
    /\ UNCHANGED <<diffusePath, swapped>>

(* A map restored from the cache leaves the picture as it is.              *)
Restore(created) == TakeResult(created) /\ UNCHANGED pictureVars

PictureInit ==
    /\ Init
    /\ diffusePath = NoPicture /\ diffuse = NoPicture /\ swapped = FALSE

PictureNext ==
    \/ \E p \in Pictures : LoadDiffuseFromFile(p)
    \/ ClearDiffuse \/ ClearMap
    \/ \E created \in BOOLEAN : Restore(created) \/ DecodeMap(created)
    \/ UploadMap \/ LoadTextures \/ Destroyed
    \/ /\ (\E p \in Paths : LoadHeightfield(p)) \/ BeginUpdate \/ NoMoreResults
          \/ Worker \/ Stop
       /\ UNCHANGED pictureVars

PictureSpec == PictureInit /\ [][PictureNext]_<<vars, pictureVars>>
-----------------------------------------------------------------------------
(***************************************************************************)
(* Properties                                                              *)
(***************************************************************************)
Fits ==
    diffuse \in Pictures =>
        (swapped <=> Swaps(Size[diffuse], MapSize(dmap)))

(* "Orientation mismatch means UV axes are opposite and should be swapped" *)
(* (terrain_renderer_heightfield.cpp:94): when the map asked for last has  *)
(* arrived, wherever it came from.                                         *)
SwappedOnMismatch == pc = "idle" /\ ready /\ dmap.stamp = loads => Fits

(* The axes fit the picture and the map that a frame draws, in whatever    *)
(* order the two were asked for, arrive, fail and replace each other: as   *)
(* long as the map was decoded for it, and not restored from the cache.    *)
DecodedMapsFit == pc = "idle" /\ ready /\ dmap.from # "cache" => Fits
=============================================================================
