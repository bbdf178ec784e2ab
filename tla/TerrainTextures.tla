--------------------------- MODULE TerrainTextures ---------------------------
(***************************************************************************)
(* The textures of a terrain: those installed, retired and restored, of    *)
(* TerrainMaps, and those of the decode that makes a new one, of GpuDecode *)
(* (dispatchGpuHeightfieldDecode, which update calls).  A decode leaves    *)
(* open what TerrainMaps does meanwhile, so their steps interleave freely. *)
(***************************************************************************)
EXTENDS GpuDecode, TerrainMaps

TexturesNext ==
    \/ MapsNext /\ UNCHANGED gpuDecode
    \/ GpuNext /\ UNCHANGED maps

TexturesSpec == MapsInit /\ GpuInit /\ [][TexturesNext]_<<maps, gpuDecode>>

(* No texture is lost, destroyed twice or destroyed under its user: of     *)
(* those installed, retired and restored, and of the temporary ones of a   *)
(* GPU decode, whichever creations fail.                                   *)
TexturesGivenBack == DestroyedOnce /\ TemporariesReturned
=============================================================================
