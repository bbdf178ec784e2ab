------------------------------ MODULE MCTerrain ------------------------------
(***************************************************************************)
(* What a viewport shows of a terrain, on small instances.  TerrainLod     *)
(* acts in the frames in which TerrainMaps draws and leaves open which     *)
(* these are; a decode ends in an Upload or Decode of TerrainMaps, which   *)
(* leaves open what is in the map; pass lists are built once; what is in   *)
(* TerrainResources is neither a map nor a shader; and AssetFetch is done  *)
(* with a file before the loader opens it.  So each part is explored       *)
(* alone: the sum of their states, not the product.                        *)
(***************************************************************************)
EXTENDS TerrainTextures, TerrainLod, FramePasses, TerrainResources, AssetFetch, TLC

VARIABLE explored

\* Bytes of 4 values.  Files of up to 4 bytes, all of them, and of 8 whose
\* last samples include voids; images of every format.
Bytes == UNION {[1 .. n -> Byte] : n \in {0, 1, 2, 4}}
            \cup {head \o tail : head \in [1 .. 4 -> Byte],
                                tail \in {<<0, 0, 2, 0>>, <<1, 3, 3, 2>>, <<2, 0, 2, 0>>}}
McFiles == [ext : {"hgt", "raw", "r16be"}, bytes : Bytes]

Pixels(format) ==
    CASE format = "R16" -> {0, 7}
      [] format = "R8" -> {0, 3}
      [] OTHER -> [r : {0, 3}, g : {1}, b : {0, 2}, a : {3}]
McImages == UNION {{[ext |-> "png", format |-> f, pixels |-> <<p>>] : p \in Pixels(f)} :
                      f \in {"R16", "R8", "RGBA8", "RGB8", "other"}}

\* Multiples of 36, as far apart as two trims need.
Elevations == {0, 36, 216, 252, 396, 432}
McHeightLists ==
    {h \in [1 .. 6 -> Elevations] : \A i \in 1 .. 5 : h[i] <= h[i + 1]}
    \cup [1 .. 3 -> Elevations \cup {NoHeight}] \cup {<<>>}

\* Heights that change with the order of the bytes, some below 0.
McHeight(bytes) == IF bytes[4] = 0 THEN NoHeight ELSE bytes[1] - bytes[3]

Void == [r |-> 0, g |-> 0, b |-> 0, a |-> 0]
Low  == [r |-> 2, g |-> 1, b |-> 0, a |-> 1]
High == [r |-> 0, g |-> 1, b |-> 3, a |-> 1]

\* Up to three workgroups of 2 x 2, in two passes, with partial groups.
PixelsOf(w, h) ==
    IF w = 5 THEN {<<High, Void, p, Low, q>> : p, q \in {Void, Low, High}}
    ELSE [1 .. w * h -> {Void, Low, High}]
McPictures ==
    UNION {[w : {s[1]}, h : {s[2]}, bgra : BOOLEAN, pixels : PixelsOf(s[1], s[2])] :
              s \in {<<1, 1>>, <<3, 1>>, <<2, 3>>, <<5, 1>>}}

SomeJob == [kind |-> "heights", heights |-> <<>>]
SomePicture == [w |-> 1, h |-> 1, bgra |-> TRUE, pixels |-> <<Void>>]

\* The first is a picture, and a heightfield too; the second is neither.
McBodies == {[magic |-> "jpg", size |-> 40], [magic |-> "text", size |-> 41]}

vars == <<maps, lod, base, passes, decode, gpuDecode, resources, assets, explored>>

Init ==
    /\ explored \in {"maps", "lod", "passes", "files", "gpu", "resources", "assets"}
    /\ IF explored = "maps" THEN MapsInit ELSE MapsInit /\ writable
    /\ LodInit
    /\ IF explored = "passes" THEN PassesInit ELSE base = <<>> /\ PassesInit
    /\ IF explored = "files" THEN DecodeInit ELSE job = SomeJob /\ DecodeInit
    /\ IF explored = "gpu" THEN GpuInit ELSE picture = SomePicture /\ GpuInit
    /\ IF explored = "resources" THEN ResourcesInit ELSE ResourcesInit /\ simple
    /\ IF explored = "assets" THEN AssetsInit ELSE urlExt = "" /\ AssetsInit

Next ==
    /\ UNCHANGED explored
    /\ \/ /\ explored = "maps" /\ MapsNext
          /\ UNCHANGED <<lod, base, passes, decode, gpuDecode, resources, assets>>
       \/ /\ explored = "lod" /\ LodNext
          /\ UNCHANGED <<maps, base, passes, decode, gpuDecode, resources, assets>>
       \/ /\ explored = "passes" /\ PassesNext
          /\ UNCHANGED <<maps, lod, decode, gpuDecode, resources, assets>>
       \/ /\ explored = "files" /\ DecodeNext
          /\ UNCHANGED <<maps, lod, base, passes, gpuDecode, resources, assets>>
       \/ /\ explored = "gpu" /\ GpuNext
          /\ UNCHANGED <<maps, lod, base, passes, decode, resources, assets>>
       \/ /\ explored = "resources" /\ ResourcesNext
          /\ UNCHANGED <<maps, lod, base, passes, decode, gpuDecode, assets>>
       \/ /\ explored = "assets" /\ AssetsNext
          /\ UNCHANGED <<maps, lod, base, passes, decode, gpuDecode, resources>>

Spec == Init /\ [][Next]_vars

Symmetry == Permutations(Maps) \cup Permutations(Renderers)

\* After a failed restore the properties of TerrainMaps promise nothing.
StillOwned == ~underUse
=============================================================================
