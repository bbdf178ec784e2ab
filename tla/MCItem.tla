------------------------------- MODULE MCItem -------------------------------
(***************************************************************************)
(* What a viewport item and the TestBridge's probe of it do with what they *)
(* are asked.  Live shaders, their compiler, mouse and camera, a click's   *)
(* geometry, and the probe's handles have no state in common: each is      *)
(* explored alone, the sum of their states, not the product.  The mouse is *)
(* explored with frames that find no map; the requests of the scene with   *)
(* the wheel only.                                                         *)
(***************************************************************************)
EXTENDS ItemProofs, LiveShader, ShaderCompile, ViewportInput, OverlayPick, QmlProbe

CONSTANTS
    b1, b2, a1, a2, a3,
    SceneEvents,  \* bound: calls while the requests of the scene are explored
    Explored      \* the parts to explore

VARIABLE explored

Rect(id, kind, x, y, w, h) ==
    [id |-> id, coordType |-> kind, at |-> <<x, y>>, extent |-> <<w, h>>,
     image |-> <<0, 0>>, turns |-> 0]

\* Rectangles of every kind, inside the map, across its edge and turned;
\* those of an algorithm are inside.
Beyond  == Rect(1, "TopLeftPixels", -1, 0, 2, 1)
InPixel == Rect(2, "TopLeftPixels", 2, 1, 1, 2)
InParts == Rect(3, "NormalizedCenter", 1, 1, 2, 1)
InImage == [Rect(4, "PixelCenter", 2, -2, 2, 4) EXCEPT !.image = <<8, 0>>]
Found(id, x, y) == Rect(-id, "TopLeftPixels", x, y, 1, 1)
Flat    == Rect(5, "TopLeftPixels", 1, 1, 0, 2)
SideWays(rect) == [rect EXCEPT !.turns = 1]

McRectLists ==
    {<<Beyond, InPixel>>, <<InImage, InParts>>,
     <<Found(2, 0, 2), Found(3, 2, 4), Found(4, 1, 4)>>}
McMapSizes == {<<4, 6>>, <<6, 4>>}

McRectPool == {Beyond, InPixel, InParts, InImage, Flat, SideWays(InParts), SideWays(InImage)}
McHeights  == {0, 2, NotFinite}
McRays ==
    [origin : {<<x, y>> : x \in {-10, 0, 6}, y \in {-18, -4, 8}},
     along : {<<0, 0>>, <<4, -4>>}, height : {-1, 1, 3}, up : {-1, 1}]
McSights ==
    [size : {<<4, 6>>}, rects : McRectPool \X McRectPool,
     heights : {<<0>>} \cup (McHeights \X McHeights), ray : McRays]

McWheels == {-1, 2}

Box(lo, hi, clip) == [lo |-> lo, hi |-> hi, clip |-> clip, visible |-> TRUE]
McShapes == {Box(0, 3, FALSE), [Box(0, 3, FALSE) EXCEPT !.visible = FALSE]}

\* Items that stick out of others, with and without a clip.
McStickingOut == {Box(0, 3, FALSE), Box(0, 0, FALSE), Box(1, 2, TRUE)}
-----------------------------------------------------------------------------
SomeSight == [size |-> <<4, 6>>, rects |-> <<Flat>>, heights |-> <<>>,
              ray |-> [origin |-> <<0, 0>>, along |-> <<0, 0>>, height |-> 3, up |-> -1]]
SomeHeap ==
    [a \in Addresses |->
        IF a = a1 THEN [stamp |-> 1, name |-> "", parent |-> Free,
                        children |-> <<>>, shape |-> Box(0, 3, FALSE)] ELSE Free]

vars == <<shaders, compiler, input, sight, picked, probe, explored>>

Init ==
    /\ explored \in Explored
    /\ IF explored = "shader" THEN ShaderInit ELSE noCompute = TRUE /\ ShaderInit
    /\ IF explored = "compile" THEN CompilerInit
       ELSE renderer = (CHOOSE r \in Renderers : TRUE) /\ CompilerInit
    /\ pos = 0
    /\ IF explored \in {"mouse", "scene"} THEN TRUE ELSE locked = FALSE
    /\ InputInit
    /\ IF explored = "pick" THEN PickInit ELSE sight = SomeSight /\ picked = Unpicked
    /\ heap = SomeHeap /\ ProbeInit

\* No map, and so no fit.
MouseOnly == MouseNext \/ \E ok \in BOOLEAN : Frame(ok, NoMap, Far)

SceneOnly ==
    \/ events < SceneEvents /\ (SceneNext \/ \E step \in Wheels : Wheel(step))
    \/ \E ok \in BOOLEAN, arrived \in MapSizes \cup {NoMap}, fit \in {Near, Far} :
         Frame(ok, arrived, fit)

Next ==
    /\ UNCHANGED explored
    /\ \/ /\ explored = "shader" /\ ShaderNext
          /\ UNCHANGED <<compiler, input, sight, picked, probe>>
       \/ /\ explored = "compile" /\ CompilerNext
          /\ UNCHANGED <<shaders, input, sight, picked, probe>>
       \/ /\ explored = "mouse" /\ MouseOnly
          /\ UNCHANGED <<shaders, compiler, sight, picked, probe>>
       \/ /\ explored = "scene" /\ SceneOnly
          /\ UNCHANGED <<shaders, compiler, sight, picked, probe>>
       \/ /\ explored = "pick" /\ PickOverlayRect
          /\ UNCHANGED <<shaders, compiler, input, probe>>
       \/ /\ explored = "probe" /\ ProbeNext
          /\ UNCHANGED <<shaders, compiler, input, sight, picked>>

Spec == Init /\ [][Next]_vars
=============================================================================
