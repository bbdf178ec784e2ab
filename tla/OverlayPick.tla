----------------------------- MODULE OverlayPick -----------------------------
(***************************************************************************)
(* Which rectangle a click in the viewport finds.  Rectangles become       *)
(* parallelograms in the local plane of the terrain, each floating at the  *)
(* greatest height of the terrain under it; the ray of the click finds the *)
(* one that it meets first.                                                *)
(*                                                                         *)
(* Local coordinates are scaled by the height of the map, and so run from  *)
(* -size to size in units of 1/Pixel of a pixel.  A ray is its origin and  *)
(* its direction, straight up or down by one unit of height at a time.     *)
(***************************************************************************)
EXTENDS OverlayGeometry, Subsequences

CONSTANTS Sights, NotFinite, Unpicked
    \* Sights: what a click may see, [size, rects, heights, ray]

ASSUME PickAssumption ==
    /\ NotFinite \notin Int /\ Unpicked \notin Int
    /\ Sights \subseteq [size : Sizes, rects : Seq(Rectangles),
                        heights : Seq(Int \cup {NotFinite}),
                        ray : [origin : [Axes -> Int], along : [Axes -> Int],
                               height : Int, up : {-1, 1}]]

VARIABLES
    sight,
    picked     \* the id that pickOverlayRect returned
-----------------------------------------------------------------------------
(* The world branch of the conversion in buildOverlayMeshCpu.              *)
Turned(v, rect) == IF rect.turns = 1 THEN QuarterTurned(v) ELSE v

Quad(rect, size) ==
    LET b(axis) == Bounds(rect, size, axis)
        centre == [axis \in Axes |-> b(axis).lo + b(axis).hi - Pixel * size[axis]]
        u == Turned(<<2 * (b(1).hi - b(1).lo), 0>>, rect)
        v == Turned(<<0, 2 * (b(2).hi - b(2).lo)>>, rect)
    IN  [id |-> rect.id, u |-> u, v |-> v,
         corner |-> [axis \in Axes |-> centre[axis] - (u[axis] + v[axis]) \div 2]]

(* uLen2 and vLen2 are compared with 1e-6 there; that is 0 for rectangles   *)
(* whose sides are no less than a thousandth of a unit.                    *)
Shown(rects, size) ==
    Subsequence(rects, {i \in DOMAIN rects : ~Degenerate(rects[i], size)})

Quads(rects, size) ==
    LET shown == Shown(rects, size)
    IN  [i \in 1 .. Len(shown) |-> Quad(shown[i], size)]

PointInQuadHalf(p, quad) ==    \* mutant: the corner is taken for the centre
    LET w == <<p[1] - quad.corner[1], p[2] - quad.corner[2]>>
        denom == quad.u[1] * quad.v[2] - quad.u[2] * quad.v[1]
        a == 2 * (w[1] * quad.v[2] - w[2] * quad.v[1])
        b == 2 * (quad.u[1] * w[2] - quad.u[2] * w[1])
    IN  {a, b} \subseteq (-denom) .. denom

(* pointInQuad2D; denom is the area of the quad, which is positive.        *)
PointInQuad(p, quad) ==
    LET w == <<p[1] - quad.corner[1], p[2] - quad.corner[2]>>
        denom == quad.u[1] * quad.v[2] - quad.u[2] * quad.v[1]
        a == w[1] * quad.v[2] - w[2] * quad.v[1]
        b == quad.u[1] * w[2] - quad.u[2] * w[1]
    IN  denom # 0 /\ {a, b} \subseteq 0 .. denom

At(ray, t)           == [axis \in Axes |-> ray.origin[axis] + t * ray.along[axis]]
Reach(ray, height)   == (height - ray.height) * ray.up

(* The loop of pickOverlayRect.                                            *)
Meets(ray, quad, height) ==
    /\ height # NotFinite
    /\ Reach(ray, height) >= 0
    /\ PointInQuad(At(ray, Reach(ray, height)), quad)

Nearer(quads, heights, ray, i, best) ==
    IF Meets(ray, quads[i], heights[i])
       /\ (best = 0 \/ Reach(ray, heights[i]) < Reach(ray, heights[best]))
    THEN i ELSE best

NearestMet(quads, heights, ray) ==
    LET best[n \in 0 .. Len(quads)] ==
            IF n = 0 THEN 0 ELSE Nearer(quads, heights, ray, n, best[n - 1])
    IN  best[Len(quads)]

PickInit == sight \in Sights /\ picked = Unpicked

PickOverlayRect ==
    LET quads == Quads(sight.rects, sight.size)
        best  == NearestMet(quads, sight.heights, sight.ray)
    IN  /\ picked = Unpicked
        /\ picked' = IF Len(sight.heights) < Len(quads) \/ best = 0
                     THEN -1 ELSE quads[best].id
        /\ UNCHANGED sight
-----------------------------------------------------------------------------
(* The rectangle covers the point p of the plane: p is no further from its *)
(* centre, along either axis of the map, than half its extent along this   *)
(* axis after its quarter turn.                                            *)
Covers(rect, size, p) ==
    \A axis \in Axes :
        LET own    == IF rect.turns = 1 THEN 3 - axis ELSE axis
            centre == Bounds(rect, size, axis).lo + Bounds(rect, size, axis).hi
            extent == Bounds(rect, size, own).hi - Bounds(rect, size, own).lo
        IN  p[axis] + Pixel * size[axis] \in (centre - extent) .. (centre + extent)

(* A click finds a rectangle exactly if it points at one: the id returned  *)
(* is that of a rectangle which covers the point where the click's ray     *)
(* reaches its height, in front of the camera and before any other; -1     *)
(* only if there is none, or heights are missing.                          *)
PickedIsNearest ==
    LET shown == Shown(sight.rects, sight.size)
        under == {i \in DOMAIN shown \cap DOMAIN sight.heights :
                     LET h == sight.heights[i] IN
                     /\ h # NotFinite /\ Reach(sight.ray, h) >= 0
                     /\ Covers(shown[i], sight.size, At(sight.ray, Reach(sight.ray, h)))}
    IN  picked # Unpicked =>
            IF under = {} \/ Len(sight.heights) < Len(shown)
            THEN picked = -1
            ELSE \E i \in under :
                    /\ picked = shown[i].id
                    /\ \A j \in under : Reach(sight.ray, sight.heights[i])
                                           <= Reach(sight.ray, sight.heights[j])
=============================================================================
