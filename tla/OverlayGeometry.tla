--------------------------- MODULE OverlayGeometry ---------------------------
(***************************************************************************)
(* Where overlay rectangles lie on a height map: their bounds in pixels of *)
(* the map, whatever way they were given, the side of the map they are     *)
(* nearest to, and the yaw of a camera that faces this side.               *)
(*                                                                         *)
(* A rectangle is [id, coordType, at, extent, image, turns]: at and extent *)
(* are a number for each axis (1 along a row, 2 down the rows), in pixels  *)
(* or, if normalized, in units of 1/Parts of the map; turns counts quarter *)
(* turns of its angle.  A map is its size, a number of pixels for each     *)
(* axis.  Results are in units of 1/Pixel of a pixel.  Angles are eighths  *)
(* of a turn.                                                              *)
(***************************************************************************)
EXTENDS Integers, Sequences, FiniteSets
LOCAL INSTANCE FiniteSetsExt

CONSTANTS Parts, ScoreUnit    \* how finely scores are told apart

ASSUME GeometryAssumption == {Parts, ScoreUnit} \subseteq Nat \ {0}

Pixel == 2 * Parts
Turn  == 8
Axes  == {1, 2}

Sizes      == [Axes -> Nat \ {0}]
Rectangles == [id : Int, coordType : {"TopLeftPixels", "NormalizedCenter", "PixelCenter"},
               at : [Axes -> Int], extent : [Axes -> Int], image : [Axes -> Int],
               turns : {0, 1}]
-----------------------------------------------------------------------------
(* The bounds of rect along an axis of a map, the smaller one first.       *)
Ordered(a, b) == IF a <= b THEN [lo |-> a, hi |-> b] ELSE [lo |-> b, hi |-> a]

Around(centre, half) == Ordered(centre - half, centre + half)

Bounds(rect, size, axis) ==
    LET pixels == size[axis]
        base   == IF rect.image[axis] > 0 THEN rect.image[axis] ELSE pixels
    IN  CASE rect.coordType = "TopLeftPixels" ->
                Ordered(Pixel * rect.at[axis], Pixel * (rect.at[axis] + rect.extent[axis]))
          [] rect.coordType = "NormalizedCenter" ->
                Around(2 * pixels * rect.at[axis], pixels * rect.extent[axis])
          [] rect.coordType = "PixelCenter" ->
                Around((Pixel * pixels * rect.at[axis]) \div base + Parts * pixels,
                       (Parts * pixels * rect.extent[axis]) \div base)

Degenerate(rect, size) ==
    \E axis \in Axes : LET b == Bounds(rect, size, axis) IN b.lo = b.hi

(* How far a rectangle is from each side; negative if it sticks out.       *)
Sides == <<"Left", "Right", "Top", "Bottom">>

Distance(rect, size, side) ==
    CASE side = "Left"   -> Bounds(rect, size, 1).lo
      [] side = "Right"  -> Pixel * size[1] - Bounds(rect, size, 1).hi
      [] side = "Top"    -> Bounds(rect, size, 2).lo
      [] side = "Bottom" -> Pixel * size[2] - Bounds(rect, size, 2).hi

(* The first of the sides with the best value.                             *)
FirstBest(Better(_, _)) ==
    LET best(side, next) == IF Better(next, side) THEN next ELSE side
    IN  best(best(best("Left", "Right"), "Top"), "Bottom")

NearestSide(rect, size) ==
    FirstBest(LAMBDA s, t : Distance(rect, size, s) < Distance(rect, size, t))
-----------------------------------------------------------------------------
(* getAlgorithmDenseSideTargetYaw: rectangles that an algorithm found have *)
(* negative ids.  Each counts for the side it is nearest to, and the more  *)
(* the nearer; without limit if it sticks out by one pixel, and against    *)
(* the side if by more.  Angles are quarter turns here, for which the      *)
(* orientation weighs nothing.                                             *)
Supports(rect, size, side) ==
    rect.id < 0 /\ ~Degenerate(rect, size) /\ NearestSide(rect, size) = side

Limitless(rect, size, side) == Distance(rect, size, side) = -Pixel

SideScore(rects, size, side) ==
    LET for == {i \in DOMAIN rects : Supports(rects[i], size, side)}
        closeness(i) == ScoreUnit \div (Distance(rects[i], size, side) + Pixel)
    IN  IF for = {} THEN 0
        ELSE IF \E i \in for : Limitless(rects[i], size, side)
        THEN (Cardinality(for) + 1) * ScoreUnit
        ELSE MapThenSumSet(closeness, for)

DenseSide(rects, size) ==
    FirstBest(LAMBDA s, t : SideScore(rects, size, s) > SideScore(rects, size, t))

HasDenseSide(rects, size) == SideScore(rects, size, DenseSide(rects, size)) > 0
-----------------------------------------------------------------------------
(* The yaw of the camera that looks against the outward normal of a side,  *)
(* when the image is rotated by a number of quarter turns: local x and y   *)
(* are world x and -z.                                                     *)
Normal(side) ==
    CASE side = "Left"  -> <<-1, 0>>
      [] side = "Right" -> <<1, 0>>
      [] side = "Top"   -> <<0, -1>>
      [] side = "Bottom" -> <<0, 1>>

QuarterTurned(v) == <<-v[2], v[1]>>

Cos(quarters) == <<1, 0, -1, 0>>[quarters + 1]
Sin(quarters) == <<0, 1, 0, -1>>[quarters + 1]

Rotated(v, quarters) ==
    <<Cos(quarters) * v[1] - Sin(quarters) * v[2], Sin(quarters) * v[1] + Cos(quarters) * v[2]>>

YawOf(forward) ==    \* atan2(x, z)
    CASE forward = <<0, 1>>  -> 0
      [] forward = <<1, 0>>  -> Turn \div 4
      [] forward = <<0, -1>> -> Turn \div 2
      [] forward = <<-1, 0>> -> 3 * (Turn \div 4)

RotationForgotten(side, quarters) ==    \* mutant: the image's rotation is left out
    LET n == Normal(side) IN YawOf(<<-n[1], n[2]>>)

TargetYaw(side, quarters) ==
    LET n == Rotated(Normal(side), quarters) IN YawOf(<<-n[1], n[2]>>)

(* The first rectangle of an id.                                           *)
Has(rects, id)   == \E i \in DOMAIN rects : rects[i].id = id
First(rects, id) ==
    rects[CHOOSE i \in DOMAIN rects :
              rects[i].id = id /\ \A j \in 1 .. i - 1 : rects[j].id # id]
=============================================================================
