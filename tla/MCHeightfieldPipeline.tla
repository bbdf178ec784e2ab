----------------------- MODULE MCHeightfieldPipeline -----------------------
(***************************************************************************)
(* HeightfieldPipeline with the picture on its maps, on small instances:   *)
(* maps of either orientation, and a picture that fits one of them.        *)
(***************************************************************************)
EXTENDS DiffuseTexture

McSize == [f \in Paths \cup Pictures |->
             CASE f = "wide.raw" -> [w |-> 2, h |-> 1]
               [] f = "tall.raw" -> [w |-> 1, h |-> 2]
               [] OTHER -> [w |-> 3, h |-> 2]]

FairPictureSpec == PictureSpec /\ Fairness
=============================================================================
