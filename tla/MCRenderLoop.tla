---------------------------- MODULE MCRenderLoop ----------------------------
(***************************************************************************)
(* RenderLoop on small instances: the ring of the program, and the settle  *)
(* margin (20 frames) shortened to 5, still longer than the ring is deep.  *)
(***************************************************************************)
EXTENDS RenderLoop
=============================================================================
