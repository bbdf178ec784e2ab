------------------------ MODULE MCReadbackPresenter ------------------------
(***************************************************************************)
(* Instances of ReadbackPresenter for TLC.                                 *)
(***************************************************************************)
EXTENDS ReadbackPresenter
=============================================================================
