------------------------------ MODULE FrameIds ------------------------------
(***************************************************************************)
(* The frame ids bgfx hands out: bgfx::frame() counts submitted frames in  *)
(* a uint32_t that wraps, and engine::DeferredDeleteQueue compares two     *)
(* such ids to tell whether a resource's frame has been retired.           *)
(***************************************************************************)
EXTENDS Integers

CONSTANT IdMod   \* number of frame ids: 2^32 in the program

ASSUME IdModAssumption == IdMod \in Nat /\ IdMod >= 4

FrameId == 0 .. IdMod - 1

(* The id of the n-th frame since bgfx::init.                              *)
IdOf(n) == n % IdMod

(* DeferredDeleteQueue::kNeverRetired and every other use of               *)
(* numeric_limits<uint32_t>::max() as "no frame": the largest id itself.   *)
NeverRetired == IdMod - 1

(* DeferredDeleteQueue::isRetired: int32_t(retiredFrame - safeFrame) >= 0. *)
IsRetired(retiredFrame, safeFrame) ==
    /\ safeFrame # NeverRetired
    /\ (retiredFrame - safeFrame) % IdMod < IdMod \div 2
=============================================================================
