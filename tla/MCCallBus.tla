----------------------------- MODULE MCCallBus -----------------------------
(***************************************************************************)
(* Instances of CallBus for TLC.                                           *)
(***************************************************************************)
EXTENDS CallBus, TLC

WtxSymmetry == Permutations(Wtxs)
=============================================================================
