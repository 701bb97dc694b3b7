----------------------------- MODULE MCRollMut ------------------------------
(***************************************************************************)
(* Instances of RollMut: pool buffers of two bytes, boxes of up to four.   *)
(***************************************************************************)
EXTENDS RollMut, TLC

Symmetry == Permutations(Rolls)
=============================================================================
