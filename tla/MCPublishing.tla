---------------------------- MODULE MCPublishing ----------------------------
(***************************************************************************)
(* Instances of Publishing for TLC: which publication is which does not    *)
(* matter, the ways to publish are all tried.                              *)
(***************************************************************************)
EXTENDS Publishing, TLC

MCSymmetry == Permutations(Publications)
=============================================================================
