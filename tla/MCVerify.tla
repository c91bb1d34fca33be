------------------------------ MODULE MCVerify -------------------------------
(***************************************************************************)
(* Instances of Verify for TLC.  Workers and callers are symmetric in the  *)
(* runs that check safety only.                                            *)
(***************************************************************************)
EXTENDS Verify, TLC

Symmetry == Permutations(Workers) \cup Permutations(Registers)
==============================================================================
