------------------------------ MODULE MCDelivery -----------------------------
(***************************************************************************)
(* Instances of Delivery for TLC.  Block hashes and calls are symmetric;   *)
(* slots are ordered.                                                      *)
(***************************************************************************)
EXTENDS Delivery, TLC

Symmetry == Permutations(Hashes) \cup Permutations(Requests)
==============================================================================
