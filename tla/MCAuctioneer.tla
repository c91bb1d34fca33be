---------------------------- MODULE MCAuctioneer -----------------------------
(***************************************************************************)
(* Instances of Auctioneer for TLC.  Addresses are model values and        *)
(* allocation is deterministic, so no symmetry set is needed.              *)
(***************************************************************************)
EXTENDS Auctioneer, TLC
==============================================================================
