------------------------------ MODULE MCBeacon -------------------------------
(***************************************************************************)
(* Instances of Beacon for TLC.                                            *)
(***************************************************************************)
EXTENDS Beacon, TLC
==============================================================================
