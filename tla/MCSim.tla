-------------------------------- MODULE MCSim --------------------------------
(***************************************************************************)
(* Instances of Sim for TLC.  Addresses and calls are symmetric.           *)
(***************************************************************************)
EXTENDS Sim, TLC

Symmetry == Permutations(Keepers) \cup Permutations(Requests)

MCClients == <<"ws", "http">>
==============================================================================
