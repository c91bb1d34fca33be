--------------------------- MODULE MCStoreManager ----------------------------
(***************************************************************************)
(* Instances of StoreManager for TLC.  Workers, senders and checkers are   *)
(* symmetric in the runs that check safety only; times are ordered.        *)
(***************************************************************************)
EXTENDS StoreManager, TLC

Symmetry ==
    Permutations(Workers) \cup Permutations(Senders) \cup Permutations(Checkers)
==============================================================================
