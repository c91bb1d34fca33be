------------------------------ MODULE MCBlocks ------------------------------
EXTENDS Blocks

Shape(fork, early, extra, txs, nil, withdrawals, bare) ==
  [fork |-> fork, early |-> early, sends |-> IF early THEN 2 ELSE 1,
   extra |-> extra, txs |-> txs, nil |-> nil, withdrawals |-> withdrawals, bare |-> bare]

(* Capella blocks with no, one and many of each list, at the limits of      *)
(* ExtraData (32 bytes) and of withdrawals (16) and one over, one without   *)
(* withdrawals, one sent before the first Capella head; a Bellatrix block.  *)
MCShapes ==
  {Shape("capella", FALSE, 0, << >>, FALSE, 0, TRUE), Shape("capella", FALSE, 1, <<7>>, FALSE, 1, FALSE),
   Shape("capella", FALSE, 32, <<3, 0>>, FALSE, 2, FALSE), Shape("capella", FALSE, 33, <<7>>, FALSE, 1, TRUE),
   Shape("capella", FALSE, 1, <<0>>, FALSE, 16, TRUE), Shape("capella", FALSE, 1, << >>, FALSE, 17, TRUE),
   Shape("capella", FALSE, 1, <<7>>, TRUE, 0, FALSE), Shape("capella", TRUE, 1, <<7>>, FALSE, 2, FALSE),
   Shape("bellatrix", FALSE, 1, <<7, 2>>, TRUE, 0, FALSE)}

(* Small Capella bodies are cut at the ends of the trace and the signature, *)
(* and around every chunk from the payload's last fixed field on.           *)
MCLimits(x) == IF x.fork = "bellatrix" \/ x.early \/ x.nil \/ x.withdrawals > 2 THEN {} ELSE {1, 10, 11, 12} \union 22..40
=============================================================================
