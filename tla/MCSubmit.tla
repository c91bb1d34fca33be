------------------------------ MODULE MCSubmit -------------------------------
(***************************************************************************)
(* Instances of Submit for TLC.  Two builders; the submissions differ in   *)
(* what the checks look at.                                                *)
(***************************************************************************)
EXTENDS Submit, TLC

Good(builder, slot, value) ==
    [slot |-> slot, parent |-> "p", traceParent |-> "p", hash |-> builder, traceHash |-> builder,
     builder |-> builder, value |-> value, numTx |-> 1, random |-> TRUE, withdrawals |-> "right"]

MCSubmissions ==
    { Good(1, 2, 1), Good(1, 3, 1),
      [Good(1, 3, 2) EXCEPT !.traceHash = 9],
      [Good(2, 3, 1) EXCEPT !.withdrawals = "nil", !.random = FALSE],
      [Good(2, 3, 2) EXCEPT !.withdrawals = "wrong"],
      [Good(2, 3, 0) EXCEPT !.withdrawals = "nil", !.numTx = 0] }
==============================================================================
