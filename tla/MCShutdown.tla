----------------------------- MODULE MCShutdown ------------------------------
(***************************************************************************)
(* Instances of Shutdown for TLC.                                          *)
(***************************************************************************)
EXTENDS Shutdown, TLC

\* Every goroutine runs once, so that the counter never falls below this.
MCCounterBound == -Cardinality(Asyncs)
==============================================================================
