------------------------------- MODULE BidBook -------------------------------
(***************************************************************************)
(* What the auction promises, with no pointers, locks or maps of maxima:   *)
(* for each position of the ring, the slot that is open there, the last    *)
(* bid of every builder on every parent block, and the winning bid of      *)
(* every parent, which is one of the highest of those last bids.           *)
(***************************************************************************)
EXTENDS Bids

VARIABLES
    slot,     \* slot[i]: the slot open at position i
    latest,   \* latest[i][b][p]: the last bid of builder b on parent p
    best      \* best[i][p]: the winning bid on parent p

bookVars == <<slot, latest, best>>

Init ==
    /\ slot = [i \in Positions |-> i]
    /\ latest = [i \in Positions |-> EmptyTable]
    /\ best = [i \in Positions |-> [p \in Parents |-> NoBid]]

\* The position of slot s starts over, for s, with no bids.
Open(s) ==
    LET i == Position(s) IN
    /\ slot' = [slot EXCEPT ![i] = s]
    /\ latest' = [latest EXCEPT ![i] = EmptyTable]
    /\ best' = [best EXCEPT ![i] = [p \in Parents |-> NoBid]]

\* A bid for an open slot replaces its builder's last one on that parent,
\* and m, the highest of the last bids there, wins the parent.
Enter(bid, m) ==
    LET i == Position(bid.slot) IN
    /\ slot[i] = bid.slot
    /\ latest' = [latest EXCEPT ![i] = Recorded(@, bid)]
    /\ Wins(m, On(Recorded(latest[i], bid), bid.parent))
    /\ best' = [best EXCEPT ![i] = [@ EXCEPT ![bid.parent] = m]]
    /\ UNCHANGED slot

Next ==
    \/ \E s \in Slots : Open(s)
    \/ \E bid, m \in Bid : Enter(bid, m)

Spec == Init /\ [][Next]_bookVars
==============================================================================
