--------------------------------- MODULE Bids --------------------------------
(***************************************************************************)
(* Bids and the ring of slots, shared by the auction modules.  A bid is a  *)
(* structs.BuilderBidExtended cut down to what the auction looks at.       *)
(***************************************************************************)
EXTENDS Naturals

CONSTANTS
    Builders,   \* builder public keys
    Parents,    \* parent block hashes
    Slots,      \* slots a bid may be for
    Values,     \* bid values
    NoBid       \* absence of a map entry (Go's ok = false)

NumberOfSlotsInState == 2

Positions == 0 .. NumberOfSlotsInState - 1

\* The position of slot s in the ring.
Position(s) == s % NumberOfSlotsInState

Bid == [slot : Slots, parent : Parents, builder : Builders, value : Values]

ASSUME BidsAssumption ==
    /\ Slots \subseteq Nat
    /\ Values \subseteq Nat
    /\ NoBid \notin Bid

\* A table of last bids: one entry for each LatestKey{Pk, ParentHash}.
Table == [Builders -> [Parents -> Bid \cup {NoBid}]]

EmptyTable == [b \in Builders |-> [p \in Parents |-> NoBid]]

\* The table with a bid recorded under its LatestKey.
Recorded(table, bid) == [table EXCEPT ![bid.builder][bid.parent] = bid]

\* The bids on parent p recorded in a table.
On(table, p) == { table[b][p] : b \in Builders } \ {NoBid}

\* m wins among the bids S: it is one of them and none is higher.
Wins(m, S) ==
    IF S = {} THEN m = NoBid
              ELSE m \in S /\ \A b \in S : b.value <= m.value
==============================================================================
