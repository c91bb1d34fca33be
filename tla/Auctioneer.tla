----------------------------- MODULE Auctioneer ------------------------------
(***************************************************************************)
(* The auctioneer of auction/auctioneer.go: a ring of pointers to Auction  *)
(* objects, one per slot modulo NumberOfSlotsInState.  AddBlock and        *)
(* MaxProfitBlock first load a pointer from the ring without any lock and  *)
(* then work on the object under the object's own mutex, so each call is   *)
(* two steps here: the load, and the whole locked body.                    *)
(*                                                                         *)
(* Objects live in a garbage-collected heap: an object that neither the    *)
(* ring nor a running call refers to is free to be allocated again.        *)
(***************************************************************************)
EXTENDS Bids

CONSTANTS
    Submitters,   \* goroutines calling AddBlock
    Readers,      \* goroutines calling MaxProfitBlock
    AuctionId,    \* addresses of Auction objects
    Nil           \* no pointer held, no query running

Query == [slot : Slots, parent : Parents]

\* Type Auction: its slot, the winner of each parent, and the last bids.
Auction ==
    [Slot : Nat,
     maxProfit : [Parents -> Bid \cup {NoBid}],
     latestBlockByBuilder : Table]

ASSUME AuctioneerAssumption ==
    /\ \E a, b \in AuctionId : a # b
    /\ Nil \notin AuctionId
    /\ Nil \notin Query
    /\ Submitters \cap Readers = {}

VARIABLES
    auctions,   \* the ring: a pointer for each position
    heap,       \* the Auction object at each address
    ptr,        \* the pointer each running call has loaded
    adding,     \* the bid each running AddBlock was called with
    added,      \* what each submitter's last AddBlock returned
    asking,     \* the query each running MaxProfitBlock was called with
    served      \* what each reader's last MaxProfitBlock returned

vars == <<auctions, heap, ptr, adding, added, asking, served>>

-----------------------------------------------------------------------------
\* A new Auction{Slot: s} with two empty maps.
EmptyAuction(s) ==
    [Slot |-> s,
     maxProfit |-> [p \in Parents |-> NoBid],
     latestBlockByBuilder |-> EmptyTable]

\* The addresses the ring or some running call refers to.
Reachable(ring, held) ==
    { ring[i] : i \in Positions } \cup { held[g] : g \in Submitters \cup Readers }

\* The heap with every unreachable object cleared.
Collect(h, ring, held) ==
    [a \in AuctionId |-> IF a \in Reachable(ring, held) THEN h[a] ELSE EmptyAuction(0)]

Free == AuctionId \ Reachable(auctions, ptr)

\* The address the next allocation returns.
New == CHOOSE a \in AuctionId : a \in Free

\* Two distinct addresses for the auctions NewAuctioneer allocates.
FirstRing ==
    CHOOSE ring \in [Positions -> AuctionId] :
        \A i, j \in Positions : i # j => ring[i] # ring[j]

\* NewAuctioneer: position i starts with an empty auction for slot i.
Init ==
    /\ auctions = FirstRing
    /\ ptr = [g \in Submitters \cup Readers |-> Nil]
    /\ heap = [a \in AuctionId |->
                 IF \E i \in Positions : a = auctions[i]
                 THEN EmptyAuction(CHOOSE i \in Positions : a = auctions[i])
                 ELSE EmptyAuction(0)]
    /\ adding = [g \in Submitters |-> NoBid]
    /\ added = [g \in Submitters |-> FALSE]
    /\ asking = [r \in Readers |-> Nil]
    /\ served = [r \in Readers |-> NoBid]

-----------------------------------------------------------------------------
\* AddBlock loads the pointer of the bid's position; no lock is held.
LoadForAdd(g, bid) ==
    /\ adding[g] = NoBid
    /\ adding' = [adding EXCEPT ![g] = bid]
    /\ ptr' = [ptr EXCEPT ![g] = auctions[Position(bid.slot)]]
    /\ added' = [added EXCEPT ![g] = FALSE]
    /\ UNCHANGED <<auctions, heap, asking, served>>

\* AddBlock returns res, leaving ring and heap h; its pointer is dropped.
Return(g, res, ring, h) ==
    /\ adding' = [adding EXCEPT ![g] = NoBid]
    /\ ptr' = [ptr EXCEPT ![g] = Nil]
    /\ added' = [added EXCEPT ![g] = res]
    /\ auctions' = ring
    /\ heap' = Collect(h, ring, ptr')
    /\ UNCHANGED <<asking, served>>

\* The auction of a running AddBlock with the bid entered under its
\* LatestKey and m as the winner of the bid's parent.
Entered(auction, bid, m) ==
    [auction EXCEPT !.latestBlockByBuilder = Recorded(@, bid),
                    !.maxProfit[bid.parent] = m]

\* "always discard submissions lower than latest slot"
DiscardOldSlot(g) ==
    /\ adding[g] # NoBid
    /\ heap[ptr[g]].Slot > adding[g].slot
    /\ Return(g, FALSE, auctions, heap)

\* Mutated form of OpenSlot: any other slot replaces the auction.
OpenAnySlot(g) ==
    LET bid == adding[g] IN
    /\ bid # NoBid
    /\ heap[ptr[g]].Slot # bid.slot
    /\ Free # {}
    /\ Return(g, TRUE, [auctions EXCEPT ![Position(bid.slot)] = New],
              [heap EXCEPT ![New] = EmptyAuction(bid.slot)])

\* A bid for a bigger slot puts a new, empty auction in the ring.  The bid
\* itself is written to the auction that has just left the ring.
OpenSlot(g) ==
    LET bid == adding[g] IN
    /\ bid # NoBid
    /\ heap[ptr[g]].Slot < bid.slot
    /\ Free # {}
    /\ Return(g, TRUE, [auctions EXCEPT ![Position(bid.slot)] = New],
              [heap EXCEPT ![New] = EmptyAuction(bid.slot),
                           ![ptr[g]] = Entered(@, bid, bid)])

\* Mutated form of AcceptBid: the bid wins but is not recorded as the last.
AcceptUnrecorded(g) ==
    LET bid == adding[g]
        auction == heap[ptr[g]]
        mp == auction.maxProfit[bid.parent] IN
    /\ bid # NoBid
    /\ auction.Slot = bid.slot
    /\ mp # NoBid => mp.value <= bid.value
    /\ Return(g, TRUE, auctions, [heap EXCEPT ![ptr[g]].maxProfit[bid.parent] = bid])

\* The first bid on its parent, or one that is not below the winner.
AcceptBid(g) ==
    LET bid == adding[g]
        auction == heap[ptr[g]]
        mp == auction.maxProfit[bid.parent] IN
    /\ bid # NoBid
    /\ auction.Slot = bid.slot
    /\ mp # NoBid => mp.value <= bid.value
    /\ Return(g, TRUE, auctions, [heap EXCEPT ![ptr[g]] = Entered(@, bid, bid)])

\* Mutated form of KeepWinner: every bid of the slot is reported as accepted.
KeepWinnerReports(g) ==
    LET bid == adding[g]
        auction == heap[ptr[g]]
        mp == auction.maxProfit[bid.parent] IN
    /\ bid # NoBid
    /\ auction.Slot = bid.slot
    /\ mp # NoBid
    /\ mp.value > bid.value
    /\ mp.builder # bid.builder
    /\ Return(g, TRUE, auctions, [heap EXCEPT ![ptr[g]] = Entered(@, bid, mp)])

\* A lower bid of a builder that is not the winner.
KeepWinner(g) ==
    LET bid == adding[g]
        auction == heap[ptr[g]]
        mp == auction.maxProfit[bid.parent] IN
    /\ bid # NoBid
    /\ auction.Slot = bid.slot
    /\ mp # NoBid
    /\ mp.value > bid.value
    /\ mp.builder # bid.builder
    /\ Return(g, FALSE, auctions, [heap EXCEPT ![ptr[g]] = Entered(@, bid, mp)])

\* Mutated form of Rescan: the lowered bid stays the winner.
RescanNothing(table, bid, mp) == {bid}

\* The values the loop over latestBlockByBuilder may leave in maxProfit:
\* it starts from the new bid and takes every bid of the old winner's slot
\* that is not below the current one, in the random order of a Go map.
Rescan(table, bid, mp) ==
    LET seen == { b \in On(table, bid.parent) : b.slot = mp.slot } IN
    IF \E b \in seen : bid.value <= b.value
    THEN { b \in seen : \A c \in seen : c.value <= b.value }
    ELSE {bid}

\* The winner resubmits with a lower bid: the biggest is reassigned.  The
\* call returns bid == mp, which compares the new pointer with that of the
\* winner it replaced: false, even when the new bid wins again.
Reassign(g) ==
    LET bid == adding[g]
        auction == heap[ptr[g]]
        mp == auction.maxProfit[bid.parent]
        entered == Entered(auction, bid, bid) IN
    /\ bid # NoBid
    /\ auction.Slot = bid.slot
    /\ mp # NoBid
    /\ mp.value > bid.value
    /\ mp.builder = bid.builder
    /\ \E m \in Rescan(entered.latestBlockByBuilder, bid, mp) :
          Return(g, FALSE, auctions, [heap EXCEPT ![ptr[g]] = Entered(@, bid, m)])

-----------------------------------------------------------------------------
\* MaxProfitBlock loads the pointer of the slot's position.
LoadForRead(r, q) ==
    /\ asking[r] = Nil
    /\ asking' = [asking EXCEPT ![r] = q]
    /\ ptr' = [ptr EXCEPT ![r] = auctions[Position(q.slot)]]
    /\ served' = [served EXCEPT ![r] = NoBid]
    /\ UNCHANGED <<auctions, heap, adding, added>>

\* Mutated form of Answer: the slot of the winner is not compared.
AnswerAnySlot(auction, q) == auction.maxProfit[q.parent]

\* The answer to a query in an auction: its winner, if it is for that slot.
Answer(auction, q) ==
    LET mp == auction.maxProfit[q.parent] IN
    IF mp # NoBid /\ mp.slot = q.slot THEN mp ELSE NoBid

\* The body of MaxProfitBlock, under the read lock.
MaxProfitBlock(r) ==
    /\ asking[r] # Nil
    /\ served' = [served EXCEPT ![r] = Answer(heap[ptr[r]], asking[r])]
    /\ asking' = [asking EXCEPT ![r] = Nil]
    /\ ptr' = [ptr EXCEPT ![r] = Nil]
    /\ heap' = Collect(heap, auctions, ptr')
    /\ UNCHANGED <<auctions, adding, added>>

AddBlock(g) ==
    DiscardOldSlot(g) \/ OpenSlot(g) \/ AcceptBid(g) \/ KeepWinner(g) \/ Reassign(g)

Next ==
    \/ \E g \in Submitters :
          \/ \E bid \in Bid : LoadForAdd(g, bid)
          \/ AddBlock(g)
    \/ \E r \in Readers :
          \/ \E q \in Query : LoadForRead(r, q)
          \/ MaxProfitBlock(r)

Spec == Init /\ [][Next]_vars

-----------------------------------------------------------------------------
TypeOK ==
    /\ auctions \in [Positions -> AuctionId]
    /\ heap \in [AuctionId -> Auction]
    /\ ptr \in [Submitters \cup Readers -> AuctionId \cup {Nil}]
    /\ adding \in [Submitters -> Bid \cup {NoBid}]
    /\ added \in [Submitters -> BOOLEAN]
    /\ asking \in [Readers -> Query \cup {Nil}]
    /\ served \in [Readers -> Bid \cup {NoBid}]

\* The auction in the ring at a position.
Live(i) == heap[auctions[i]]

\* Auction a keeps its books: the winner of each parent is one of the
\* builders' last bids on it and none of those is higher; the last bids are
\* under their own builder and parent and for the auction's own slot.
Sound(a) ==
    \A p \in Parents :
        /\ Wins(a.maxProfit[p], On(a.latestBlockByBuilder, p))
        /\ \A b \in Builders :
              LET bid == a.latestBlockByBuilder[b][p] IN
              bid # NoBid => bid.slot = a.Slot /\ bid.parent = p /\ bid.builder = b

\* In every auction of the ring the winner of each parent is the best of the
\* builders' last bids for that slot, whatever running calls hold stale
\* pointers: this is what the incremental update of maxProfit in AddBlock
\* must keep, the rescan after a winner lowers its bid included.
WinnersAreBest == \A i \in Positions : Sound(Live(i))

\* The positions of the ring hold distinct auctions, each for a slot of its
\* position, and the pointer a running call loaded is to an auction of the
\* position of its slot, in the ring or not: two calls that meet in one
\* auction's mutex always work on the same position, so AddBlock replaces
\* the very pointer it loaded or one that has replaced it.
PointersMatchPositions ==
    /\ \A i, j \in Positions : auctions[i] = auctions[j] => i = j
    /\ \A i \in Positions : Position(Live(i).Slot) = i
    /\ \A g \in Submitters : adding[g] # NoBid =>
          ptr[g] # Nil /\ Position(heap[ptr[g]].Slot) = Position(adding[g].slot)
    /\ \A r \in Readers : asking[r] # Nil =>
          ptr[r] # Nil /\ Position(heap[ptr[r]].Slot) = Position(asking[r].slot)

\* The answer a returning MaxProfitBlock gives is for the slot and parent it
\* was asked for; if the auction it loaded is still in the ring, it is the
\* best of the last bids there, and none exactly when there is none or
\* another slot is open.
AnswersBest(r) ==
    LET q == asking[r]
        auction == Live(Position(q.slot)) IN
    (q # Nil /\ asking'[r] = Nil) =>
        /\ served'[r] # NoBid =>
              served'[r].slot = q.slot /\ served'[r].parent = q.parent
        /\ ptr[r] = auctions[Position(q.slot)] =>
              IF auction.Slot = q.slot
              THEN Wins(served'[r], On(auction.latestBlockByBuilder, q.parent))
              ELSE served'[r] = NoBid

\* MaxProfitBlock only ever returns a bid for the slot and parent asked for,
\* even from an auction that left the ring after it was loaded, and the best
\* one when that auction is still there.
ServedIsBest == [][\A r \in Readers : AnswersBest(r)]_vars

\* A position of the ring never goes back to an earlier slot: AddBlock is
\* to "always discard submissions lower than latest slot".
SlotNeverGoesBack ==
    [][\A i \in Positions : Live(i)'.Slot >= Live(i).Slot]_vars

\* When AddBlock returns true, which its callers take for a new maximum, the
\* bid is the winner of its slot and parent in the auction that is served.  The
\* bid that opens a slot is left out: it is written to the auction it replaces.
AddedIsWinner ==
    [][\A g \in Submitters :
         LET bid == adding[g] IN
         (/\ bid # NoBid /\ adding'[g] = NoBid /\ added'[g]
          /\ ptr[g] = auctions[Position(bid.slot)] /\ heap[ptr[g]].Slot = bid.slot)
         => heap'[auctions'[Position(bid.slot)]].maxProfit[bid.parent] = bid]_vars

\* The ring of auctions implements the book of last bids: every call leaves
\* it alone, enters one bid, or starts one position over.
Book ==
    INSTANCE BidBook WITH
        slot <- [i \in Positions |-> Live(i).Slot],
        latest <- [i \in Positions |-> Live(i).latestBlockByBuilder],
        best <- [i \in Positions |-> Live(i).maxProfit]

ImplementsBook == Book!Spec

\* The bids of auction a are recorded under their own parent.
KeyedByParent(a) ==
    \A p \in Parents :
        /\ a.maxProfit[p] # NoBid => a.maxProfit[p].parent = p
        /\ \A bid \in On(a.latestBlockByBuilder, p) : bid.parent = p

\* The inductive invariant: what the theorems about the auctioneer rest on.
IInv ==
    /\ TypeOK
    /\ WinnersAreBest
    /\ PointersMatchPositions
    /\ \A a \in AuctionId : KeyedByParent(heap[a])

\* The auction a running AddBlock loaded is still in the ring: inductive
\* when one call of AddBlock runs at a time, and what SlotNeverGoesBack needs.
LoadedIsLive ==
    \A g \in Submitters :
        adding[g] # NoBid => ptr[g] = auctions[Position(adding[g].slot)]
==============================================================================
