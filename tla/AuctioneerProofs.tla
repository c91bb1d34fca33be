-------------------------- MODULE AuctioneerProofs ---------------------------
(***************************************************************************)
(* Theorems about the auctioneer, for any number of builders, parents,     *)
(* slots, values, callers and addresses.                                   *)
(***************************************************************************)
EXTENDS Auctioneer, TLAPS

\* Every slot has a position in the ring.
LEMMA PositionType == \A s \in Nat : Position(s) \in Positions
  BY DEF Position, Positions, NumberOfSlotsInState

\* An empty auction is an auction whose books are sound.
LEMMA EmptyAuctionSound ==
    \A s \in Nat :
        /\ EmptyAuction(s) \in Auction
        /\ EmptyAuction(s).Slot = s
        /\ Sound(EmptyAuction(s))
        /\ KeyedByParent(EmptyAuction(s))
  BY DEF EmptyAuction, EmptyTable, Auction, Table, Sound, KeyedByParent, On, Wins

\* What entering a bid does to the fields of an auction.
LEMMA EnteredFields ==
    ASSUME NEW a \in Auction, NEW bid \in Bid, NEW m \in Bid
    PROVE  /\ Entered(a, bid, m) \in Auction
           /\ Entered(a, bid, m).Slot = a.Slot
           /\ \A p \in Parents : Entered(a, bid, m).maxProfit[p] =
                IF p = bid.parent THEN m ELSE a.maxProfit[p]
           /\ \A p \in Parents : \A b \in Builders :
                Entered(a, bid, m).latestBlockByBuilder[b][p] =
                  IF p = bid.parent /\ b = bid.builder THEN bid
                  ELSE a.latestBlockByBuilder[b][p]
  BY Zenon DEF Entered, Recorded, Auction, Table, Bid

\* The winner of a parent after a bid has been entered.
LEMMA EnteredMax ==
    ASSUME NEW a \in Auction, NEW bid \in Bid, NEW m \in Bid, NEW p \in Parents
    PROVE  Entered(a, bid, m).maxProfit[p] = IF p = bid.parent THEN m ELSE a.maxProfit[p]
  BY Zenon DEF Entered, Auction, Bid

\* Entering a bid gives an auction for the same slot.
LEMMA EnteredType ==
    \A a \in Auction : \A bid, m \in Bid :
        Entered(a, bid, m) \in Auction /\ Entered(a, bid, m).Slot = a.Slot
  BY EnteredFields

\* The last bids of sound books are for the auction's slot.
LEMMA SoundSlots ==
    ASSUME NEW a, NEW p \in Parents, Sound(a)
    PROVE  \A x \in On(a.latestBlockByBuilder, p) : x # NoBid /\ x.slot = a.Slot
<1>1. \A b \in Builders : a.latestBlockByBuilder[b][p] # NoBid =>
        a.latestBlockByBuilder[b][p].slot = a.Slot
  BY DEF Sound
<1> QED
  BY <1>1 DEF On

\* The bids on a parent after a bid has been entered.
LEMMA EnteredBids ==
    ASSUME NEW a \in Auction, NEW bid \in Bid, NEW m \in Bid, NEW p \in Parents,
           Sound(a)
    PROVE  LET old == On(a.latestBlockByBuilder, p)
               new == On(Entered(a, bid, m).latestBlockByBuilder, p) IN
           /\ p # bid.parent => new = old
           /\ p = bid.parent => bid \in new
           /\ p = bid.parent => \A x \in new : x = bid \/ x \in old
           /\ p = bid.parent => \A x \in old : x.builder = bid.builder \/ x \in new
           /\ old \subseteq Bid
           /\ new \subseteq Bid
<1> DEFINE old == On(a.latestBlockByBuilder, p)
           new == On(Entered(a, bid, m).latestBlockByBuilder, p)
<1>0. bid.builder \in Builders /\ bid # NoBid
  BY BidsAssumption DEF Bid
<1>1. \A x : x \in old <=> x # NoBid /\ \E b \in Builders : x = a.latestBlockByBuilder[b][p]
  BY DEF On
<1>2. \A x : x \in new <=>
        x # NoBid /\ \E b \in Builders : x = Entered(a, bid, m).latestBlockByBuilder[b][p]
  BY DEF On
<1>3. \A b \in Builders : Entered(a, bid, m).latestBlockByBuilder[b][p] =
        IF p = bid.parent /\ b = bid.builder THEN bid ELSE a.latestBlockByBuilder[b][p]
  BY EnteredFields
<1>4. \A b \in Builders : /\ a.latestBlockByBuilder[b][p] \in Bid \cup {NoBid}
                          /\ a.latestBlockByBuilder[b][p] # NoBid =>
                               a.latestBlockByBuilder[b][p].builder = b
  BY DEF Auction, Table, Sound
<1>5. p # bid.parent => new = old
  <2> SUFFICES ASSUME p # bid.parent
               PROVE  \A x : x \in new <=> x \in old
    BY DEF On
  <2> QED
    BY <1>1, <1>2, <1>3
<1> HIDE DEF old, new
<1>6. p = bid.parent => bid \in new
  BY <1>0, <1>2, <1>3
<1>7. p = bid.parent => \A x \in new : x = bid \/ x \in old
  BY <1>1, <1>2, <1>3
<1>8. p = bid.parent => \A x \in old : x.builder = bid.builder \/ x \in new
  BY <1>1, <1>2, <1>3, <1>4
<1>9. old \subseteq Bid /\ new \subseteq Bid
  BY <1>1, <1>2, <1>3, <1>4
<1> QED
  BY <1>5, <1>6, <1>7, <1>8, <1>9 DEF old, new

\* Entering a bid for the auction's slot keeps its books sound when the new
\* winner of the parent is one of the highest last bids.
LEMMA EnteredSound ==
    ASSUME NEW a \in Auction, NEW bid \in Bid, NEW m \in Bid,
           Sound(a), bid.slot = a.Slot,
           Wins(m, On(Entered(a, bid, m).latestBlockByBuilder, bid.parent))
    PROVE  Sound(Entered(a, bid, m))
<1> DEFINE new == Entered(a, bid, m)
<1> SUFFICES ASSUME NEW p \in Parents
             PROVE  /\ Wins(new.maxProfit[p], On(new.latestBlockByBuilder, p))
                    /\ \A b \in Builders :
                         new.latestBlockByBuilder[b][p] # NoBid =>
                           /\ new.latestBlockByBuilder[b][p].slot = new.Slot
                           /\ new.latestBlockByBuilder[b][p].parent = p
                           /\ new.latestBlockByBuilder[b][p].builder = b
  BY DEF Sound
<1>0. new.maxProfit[p] = IF p = bid.parent THEN m ELSE a.maxProfit[p]
  BY EnteredMax
<1>1. Wins(new.maxProfit[p], On(new.latestBlockByBuilder, p))
  <2>1. CASE p = bid.parent
    <3> HIDE DEF new
    <3> QED
      BY <1>0, <2>1 DEF new
  <2>2. CASE p # bid.parent
    <3>1. new.maxProfit[p] = a.maxProfit[p]
      BY <1>0, <2>2, Zenon
    <3>2. On(new.latestBlockByBuilder, p) = On(a.latestBlockByBuilder, p)
      BY <2>2, EnteredBids
    <3> QED
      BY <3>1, <3>2 DEF Sound
  <2> QED
    BY <2>1, <2>2
<1>2. ASSUME NEW b \in Builders, new.latestBlockByBuilder[b][p] # NoBid
      PROVE  /\ new.latestBlockByBuilder[b][p].slot = new.Slot
             /\ new.latestBlockByBuilder[b][p].parent = p
             /\ new.latestBlockByBuilder[b][p].builder = b
  <2>1. new.Slot = a.Slot
    BY EnteredFields
  <2>2. new.latestBlockByBuilder[b][p] =
          IF p = bid.parent /\ b = bid.builder THEN bid ELSE a.latestBlockByBuilder[b][p]
    BY EnteredFields
  <2> HIDE DEF new
  <2> QED
    BY <1>2, <2>1, <2>2 DEF Sound
<1> QED
  BY <1>1, <1>2

\* A bid that is not below the winner wins.
LEMMA AcceptedWins ==
    ASSUME NEW a \in Auction, NEW bid \in Bid, Sound(a),
           a.maxProfit[bid.parent] # NoBid => a.maxProfit[bid.parent].value <= bid.value
    PROVE  Wins(bid, On(Entered(a, bid, bid).latestBlockByBuilder, bid.parent))
<1> DEFINE old == On(a.latestBlockByBuilder, bid.parent)
           new == On(Entered(a, bid, bid).latestBlockByBuilder, bid.parent)
           mp == a.maxProfit[bid.parent]
<1>1. bid.parent \in Parents /\ bid.value \in Nat /\ \A x \in Bid : x.value \in Nat
  BY BidsAssumption, Zenon DEF Bid
<1>2. /\ bid \in new
      /\ \A x \in new : x = bid \/ x \in old
      /\ old \subseteq Bid
  BY <1>1, EnteredBids
<1>3. Wins(mp, old)
  BY <1>1 DEF Sound
<1>4. mp # NoBid => mp.value <= bid.value
  OBVIOUS
<1>5. \A x \in old : x # NoBid
  BY DEF On
<1> HIDE DEF old, new, mp
<1>6. \A x \in old : x.value <= bid.value
  BY <1>1, <1>2, <1>3, <1>4, <1>5 DEF Wins
<1>7. Wins(bid, new)
  BY <1>1, <1>2, <1>6 DEF Wins
<1> QED
  BY <1>7 DEF new

\* A winner of another builder stays the winner after a lower bid.
LEMMA KeptWins ==
    ASSUME NEW a \in Auction, NEW bid \in Bid, Sound(a),
           NEW mp \in Bid, mp = a.maxProfit[bid.parent],
           mp.value > bid.value, mp.builder # bid.builder
    PROVE  Wins(mp, On(Entered(a, bid, mp).latestBlockByBuilder, bid.parent))
<1> DEFINE old == On(a.latestBlockByBuilder, bid.parent)
           new == On(Entered(a, bid, mp).latestBlockByBuilder, bid.parent)
<1>1. bid.parent \in Parents /\ bid.value \in Nat /\ \A x \in Bid : x.value \in Nat
  BY BidsAssumption, Zenon DEF Bid
<1>2. /\ bid \in new
      /\ \A x \in new : x = bid \/ x \in old
      /\ \A x \in old : x.builder = bid.builder \/ x \in new
      /\ old \subseteq Bid
  BY <1>1, EnteredBids, Zenon
<1>3. Wins(mp, old)
  BY <1>1 DEF Sound
<1>4. mp # NoBid
  BY BidsAssumption
<1> HIDE DEF old, new
<1>5. Wins(mp, new)
  BY <1>1, <1>2, <1>3, <1>4 DEF Wins
<1> QED
  BY <1>5 DEF new

\* What the rescan finds after the winner lowered its bid wins.
LEMMA RescannedWins ==
    ASSUME NEW a \in Auction, NEW bid \in Bid, Sound(a), bid.slot = a.Slot,
           NEW mp \in Bid, mp = a.maxProfit[bid.parent],
           NEW m \in Rescan(Entered(a, bid, bid).latestBlockByBuilder, bid, mp)
    PROVE  m \in Bid /\ Wins(m, On(Entered(a, bid, m).latestBlockByBuilder, bid.parent))
<1> DEFINE old == On(a.latestBlockByBuilder, bid.parent)
           new == On(Entered(a, bid, bid).latestBlockByBuilder, bid.parent)
           seen == { b \in new : b.slot = mp.slot }
<1>1. bid.parent \in Parents /\ bid.value \in Nat
  BY BidsAssumption, Zenon DEF Bid
<1>2. /\ bid \in new
      /\ \A x \in new : x = bid \/ x \in old
      /\ new \subseteq Bid
  BY <1>1, EnteredBids
<1>3. Wins(mp, old) /\ mp # NoBid
  BY <1>1, BidsAssumption DEF Sound
<1>4. \A x \in old : x.slot = a.Slot
  BY <1>1, SoundSlots
<1>5. mp.slot = a.Slot
  BY <1>3, <1>4 DEF Wins
<1>6. seen = new
  BY <1>2, <1>4, <1>5
<1>7. m \in IF \E b \in new : bid.value <= b.value
           THEN { b \in new : \A c \in new : c.value <= b.value }
           ELSE {bid}
  BY <1>6 DEF Rescan
<1>8. m \in new /\ \A c \in new : c.value <= m.value
  <2> HIDE DEF new
  <2> QED
    BY <1>1, <1>2, <1>7
<1>9. m \in Bid
  BY <1>2, <1>8
<1>10. On(Entered(a, bid, m).latestBlockByBuilder, bid.parent) = new
  BY <1>9 DEF Entered, Recorded, Auction, Bid
<1> QED
  BY <1>8, <1>9, <1>10 DEF Wins

\* Entering a bid keeps bids under their own parent.
LEMMA EnteredKeyed ==
    ASSUME NEW a \in Auction, NEW bid \in Bid, NEW m \in Bid,
           KeyedByParent(a), m.parent = bid.parent
    PROVE  KeyedByParent(Entered(a, bid, m))
<1> DEFINE new == Entered(a, bid, m)
<1> SUFFICES ASSUME NEW p \in Parents
             PROVE  /\ new.maxProfit[p] # NoBid => new.maxProfit[p].parent = p
                    /\ \A x \in On(new.latestBlockByBuilder, p) : x.parent = p
  BY DEF KeyedByParent
<1>1. new.maxProfit[p] # NoBid => new.maxProfit[p].parent = p
  <2>1. new.maxProfit[p] = IF p = bid.parent THEN m ELSE a.maxProfit[p]
    BY EnteredFields
  <2> HIDE DEF new
  <2> QED
    BY <2>1 DEF KeyedByParent
<1>2. ASSUME NEW x \in On(new.latestBlockByBuilder, p)
      PROVE  x.parent = p
  <2>1. PICK b \in Builders : x = new.latestBlockByBuilder[b][p] /\ x # NoBid
    BY <1>2 DEF On
  <2>2. (x = bid /\ p = bid.parent) \/ x = a.latestBlockByBuilder[b][p]
    <3>1. new.latestBlockByBuilder[b][p] =
            IF p = bid.parent /\ b = bid.builder THEN bid ELSE a.latestBlockByBuilder[b][p]
      BY EnteredFields
    <3> QED
      BY <2>1, <3>1
  <2>3. x = a.latestBlockByBuilder[b][p] => x.parent = p
    BY <2>1 DEF KeyedByParent, On
  <2> QED
    BY <2>2, <2>3
<1> QED
  BY <1>1, <1>2

\* The last bids on a parent are bids on that parent.
LEMMA BidsOn ==
    \A a \in Auction : \A p \in Parents :
        KeyedByParent(a) => \A x \in On(a.latestBlockByBuilder, p) : x \in Bid /\ x.parent = p
<1> SUFFICES ASSUME NEW a \in Auction, NEW p \in Parents, KeyedByParent(a),
                    NEW x \in On(a.latestBlockByBuilder, p)
             PROVE  x \in Bid /\ x.parent = p
  OBVIOUS
<1>1. x \in Bid
  BY DEF On, Auction, Table
<1>2. x.parent = p
  BY DEF KeyedByParent
<1> QED
  BY <1>1, <1>2

\* What the collector leaves of a heap.
LEMMA CollectFields ==
    ASSUME NEW h \in [AuctionId -> Auction], NEW ring, NEW held
    PROVE  /\ Collect(h, ring, held) \in [AuctionId -> Auction]
           /\ \A a \in AuctionId \cap Reachable(ring, held) : Collect(h, ring, held)[a] = h[a]
           /\ \A a \in AuctionId : Collect(h, ring, held)[a] \in {h[a], EmptyAuction(0)}
  BY EmptyAuctionSound DEF Collect

\* A call of AddBlock that returns keeps the invariant when the ring and the
\* heap it leaves do, and it changed no slot another call may depend on.
LEMMA ReturnPreserves ==
    ASSUME IInv,
           NEW g \in Submitters, NEW res \in BOOLEAN,
           NEW ring \in [Positions -> AuctionId], NEW h \in [AuctionId -> Auction],
           Return(g, res, ring, h),
           \A i, j \in Positions : ring[i] = ring[j] => i = j,
           \A i \in Positions : Position(h[ring[i]].Slot) = i /\ Sound(h[ring[i]]),
           \A k \in Submitters \cup Readers : ptr[k] # Nil => h[ptr[k]].Slot = heap[ptr[k]].Slot,
           \A a \in AuctionId : KeyedByParent(h[a])
    PROVE  IInv'
<1>1. /\ TypeOK'
      /\ auctions' = ring
      /\ \A i \in Positions : heap'[ring[i]] = h[ring[i]]
      /\ \A k \in Submitters \cup Readers :
            ptr'[k] # Nil => ptr'[k] = ptr[k] /\ ptr[k] \in AuctionId /\ heap'[ptr[k]] = h[ptr[k]]
  <2>1. heap' \in [AuctionId -> Auction]
    BY CollectFields DEF Return
  <2>2. ptr' \in [Submitters \cup Readers -> AuctionId \cup {Nil}]
    BY DEF Return, IInv, TypeOK
  <2>3. TypeOK'
    BY <2>1, <2>2, Zenon DEF Return, IInv, TypeOK
  <2>4. \A i \in Positions : heap'[ring[i]] = h[ring[i]]
    BY CollectFields DEF Return, Reachable
  <2>5. ASSUME NEW k \in Submitters \cup Readers, ptr'[k] # Nil
        PROVE  ptr'[k] = ptr[k] /\ ptr[k] \in AuctionId /\ heap'[ptr[k]] = h[ptr[k]]
    <3>1. ptr'[k] = ptr[k] /\ ptr[k] \in AuctionId
      BY <2>5 DEF Return, IInv, TypeOK
    <3>2. ptr'[k] \in Reachable(ring, ptr')
      BY DEF Reachable
    <3> QED
      BY <3>1, <3>2, CollectFields DEF Return
  <2> QED
    BY <2>3, <2>4, <2>5, Zenon DEF Return
<1>2. WinnersAreBest'
  BY <1>1 DEF WinnersAreBest, Live
<1>3. PointersMatchPositions'
  <2>1. \A i, j \in Positions : auctions'[i] = auctions'[j] => i = j
    BY <1>1
  <2>2. \A i \in Positions : Position(heap'[auctions'[i]].Slot) = i
    BY <1>1
  <2>3. ASSUME NEW k \in Submitters, adding'[k] # NoBid
        PROVE  ptr'[k] # Nil /\ Position(heap'[ptr'[k]].Slot) = Position(adding'[k].slot)
    <3>1. k # g /\ adding'[k] = adding[k] /\ ptr'[k] = ptr[k]
      BY <2>3, AuctioneerAssumption DEF Return, IInv, TypeOK
    <3>2. ptr[k] # Nil /\ Position(heap[ptr[k]].Slot) = Position(adding[k].slot)
      BY <2>3, <3>1 DEF IInv, PointersMatchPositions
    <3> QED
      BY <1>1, <3>1, <3>2
  <2>4. ASSUME NEW k \in Readers, asking'[k] # Nil
        PROVE  ptr'[k] # Nil /\ Position(heap'[ptr'[k]].Slot) = Position(asking'[k].slot)
    <3>1. k # g /\ asking'[k] = asking[k] /\ ptr'[k] = ptr[k]
      BY <2>4, AuctioneerAssumption DEF Return, IInv, TypeOK
    <3>2. ptr[k] # Nil /\ Position(heap[ptr[k]].Slot) = Position(asking[k].slot)
      BY <2>4, <3>1 DEF IInv, PointersMatchPositions
    <3> QED
      BY <1>1, <3>1, <3>2
  <2> QED
    BY <2>1, <2>2, <2>3, <2>4 DEF PointersMatchPositions, Live
<1>4. \A a \in AuctionId : KeyedByParent(heap'[a])
  BY CollectFields, EmptyAuctionSound DEF Return
<1>5. (\A a \in AuctionId : KeyedByParent(heap[a]))'
  BY <1>4 DEF KeyedByParent, On
<1> QED
  BY <1>1, <1>2, <1>3, <1>5 DEF IInv

\* A call that enters its bid for the open slot keeps the invariant when it
\* leaves a winner behind in an auction whose books were sound.
LEMMA EnterPreserves ==
    ASSUME IInv,
           NEW g \in Submitters, NEW res \in BOOLEAN, NEW m \in Bid,
           NEW bid \in Bid, bid = adding[g], m.parent = bid.parent,
           NEW a \in Auction, a = heap[ptr[g]], a.Slot = bid.slot,
           Sound(a) => Wins(m, On(Entered(a, bid, m).latestBlockByBuilder, bid.parent)),
           Return(g, res, auctions, [heap EXCEPT ![ptr[g]] = Entered(@, bid, m)])
    PROVE  IInv'
<1> DEFINE h == [heap EXCEPT ![ptr[g]] = Entered(@, bid, m)]
<1>1. ptr[g] \in AuctionId
  BY BidsAssumption DEF IInv, TypeOK, PointersMatchPositions
<1>2. /\ Entered(a, bid, m) \in Auction
      /\ Entered(a, bid, m).Slot = a.Slot
      /\ Sound(a) => Sound(Entered(a, bid, m))
      /\ KeyedByParent(Entered(a, bid, m))
  <2>1. KeyedByParent(a)
    BY <1>1 DEF IInv
  <2>2. Entered(a, bid, m) \in Auction /\ Entered(a, bid, m).Slot = a.Slot
    BY EnteredType, Zenon
  <2>3. Sound(a) => Sound(Entered(a, bid, m))
    BY EnteredSound
  <2>4. KeyedByParent(Entered(a, bid, m))
    BY <2>1, EnteredKeyed
  <2> QED
    BY <2>2, <2>3, <2>4
<1>3. /\ heap \in [AuctionId -> Auction]
      /\ auctions \in [Positions -> AuctionId]
      /\ ptr \in [Submitters \cup Readers -> AuctionId \cup {Nil}]
  BY DEF IInv, TypeOK
<1>4. \A x \in AuctionId : h[x] = IF x = ptr[g] THEN Entered(a, bid, m) ELSE heap[x]
  BY <1>1, <1>3
<1>5. h \in [AuctionId -> Auction]
  BY <1>1, <1>2, <1>3
<1>6. Return(g, res, auctions, h)
  BY Zenon
<1> HIDE DEF h
<1>7. \A i, j \in Positions : auctions[i] = auctions[j] => i = j
  BY DEF IInv, PointersMatchPositions
<1>8. \A i \in Positions : Position(h[auctions[i]].Slot) = i /\ Sound(h[auctions[i]])
  BY <1>2, <1>3, <1>4 DEF IInv, PointersMatchPositions, WinnersAreBest, Live
<1>9. \A k \in Submitters \cup Readers : ptr[k] # Nil => h[ptr[k]].Slot = heap[ptr[k]].Slot
  BY <1>2, <1>3, <1>4, Zenon
<1>10. \A x \in AuctionId : KeyedByParent(h[x])
  BY <1>2, <1>4 DEF IInv
<1> QED
  BY <1>3, <1>5, <1>6, <1>7, <1>8, <1>9, <1>10, ReturnPreserves

\* The ring and the heap NewAuctioneer leaves.
LEMMA InitialRing ==
    ASSUME Init
    PROVE  /\ auctions \in [Positions -> AuctionId]
           /\ \A i, j \in Positions : i # j => auctions[i] # auctions[j]
           /\ heap \in [AuctionId -> Auction]
           /\ \A i \in Positions : heap[auctions[i]] = EmptyAuction(i)
           /\ \A a \in AuctionId : \E s \in Nat : heap[a] = EmptyAuction(s)
<1>1. /\ auctions \in [Positions -> AuctionId]
      /\ \A i, j \in Positions : i # j => auctions[i] # auctions[j]
  <2>1. PICK a \in AuctionId, b \in AuctionId : a # b
    BY AuctioneerAssumption
  <2>2. \E ring \in [Positions -> AuctionId] :
          \A i, j \in Positions : i # j => ring[i] # ring[j]
    <3> DEFINE ring == [i \in Positions |-> IF i = 0 THEN a ELSE b]
    <3>1. ring \in [Positions -> AuctionId]
      BY <2>1, Zenon
    <3>2. \A i, j \in Positions : i # j => ring[i] # ring[j]
      BY <2>1 DEF Positions, NumberOfSlotsInState
    <3> QED BY <3>1, <3>2, Zenon
  <2> QED
    BY <2>2 DEF Init, FirstRing
<1>2. /\ heap \in [AuctionId -> Auction]
      /\ \A i \in Positions : heap[auctions[i]] = EmptyAuction(i)
      /\ \A a \in AuctionId : \E s \in Nat : heap[a] = EmptyAuction(s)
  <2>1. ASSUME NEW i \in Positions
        PROVE  heap[auctions[i]] = EmptyAuction(i)
    <3>1. (CHOOSE j \in Positions : auctions[i] = auctions[j]) = i
      BY <1>1
    <3> QED
      BY <1>1, <3>1 DEF Init
  <2>2. ASSUME NEW a \in AuctionId
        PROVE  \E s \in Nat : heap[a] = EmptyAuction(s)
    <3>1. CASE \E i \in Positions : a = auctions[i]
      BY <2>1, <3>1 DEF Positions, NumberOfSlotsInState
    <3>2. CASE ~ \E i \in Positions : a = auctions[i]
      BY <3>2 DEF Init
    <3> QED
      BY <3>1, <3>2
  <2>3. DOMAIN heap = AuctionId /\ heap = [a \in AuctionId |-> heap[a]]
    BY DEF Init
  <2> QED
    BY <2>1, <2>2, <2>3, EmptyAuctionSound
<1> QED
  BY <1>1, <1>2

\* NewAuctioneer establishes the invariant.
LEMMA InitInvariant == Init => IInv
<1> SUFFICES ASSUME Init
             PROVE  IInv
  OBVIOUS
<1>1. /\ auctions \in [Positions -> AuctionId]
      /\ \A i, j \in Positions : i # j => auctions[i] # auctions[j]
  BY InitialRing
<1>2. /\ heap \in [AuctionId -> Auction]
      /\ \A i \in Positions : heap[auctions[i]] = EmptyAuction(i)
      /\ \A a \in AuctionId : \E s \in Nat : heap[a] = EmptyAuction(s)
  BY InitialRing
<1>3. TypeOK
  BY <1>1, <1>2 DEF Init, TypeOK
<1>4. WinnersAreBest
  BY <1>2, EmptyAuctionSound DEF WinnersAreBest, Live, Positions, NumberOfSlotsInState
<1>5. PointersMatchPositions
  <2>1. \A i \in Positions : i \in Nat /\ Position(i) = i
    BY DEF Position, Positions, NumberOfSlotsInState
  <2>2. \A i \in Positions : Position(heap[auctions[i]].Slot) = i
    BY <1>2, <2>1, EmptyAuctionSound
  <2> QED
    BY <1>1, <2>2, Zenon DEF Init, PointersMatchPositions, Live
<1>6. \A a \in AuctionId : KeyedByParent(heap[a])
  BY <1>2, EmptyAuctionSound
<1> QED
  BY <1>3, <1>4, <1>5, <1>6 DEF IInv

\* A running AddBlock has a bid and holds the address of an auction.
LEMMA RunningCall ==
    ASSUME IInv, NEW g \in Submitters, adding[g] # NoBid
    PROVE  /\ adding[g] \in Bid
           /\ adding[g].slot \in Nat
           /\ adding[g].parent \in Parents
           /\ ptr[g] \in AuctionId
           /\ heap[ptr[g]] \in Auction
           /\ heap[ptr[g]].maxProfit[adding[g].parent] \in Bid \cup {NoBid}
           /\ KeyedByParent(heap[ptr[g]])
           /\ Position(heap[ptr[g]].Slot) = Position(adding[g].slot)
<1>1. adding[g] \in Bid /\ ptr[g] \in AuctionId
  BY DEF IInv, TypeOK, PointersMatchPositions
<1>2. adding[g].slot \in Nat /\ adding[g].parent \in Parents
  BY <1>1, BidsAssumption, Zenon DEF Bid
<1>3. heap[ptr[g]] \in Auction /\ KeyedByParent(heap[ptr[g]])
  BY <1>1 DEF IInv, TypeOK
<1>4. heap[ptr[g]].maxProfit[adding[g].parent] \in Bid \cup {NoBid}
  BY <1>2, <1>3 DEF Auction
<1> QED
  BY <1>1, <1>2, <1>3, <1>4 DEF IInv, PointersMatchPositions

\* A discarded bid changes no auction.
LEMMA DiscardPreserves ==
    ASSUME IInv, NEW g \in Submitters, DiscardOldSlot(g)
    PROVE  IInv'
<1>1. Return(g, FALSE, auctions, heap)
  BY Zenon DEF DiscardOldSlot
<1>2. auctions \in [Positions -> AuctionId] /\ heap \in [AuctionId -> Auction]
  BY DEF IInv, TypeOK
<1>3. /\ \A i, j \in Positions : auctions[i] = auctions[j] => i = j
      /\ \A i \in Positions : Position(heap[auctions[i]].Slot) = i /\ Sound(heap[auctions[i]])
      /\ \A a \in AuctionId : KeyedByParent(heap[a])
  BY DEF IInv, PointersMatchPositions, WinnersAreBest, Live
<1> QED
  BY <1>1, <1>2, <1>3, ReturnPreserves, Zenon

\* A bid for a bigger slot puts a fresh auction in the ring; the old one, to
\* which the bid is written, has left it.
LEMMA OpenPreserves ==
    ASSUME IInv, NEW g \in Submitters, OpenSlot(g)
    PROVE  IInv'
<1> DEFINE bid == adding[g]
           a == heap[ptr[g]]
           pos == Position(bid.slot)
           ring == [auctions EXCEPT ![pos] = New]
           h == [heap EXCEPT ![New] = EmptyAuction(bid.slot),
                             ![ptr[g]] = Entered(@, bid, bid)]
<1>1. bid # NoBid /\ Free # {} /\ Return(g, TRUE, ring, h)
  BY Zenon DEF OpenSlot
<1>2. /\ bid \in Bid /\ bid.slot \in Nat /\ ptr[g] \in AuctionId /\ a \in Auction
      /\ KeyedByParent(a)
      /\ Position(a.Slot) = pos
      /\ pos \in Positions
  BY <1>1, RunningCall, PositionType, Zenon
<1>3. /\ New \in AuctionId
      /\ \A i \in Positions : New # auctions[i]
      /\ \A k \in Submitters \cup Readers : New # ptr[k]
  BY <1>1 DEF New, Free, Reachable
<1>4. /\ auctions \in [Positions -> AuctionId]
      /\ heap \in [AuctionId -> Auction]
      /\ ptr \in [Submitters \cup Readers -> AuctionId \cup {Nil}]
  BY Zenon DEF IInv, TypeOK
<1>5. /\ Entered(a, bid, bid) \in Auction
      /\ Entered(a, bid, bid).Slot = a.Slot
      /\ KeyedByParent(Entered(a, bid, bid))
  BY <1>2, EnteredType, EnteredKeyed
<1>6. /\ EmptyAuction(bid.slot) \in Auction
      /\ EmptyAuction(bid.slot).Slot = bid.slot
      /\ Sound(EmptyAuction(bid.slot))
      /\ KeyedByParent(EmptyAuction(bid.slot))
  BY <1>2, EmptyAuctionSound
<1>7. \A x \in AuctionId : h[x] = IF x = New THEN EmptyAuction(bid.slot)
                               ELSE IF x = ptr[g] THEN Entered(a, bid, bid) ELSE heap[x]
  BY <1>2, <1>3, <1>4, Zenon
<1>8. h \in [AuctionId -> Auction]
  BY <1>2, <1>3, <1>4, <1>5, <1>6
<1>9. ring \in [Positions -> AuctionId] /\ \A i \in Positions :
        ring[i] = IF i = pos THEN New ELSE auctions[i]
  BY <1>2, <1>3, <1>4, Zenon
<1> HIDE DEF h, ring, a, bid, pos
<1>10. \A i, j \in Positions : ring[i] = ring[j] => i = j
  BY <1>3, <1>9, Zenon DEF IInv, PointersMatchPositions
<1>11. ASSUME NEW i \in Positions
       PROVE  Position(h[ring[i]].Slot) = i /\ Sound(h[ring[i]])
  <2>1. CASE i = pos
    <3>1. h[ring[i]] = EmptyAuction(bid.slot)
      BY <1>3, <1>7, <1>9, <2>1
    <3> QED
      BY <1>6, <2>1, <3>1 DEF pos
  <2>2. CASE i # pos
    <3>1. Position(heap[auctions[i]].Slot) = i /\ Sound(heap[auctions[i]])
      BY DEF IInv, PointersMatchPositions, WinnersAreBest, Live
    <3>2. auctions[i] # ptr[g]
      BY <1>2, <2>2, <3>1, Zenon DEF a
    <3>3. h[ring[i]] = heap[auctions[i]]
      BY <1>3, <1>4, <1>7, <1>9, <2>2, <3>2
    <3> QED
      BY <3>1, <3>3
  <2> QED
    BY <2>1, <2>2
<1>12. \A k \in Submitters \cup Readers : ptr[k] # Nil => h[ptr[k]].Slot = heap[ptr[k]].Slot
  BY <1>3, <1>4, <1>5, <1>7 DEF a
<1>13. \A x \in AuctionId : KeyedByParent(h[x])
  BY <1>5, <1>6, <1>7 DEF IInv
<1> QED
  BY <1>1, <1>8, <1>9, <1>10, <1>11, <1>12, <1>13, ReturnPreserves, Zenon

\* The call of submitter g enters its bid in the auction it loaded, which is
\* for the bid's slot: m becomes the winner of the bid's parent, the best of
\* the last bids if the books were sound, and the call returns res, true only
\* if m is the bid itself.
Enters(g, m, res) ==
    LET bid == adding[g]
        a == heap[ptr[g]] IN
    /\ bid \in Bid /\ a \in Auction /\ a.Slot = bid.slot
    /\ m \in Bid /\ res \in BOOLEAN
    /\ m.parent = bid.parent
    /\ res => m = bid
    /\ Sound(a) => Wins(m, On(Entered(a, bid, m).latestBlockByBuilder, bid.parent))
    /\ Return(g, res, auctions, [heap EXCEPT ![ptr[g]] = Entered(@, bid, m)])

\* The three ways of entering a bid for the open slot.
LEMMA BidEnters ==
    ASSUME IInv, NEW g \in Submitters, AcceptBid(g) \/ KeepWinner(g) \/ Reassign(g)
    PROVE  \E m, res : Enters(g, m, res)
<1> DEFINE bid == adding[g]
           a == heap[ptr[g]]
           mp == a.maxProfit[bid.parent]
<1>1. bid # NoBid /\ a.Slot = bid.slot
  BY Zenon DEF AcceptBid, KeepWinner, Reassign
<1>2. /\ bid \in Bid /\ bid.parent \in Parents /\ a \in Auction
      /\ mp \in Bid \cup {NoBid} /\ KeyedByParent(a)
  BY <1>1, RunningCall
<1>3. ASSUME AcceptBid(g)
      PROVE  Enters(g, bid, TRUE)
  <2>1. /\ mp # NoBid => mp.value <= bid.value
        /\ Return(g, TRUE, auctions, [heap EXCEPT ![ptr[g]] = Entered(@, bid, bid)])
    BY <1>3, Zenon DEF AcceptBid
  <2>2. Sound(a) => Wins(bid, On(Entered(a, bid, bid).latestBlockByBuilder, bid.parent))
    BY <1>2, <2>1, AcceptedWins
  <2> QED
    BY <1>1, <1>2, <2>1, <2>2, Zenon DEF Enters
<1>4. ASSUME KeepWinner(g)
      PROVE  Enters(g, mp, FALSE)
  <2>1. /\ mp # NoBid /\ mp.value > bid.value /\ mp.builder # bid.builder
        /\ Return(g, FALSE, auctions, [heap EXCEPT ![ptr[g]] = Entered(@, bid, mp)])
    BY <1>4, Zenon DEF KeepWinner
  <2>2. mp \in Bid /\ mp.parent = bid.parent
    BY <1>2, <2>1, Zenon DEF KeyedByParent
  <2>3. Sound(a) => Wins(mp, On(Entered(a, bid, mp).latestBlockByBuilder, bid.parent))
    BY <1>2, <2>1, <2>2, KeptWins, Zenon
  <2> QED
    BY <1>1, <1>2, <2>1, <2>2, <2>3, Zenon DEF Enters
<1>5. ASSUME Reassign(g)
      PROVE  \E m : Enters(g, m, FALSE)
  <2>1. /\ mp # NoBid
        /\ \E m \in Rescan(Entered(a, bid, bid).latestBlockByBuilder, bid, mp) :
             Return(g, FALSE, auctions, [heap EXCEPT ![ptr[g]] = Entered(@, bid, m)])
    BY <1>5, Zenon DEF Reassign
  <2>2. PICK m \in Rescan(Entered(a, bid, bid).latestBlockByBuilder, bid, mp) :
             Return(g, FALSE, auctions, [heap EXCEPT ![ptr[g]] = Entered(@, bid, m)])
    BY <2>1, Zenon
  <2>3. m = bid \/ m \in On(Entered(a, bid, bid).latestBlockByBuilder, bid.parent)
    BY Zenon DEF Rescan
  <2>4. m \in Bid /\ m.parent = bid.parent
    <3>1. KeyedByParent(Entered(a, bid, bid)) /\ Entered(a, bid, bid) \in Auction
      BY <1>2, EnteredKeyed, EnteredType, Zenon
    <3>2. \A x \in On(Entered(a, bid, bid).latestBlockByBuilder, bid.parent) :
             x \in Bid /\ x.parent = bid.parent
      BY <1>2, <3>1, BidsOn
    <3> QED
      BY <1>2, <2>3, <3>2, Zenon
  <2>5. Sound(a) => Wins(m, On(Entered(a, bid, m).latestBlockByBuilder, bid.parent))
    BY <1>1, <1>2, <2>1, RescannedWins, Zenon
  <2> QED
    BY <1>1, <1>2, <2>2, <2>4, <2>5, Zenon DEF Enters
<1> QED
  BY <1>3, <1>4, <1>5, Zenon

\* Entering a bid for the open slot keeps the invariant.
LEMMA BidPreserves ==
    ASSUME IInv, NEW g \in Submitters, AcceptBid(g) \/ KeepWinner(g) \/ Reassign(g)
    PROVE  IInv'
<1>1. PICK m, res : Enters(g, m, res)
  BY BidEnters, Zenon
<1> QED
  BY <1>1, EnterPreserves, Zenon DEF Enters

\* Loading a pointer for AddBlock.
LEMMA LoadForAddPreserves ==
    ASSUME IInv, NEW g \in Submitters, NEW bid \in Bid, LoadForAdd(g, bid)
    PROVE  IInv'
<1> DEFINE pos == Position(bid.slot)
<1>1. pos \in Positions
  BY PositionType, BidsAssumption, Zenon DEF Bid
<1>2. TypeOK'
  BY <1>1 DEF IInv, TypeOK, LoadForAdd
<1>3. heap' = heap /\ auctions' = auctions
  BY DEF LoadForAdd
<1>4. WinnersAreBest'
  BY <1>3 DEF IInv, WinnersAreBest, Live
<1>5. ASSUME NEW k \in Submitters, adding'[k] # NoBid
      PROVE  ptr'[k] # Nil /\ Position(heap'[ptr'[k]].Slot) = Position(adding'[k].slot)
  <2>1. CASE k = g
    <3>1. ptr'[k] = auctions[pos] /\ adding'[k] = bid
      BY <2>1, Zenon DEF LoadForAdd, IInv, TypeOK
    <3>2. Position(heap[auctions[pos]].Slot) = pos
      BY <1>1 DEF IInv, PointersMatchPositions, Live
    <3>3. auctions[pos] # Nil
      BY <1>1, AuctioneerAssumption DEF IInv, TypeOK
    <3> QED
      BY <1>3, <3>1, <3>2, <3>3
  <2>2. CASE k # g
    <3>1. ptr'[k] = ptr[k] /\ adding'[k] = adding[k]
      BY <2>2 DEF LoadForAdd, IInv, TypeOK
    <3> QED
      BY <1>3, <1>5, <3>1 DEF IInv, PointersMatchPositions
  <2> QED
    BY <2>1, <2>2
<1>6. ASSUME NEW k \in Readers, asking'[k] # Nil
      PROVE  ptr'[k] # Nil /\ Position(heap'[ptr'[k]].Slot) = Position(asking'[k].slot)
  <2>1. ptr'[k] = ptr[k] /\ asking'[k] = asking[k]
    BY AuctioneerAssumption, Zenon DEF LoadForAdd, IInv, TypeOK
  <2> QED
    BY <1>3, <1>6, <2>1 DEF IInv, PointersMatchPositions
<1>7. PointersMatchPositions'
  BY <1>3, <1>5, <1>6 DEF IInv, PointersMatchPositions, Live
<1>8. (\A a \in AuctionId : KeyedByParent(heap[a]))'
  BY <1>3 DEF IInv, KeyedByParent, On
<1> QED
  BY <1>2, <1>4, <1>7, <1>8 DEF IInv

\* Loading a pointer for MaxProfitBlock.
LEMMA LoadForReadPreserves ==
    ASSUME IInv, NEW r \in Readers, NEW q \in Query, LoadForRead(r, q)
    PROVE  IInv'
<1> DEFINE pos == Position(q.slot)
<1>1. pos \in Positions
  BY PositionType, BidsAssumption, Zenon DEF Query
<1>2. TypeOK'
  BY <1>1 DEF IInv, TypeOK, LoadForRead
<1>3. heap' = heap /\ auctions' = auctions
  BY DEF LoadForRead
<1>4. WinnersAreBest'
  BY <1>3 DEF IInv, WinnersAreBest, Live
<1>5. ASSUME NEW k \in Readers, asking'[k] # Nil
      PROVE  ptr'[k] # Nil /\ Position(heap'[ptr'[k]].Slot) = Position(asking'[k].slot)
  <2>1. CASE k = r
    <3>1. ptr'[k] = auctions[pos] /\ asking'[k] = q
      BY <2>1, Zenon DEF LoadForRead, IInv, TypeOK
    <3>2. Position(heap[auctions[pos]].Slot) = pos
      BY <1>1 DEF IInv, PointersMatchPositions, Live
    <3>3. auctions[pos] # Nil
      BY <1>1, AuctioneerAssumption DEF IInv, TypeOK
    <3> QED
      BY <1>3, <3>1, <3>2, <3>3
  <2>2. CASE k # r
    <3>1. ptr'[k] = ptr[k] /\ asking'[k] = asking[k]
      BY <2>2 DEF LoadForRead, IInv, TypeOK
    <3> QED
      BY <1>3, <1>5, <3>1 DEF IInv, PointersMatchPositions
  <2> QED
    BY <2>1, <2>2
<1>6. ASSUME NEW k \in Submitters, adding'[k] # NoBid
      PROVE  ptr'[k] # Nil /\ Position(heap'[ptr'[k]].Slot) = Position(adding'[k].slot)
  <2>1. ptr'[k] = ptr[k] /\ adding'[k] = adding[k]
    BY AuctioneerAssumption, Zenon DEF LoadForRead, IInv, TypeOK
  <2> QED
    BY <1>3, <1>6, <2>1 DEF IInv, PointersMatchPositions
<1>7. PointersMatchPositions'
  BY <1>3, <1>5, <1>6 DEF IInv, PointersMatchPositions, Live
<1>8. (\A a \in AuctionId : KeyedByParent(heap[a]))'
  BY <1>3, SMTT(30) DEF IInv, KeyedByParent, On
<1> QED
  BY <1>2, <1>4, <1>7, <1>8 DEF IInv

\* A running MaxProfitBlock has a query and holds the address of an auction.
LEMMA RunningQuery ==
    ASSUME IInv, NEW r \in Readers, asking[r] # Nil
    PROVE  /\ asking[r] \in Query
           /\ Position(asking[r].slot) \in Positions
           /\ asking[r].parent \in Parents
           /\ ptr[r] \in AuctionId
           /\ heap[ptr[r]] \in Auction
           /\ heap[ptr[r]].maxProfit[asking[r].parent] \in Bid \cup {NoBid}
           /\ KeyedByParent(heap[ptr[r]])
<1>1. asking[r] \in Query /\ ptr[r] \in AuctionId
  BY DEF IInv, TypeOK, PointersMatchPositions
<1>2. asking[r].slot \in Nat /\ asking[r].parent \in Parents
  BY <1>1, BidsAssumption, Zenon DEF Query
<1>3. heap[ptr[r]] \in Auction /\ KeyedByParent(heap[ptr[r]])
  BY <1>1, Zenon DEF IInv, TypeOK
<1>4. heap[ptr[r]].maxProfit[asking[r].parent] \in Bid \cup {NoBid}
  BY <1>2, <1>3, Zenon DEF Auction
<1> QED
  BY <1>1, <1>2, <1>3, <1>4, PositionType, Zenon

\* Answering a query.
LEMMA MaxProfitPreserves ==
    ASSUME IInv, NEW r \in Readers, MaxProfitBlock(r)
    PROVE  IInv'
<1>1. /\ auctions' = auctions /\ adding' = adding
      /\ heap' = Collect(heap, auctions, ptr')
      /\ heap \in [AuctionId -> Auction]
      /\ auctions \in [Positions -> AuctionId]
  BY DEF MaxProfitBlock, IInv, TypeOK
<1>2. Answer(heap[ptr[r]], asking[r]) \in Bid \cup {NoBid}
  BY RunningQuery, Zenon DEF MaxProfitBlock, Answer
<1>3. heap' \in [AuctionId -> Auction]
  BY <1>1, CollectFields
<1>4. TypeOK'
  BY <1>1, <1>2, <1>3, Zenon DEF MaxProfitBlock, IInv, TypeOK
<1>5. \A i \in Positions : heap'[auctions[i]] = heap[auctions[i]]
  BY <1>1, CollectFields, SMTT(30) DEF Reachable
<1>6. WinnersAreBest'
  BY <1>1, <1>5, Zenon DEF IInv, WinnersAreBest, Live
<1>7. ASSUME NEW k \in Submitters \cup Readers, k # r, ptr[k] # Nil
      PROVE  ptr'[k] = ptr[k] /\ heap'[ptr[k]] = heap[ptr[k]]
  <2>1. ptr'[k] = ptr[k] /\ ptr[k] \in AuctionId
    BY <1>7 DEF MaxProfitBlock, IInv, TypeOK
  <2>2. ptr'[k] \in Reachable(auctions, ptr')
    BY Zenon DEF Reachable
  <2> QED
    BY <1>1, <2>1, <2>2, CollectFields
<1>8. ASSUME NEW k \in Submitters, adding'[k] # NoBid
      PROVE  ptr'[k] # Nil /\ Position(heap'[ptr'[k]].Slot) = Position(adding'[k].slot)
  <2>1. k # r
    BY AuctioneerAssumption, Zenon
  <2>2. ptr[k] # Nil /\ Position(heap[ptr[k]].Slot) = Position(adding[k].slot)
    BY <1>1, <1>8 DEF IInv, PointersMatchPositions
  <2> QED
    BY <1>1, <1>7, <2>1, <2>2
<1>9. ASSUME NEW k \in Readers, asking'[k] # Nil
      PROVE  ptr'[k] # Nil /\ Position(heap'[ptr'[k]].Slot) = Position(asking'[k].slot)
  <2>1. k # r /\ asking'[k] = asking[k]
    BY <1>9, Zenon DEF MaxProfitBlock, IInv, TypeOK
  <2>2. ptr[k] # Nil /\ Position(heap[ptr[k]].Slot) = Position(asking[k].slot)
    BY <1>9, <2>1, Zenon DEF IInv, PointersMatchPositions
  <2> QED
    BY <1>7, <2>1, <2>2
<1>10. PointersMatchPositions'
  BY <1>1, <1>5, <1>8, <1>9 DEF IInv, PointersMatchPositions, Live
<1>11. \A a \in AuctionId : KeyedByParent(heap'[a])
  BY <1>1, CollectFields, EmptyAuctionSound DEF IInv
<1>12. (\A a \in AuctionId : KeyedByParent(heap[a]))'
  BY <1>11 DEF KeyedByParent, On
<1> QED
  BY <1>4, <1>6, <1>10, <1>12 DEF IInv

\* Every step of the auctioneer keeps the invariant.
LEMMA NextInvariant == IInv /\ [Next]_vars => IInv'
<1> SUFFICES ASSUME IInv, [Next]_vars
             PROVE  IInv'
  OBVIOUS
<1>1. ASSUME NEW g \in Submitters, NEW bid \in Bid, LoadForAdd(g, bid)
      PROVE  IInv'
  BY <1>1, LoadForAddPreserves
<1>2. ASSUME NEW g \in Submitters, AddBlock(g)
      PROVE  IInv'
  BY <1>2, DiscardPreserves, OpenPreserves, BidPreserves DEF AddBlock
<1>3. ASSUME NEW r \in Readers, NEW q \in Query, LoadForRead(r, q)
      PROVE  IInv'
  BY <1>3, LoadForReadPreserves
<1>4. ASSUME NEW r \in Readers, MaxProfitBlock(r)
      PROVE  IInv'
  BY <1>4, MaxProfitPreserves
<1>5. CASE UNCHANGED vars
  <2>1. TypeOK'
    BY <1>5 DEF vars, IInv, TypeOK
  <2>2. WinnersAreBest'
    BY <1>5, Zenon DEF vars, IInv, WinnersAreBest, Live
  <2>3. PointersMatchPositions'
    BY <1>5, Zenon DEF vars, IInv, PointersMatchPositions, Live
  <2>4. (\A a \in AuctionId : KeyedByParent(heap[a]))'
    BY <1>5 DEF vars, IInv, KeyedByParent, On
  <2> QED
    BY <2>1, <2>2, <2>3, <2>4 DEF IInv
<1> QED
  BY <1>1, <1>2, <1>3, <1>4, <1>5 DEF Next

\* The inductive invariant holds in every reachable state.
THEOREM InductiveInvariant == Spec => []IInv
  BY InitInvariant, NextInvariant, PTL DEF Spec

\* The variables keep their types: in particular every position of the ring
\* always holds an auction, so AddBlock and MaxProfitBlock never follow a
\* nil pointer.
THEOREM TypeCorrect == Spec => []TypeOK
<1>1. IInv => TypeOK
  BY DEF IInv
<1> QED
  BY <1>1, InductiveInvariant, PTL

\* Every auction of the ring has the best last bid of each parent as its
\* winner, for any number of concurrent AddBlock and MaxProfitBlock calls
\* with stale pointers.
THEOREM WinnersTheorem == Spec => []WinnersAreBest
<1>1. IInv => WinnersAreBest
  BY DEF IInv
<1> QED
  BY <1>1, InductiveInvariant, PTL

\* Held pointers are to auctions of the position they were loaded from.
THEOREM PointersTheorem == Spec => []PointersMatchPositions
<1>1. IInv => PointersMatchPositions
  BY Zenon DEF IInv
<1> QED
  BY <1>1, InductiveInvariant, PTL

\* The answer of MaxProfitBlock, in a state of the invariant.
LEMMA AnswerStep ==
    ASSUME IInv, NEW r \in Readers, MaxProfitBlock(r)
    PROVE  AnswersBest(r)
<1> DEFINE q == asking[r]
           a == heap[ptr[r]]
           mp == a.maxProfit[q.parent]
           i == Position(q.slot)
<1>1. q # Nil
  BY Zenon DEF MaxProfitBlock
<1>2. served'[r] = IF mp # NoBid /\ mp.slot = q.slot THEN mp ELSE NoBid
  BY Zenon DEF MaxProfitBlock, Answer, IInv, TypeOK
<1>3. i \in Positions /\ q.parent \in Parents /\ mp \in Bid \cup {NoBid} /\ KeyedByParent(a)
  BY <1>1, RunningQuery
<1>4. served'[r] # NoBid => served'[r].slot = q.slot /\ served'[r].parent = q.parent
  BY <1>2, <1>3, Zenon DEF KeyedByParent
<1>5. ASSUME ptr[r] = auctions[i]
      PROVE  IF Live(i).Slot = q.slot
             THEN Wins(served'[r], On(Live(i).latestBlockByBuilder, q.parent))
             ELSE served'[r] = NoBid
  <2>1. Live(i) = a /\ Sound(a)
    BY <1>3, <1>5, Zenon DEF Live, IInv, WinnersAreBest
  <2>2. Wins(mp, On(a.latestBlockByBuilder, q.parent))
    BY <1>3, <2>1, Zenon DEF Sound
  <2>3. \A x \in On(a.latestBlockByBuilder, q.parent) : x # NoBid /\ x.slot = a.Slot
    BY <1>3, <2>1, SoundSlots, Zenon
  <2>4. mp # NoBid => mp.slot = a.Slot
    BY <2>2, <2>3 DEF Wins
  <2> HIDE DEF mp, a, i, q
  <2> QED
    BY <1>2, <2>1, <2>2, <2>4, Zenon
<1> QED
  BY <1>4, <1>5 DEF AnswersBest

\* AddBlock ends the call of its submitter and no other.
LEMMA AddBlockReturns ==
    ASSUME IInv, NEW g \in Submitters, AddBlock(g)
    PROVE  /\ adding'[g] = NoBid
           /\ \A k \in Submitters : k # g => adding'[k] = adding[k]
<1>1. adding' = [adding EXCEPT ![g] = NoBid]
  BY Zenon DEF AddBlock, DiscardOldSlot, OpenSlot, AcceptBid, KeepWinner, Reassign, Return
<1> QED
  BY <1>1 DEF IInv, TypeOK

\* A call of AddBlock ends by its own return only.
LEMMA AddingEnds ==
    ASSUME IInv, Next, NEW g \in Submitters, adding[g] # NoBid, adding'[g] = NoBid
    PROVE  AddBlock(g)
<1>1. ASSUME NEW k \in Submitters, NEW bid \in Bid, LoadForAdd(k, bid)
      PROVE  FALSE
  BY <1>1, BidsAssumption DEF LoadForAdd, IInv, TypeOK
<1>2. ASSUME NEW k \in Submitters, AddBlock(k)
      PROVE  k = g
  BY <1>2, AddBlockReturns
<1>3. ASSUME NEW r \in Readers, NEW q \in Query, LoadForRead(r, q)
      PROVE  FALSE
  BY <1>3 DEF LoadForRead
<1>4. ASSUME NEW r \in Readers, MaxProfitBlock(r)
      PROVE  FALSE
  BY <1>4 DEF MaxProfitBlock
<1> QED
  BY <1>1, <1>2, <1>3, <1>4 DEF Next

\* Any number of readers and submitters: what MaxProfitBlock returns is for
\* the slot and parent asked for, and the best last bid of an auction that
\* is still in the ring.
THEOREM ServedTheorem == Spec => ServedIsBest
<1>1. IInv /\ [Next]_vars => [\A r \in Readers : AnswersBest(r)]_vars
  <2> SUFFICES ASSUME IInv, Next, NEW r \in Readers, asking[r] # Nil, asking'[r] = Nil
               PROVE  AnswersBest(r)
    BY DEF AnswersBest
  <2>1. ASSUME NEW g \in Submitters, NEW bid \in Bid, LoadForAdd(g, bid)
        PROVE  FALSE
    BY <2>1 DEF LoadForAdd
  <2>2. ASSUME NEW g \in Submitters, AddBlock(g)
        PROVE  FALSE
    BY <2>2, Zenon DEF AddBlock, DiscardOldSlot, OpenSlot, AcceptBid, KeepWinner, Reassign, Return
  <2>3. ASSUME NEW k \in Readers, NEW q \in Query, LoadForRead(k, q)
        PROVE  FALSE
    BY <2>3, AuctioneerAssumption DEF LoadForRead, IInv, TypeOK
  <2>4. ASSUME NEW k \in Readers, MaxProfitBlock(k)
        PROVE  AnswersBest(r)
    <3>1. k = r
      BY <2>4 DEF MaxProfitBlock, IInv, TypeOK
    <3> QED
      BY <2>4, <3>1, AnswerStep
  <2> QED
    BY <2>1, <2>2, <2>3, <2>4, Zenon DEF Next
<1> QED
  BY <1>1, InductiveInvariant, PTL DEF Spec, ServedIsBest

-----------------------------------------------------------------------------
\* The ring after AddBlock returns, seen through its pointers.
LEMMA ReturnLive ==
    ASSUME NEW g \in Submitters, NEW res \in BOOLEAN,
           NEW ring \in [Positions -> AuctionId], NEW h \in [AuctionId -> Auction],
           Return(g, res, ring, h)
    PROVE  \A i \in Positions : Live(i)' = h[ring[i]]
<1>1. auctions' = ring /\ heap' = Collect(h, ring, ptr')
  BY DEF Return
<1>2. \A i \in Positions : ring[i] \in Reachable(ring, ptr') /\ ring[i] \in AuctionId
  BY DEF Reachable
<1> QED
  BY <1>1, <1>2, CollectFields DEF Live

\* The book's own copies of the operators of module Bids.
LEMMA BookOperators ==
    /\ Book!Bid = Bid
    /\ Book!Positions = Positions
    /\ Book!EmptyTable = EmptyTable
    /\ \A s : Book!Position(s) = Position(s)
    /\ \A table, bid : Book!Recorded(table, bid) = Recorded(table, bid)
    /\ \A table, p : Book!On(table, p) = On(table, p)
    /\ \A m, S : Book!Wins(m, S) <=> Wins(m, S)
<1>1. Book!Bid = Bid
  BY DEF Book!Bid, Bid
<1>2. Book!Positions = Positions
  BY DEF Book!Positions, Book!NumberOfSlotsInState, Positions, NumberOfSlotsInState
<1>3. Book!EmptyTable = EmptyTable
  BY DEF Book!EmptyTable, EmptyTable
<1>4. \A s : Book!Position(s) = Position(s)
  BY DEF Book!Position, Book!NumberOfSlotsInState, Position, NumberOfSlotsInState
<1>5. \A table, p : Book!On(table, p) = On(table, p)
  BY DEF Book!On, On
<1>6. \A m, S : Book!Wins(m, S) <=> Wins(m, S)
  BY DEF Book!Wins, Wins
<1>7. \A table, bid : Book!Recorded(table, bid) = Recorded(table, bid)
  BY DEF Book!Recorded, Recorded
<1> QED
  BY <1>1, <1>2, <1>3, <1>4, <1>5, <1>6, <1>7

\* The book does not change when no auction of the ring does.
LEMMA BookStutters ==
    ASSUME \A i \in Positions : Live(i)' = Live(i)
    PROVE  UNCHANGED Book!bookVars
  BY Zenon DEF Book!bookVars

\* Entering a bid for the open slot changes the auction in the ring if that
\* is the one the call loaded, and no other.
LEMMA EnterLive ==
    ASSUME IInv, NEW g \in Submitters, NEW m, NEW res, Enters(g, m, res),
           NEW bid, bid = adding[g], NEW a, a = heap[ptr[g]]
    PROVE  /\ auctions' = auctions
           /\ \A i \in Positions :
                IF auctions[i] = ptr[g]
                THEN i = Position(bid.slot) /\ Live(i) = a /\ Live(i)' = Entered(a, bid, m)
                ELSE Live(i)' = Live(i)
<1> DEFINE h == [heap EXCEPT ![ptr[g]] = Entered(@, bid, m)]
           pos == Position(bid.slot)
<1>1. /\ bid \in Bid /\ a \in Auction /\ m \in Bid /\ res \in BOOLEAN
      /\ Return(g, res, auctions, h)
  BY Zenon DEF Enters
<1>2. bid # NoBid /\ ptr[g] \in AuctionId /\ Position(a.Slot) = pos
  BY <1>1, BidsAssumption, RunningCall, Zenon
<1>3. /\ heap \in [AuctionId -> Auction]
      /\ auctions \in [Positions -> AuctionId]
  BY Zenon DEF IInv, TypeOK
<1>4. Entered(a, bid, m) \in Auction
  BY <1>1, EnteredType, Zenon
<1>5. \A x \in AuctionId : h[x] = IF x = ptr[g] THEN Entered(a, bid, m) ELSE heap[x]
  BY <1>2, <1>3
<1>6. h \in [AuctionId -> Auction] /\ Return(g, res, auctions, h)
  BY <1>1, <1>2, <1>3, <1>4
<1> HIDE DEF h
<1>7. \A i \in Positions : Live(i)' = h[auctions[i]]
  BY <1>1, <1>3, <1>6, ReturnLive, Zenon
<1>8. \A i \in Positions : auctions[i] = ptr[g] => i = pos
  BY <1>2, Zenon DEF IInv, PointersMatchPositions, Live
<1>9. auctions' = auctions
  BY <1>6 DEF Return
<1> QED
  BY <1>3, <1>5, <1>7, <1>8, <1>9 DEF Live

\* Entering a bid for the open slot is a step of the book if the auction is
\* in the ring, and none if it has left it.
LEMMA EnterBook ==
    ASSUME IInv, NEW g \in Submitters, NEW m, NEW res, Enters(g, m, res),
           NEW bid, bid = adding[g], NEW a, a = heap[ptr[g]]
    PROVE  Book!Next \/ UNCHANGED Book!bookVars
<1> DEFINE pos == Position(bid.slot)
<1>1. /\ bid \in Bid /\ m \in Bid /\ a \in Auction /\ a.Slot = bid.slot
      /\ Sound(a) => Wins(m, On(Entered(a, bid, m).latestBlockByBuilder, bid.parent))
  BY Zenon DEF Enters
<1>2. pos \in Positions
  BY <1>1, BidsAssumption, PositionType, Zenon DEF Bid
<1>3. \A i \in Positions :
        IF auctions[i] = ptr[g]
        THEN i = pos /\ Live(i) = a /\ Live(i)' = Entered(a, bid, m)
        ELSE Live(i)' = Live(i)
  BY EnterLive, Zenon
<1>4. \A i \in Positions : i # pos => Live(i)' = Live(i)
  BY <1>3
<1>5. CASE auctions[pos] # ptr[g]
  <2>1. Live(pos)' = Live(pos)
    BY <1>2, <1>3, <1>5, Zenon
  <2> QED
    BY <1>4, <2>1, BookStutters, Zenon
<1>6. CASE auctions[pos] = ptr[g]
  <2> DEFINE table == Recorded(Live(pos).latestBlockByBuilder, bid)
  <2>1. Live(pos) = a /\ Live(pos)' = Entered(a, bid, m) /\ Sound(a)
    BY <1>2, <1>3, <1>6, Zenon DEF IInv, WinnersAreBest
  <2>2. /\ Entered(a, bid, m).Slot = a.Slot
        /\ Entered(a, bid, m).latestBlockByBuilder = Recorded(a.latestBlockByBuilder, bid)
        /\ Entered(a, bid, m).maxProfit = [a.maxProfit EXCEPT ![bid.parent] = m]
    BY <1>1 DEF Entered, Auction
  <2>3. /\ Live(pos)'.Slot = Live(pos).Slot
        /\ Live(pos)'.latestBlockByBuilder = table
        /\ Live(pos)'.maxProfit = [Live(pos).maxProfit EXCEPT ![bid.parent] = m]
    BY <2>1, <2>2, Zenon
  <2>4. Wins(m, On(table, bid.parent))
    BY <1>1, <2>1, <2>3, Zenon
  <2>5. Live(pos).Slot = bid.slot
    BY <1>1, <2>1
  <2> HIDE DEF pos
  <2>6. [i \in Positions |-> Live(i).Slot][pos] = bid.slot
    BY <1>2, <2>5, Zenon
  <2>7. [i \in Positions |-> Live(i)'.Slot] = [i \in Positions |-> Live(i).Slot]
    BY <1>4, <2>3
  <2>8. [i \in Positions |-> Live(i)'.latestBlockByBuilder]
          = [[i \in Positions |-> Live(i).latestBlockByBuilder] EXCEPT ![pos] = Recorded(@, bid)]
    BY <1>2, <1>4, <2>3, Zenon
  <2>9. Wins(m, On(Recorded([i \in Positions |-> Live(i).latestBlockByBuilder][pos], bid),
                   bid.parent))
    BY <1>2, <2>4
  <2>10. [i \in Positions |-> Live(i)'.maxProfit]
          = [[i \in Positions |-> Live(i).maxProfit] EXCEPT ![pos] = [@ EXCEPT ![bid.parent] = m]]
    BY <1>2, <1>4, <2>3, Zenon
  <2>11. Book!Position(bid.slot) = pos
    BY BookOperators DEF pos
  <2>12. Book!Enter(bid, m)
    BY <2>6, <2>7, <2>8, <2>9, <2>10, <2>11, BookOperators, Zenon DEF Book!Enter
  <2> QED
    BY <1>1, <2>12, BookOperators, Zenon DEF Book!Next
<1> QED
  BY <1>5, <1>6

\* A bid for a bigger slot replaces the auction of its position by an empty
\* one and leaves the other positions alone.
LEMMA OpenLive ==
    ASSUME IInv, NEW g \in Submitters, OpenSlot(g), NEW bid \in Bid, bid = adding[g]
    PROVE  /\ Position(bid.slot) \in Positions
           /\ Live(Position(bid.slot))' = EmptyAuction(bid.slot)
           /\ \A i \in Positions : i # Position(bid.slot) => Live(i)' = Live(i)
<1> DEFINE a == heap[ptr[g]]
           pos == Position(bid.slot)
           ring == [auctions EXCEPT ![pos] = New]
           h == [heap EXCEPT ![New] = EmptyAuction(bid.slot),
                             ![ptr[g]] = Entered(@, bid, bid)]
<1>1. bid # NoBid /\ Free # {} /\ Return(g, TRUE, ring, h)
  BY Zenon DEF OpenSlot
<1>2. /\ bid \in Bid /\ bid.slot \in Slots /\ ptr[g] \in AuctionId /\ a \in Auction
      /\ Position(a.Slot) = pos
      /\ pos \in Positions
  BY <1>1, RunningCall, PositionType, Zenon DEF Bid
<1>3. /\ New \in AuctionId
      /\ \A i \in Positions : New # auctions[i]
      /\ New # ptr[g]
  BY <1>1 DEF New, Free, Reachable
<1>4. /\ auctions \in [Positions -> AuctionId]
      /\ heap \in [AuctionId -> Auction]
  BY DEF IInv, TypeOK
<1>5. Entered(a, bid, bid) \in Auction /\ EmptyAuction(bid.slot) \in Auction
  BY <1>2, EnteredType, EmptyAuctionSound, BidsAssumption, Zenon
<1>6. \A x \in AuctionId : h[x] = IF x = New THEN EmptyAuction(bid.slot)
                               ELSE IF x = ptr[g] THEN Entered(a, bid, bid) ELSE heap[x]
  BY <1>2, <1>3, <1>4, Zenon
<1>7. h \in [AuctionId -> Auction]
  BY <1>2, <1>3, <1>4, <1>5, Zenon
<1>8. ring \in [Positions -> AuctionId] /\ \A i \in Positions :
        ring[i] = IF i = pos THEN New ELSE auctions[i]
  BY <1>2, <1>3, <1>4
<1> HIDE DEF h, ring, a, pos
<1>9. \A i \in Positions : Live(i)' = h[ring[i]]
  BY <1>1, <1>7, <1>8, ReturnLive, Zenon
<1>10. Live(pos)' = EmptyAuction(bid.slot)
  BY <1>2, <1>3, <1>6, <1>8, <1>9
<1>11. \A i \in Positions : i # pos => Live(i)' = Live(i)
  <2>1. \A i \in Positions : auctions[i] = ptr[g] => i = pos
    BY <1>2 DEF IInv, PointersMatchPositions, Live, a
  <2> SUFFICES ASSUME NEW i \in Positions, i # pos PROVE Live(i)' = Live(i)
    OBVIOUS
  <2>2. /\ auctions[i] \in AuctionId
        /\ auctions[i] # New
        /\ auctions[i] # ptr[g]
        /\ ring[i] = auctions[i]
    BY <1>3, <1>4, <1>8, <2>1
  <2>3. h[auctions[i]] = heap[auctions[i]]
    BY <1>6, <2>2, Zenon
  <2> QED
    BY <1>9, <2>2, <2>3, Zenon DEF Live
<1> QED
  BY <1>2, <1>10, <1>11 DEF pos

\* A bid for a bigger slot starts its position over in the book.
LEMMA OpenBook ==
    ASSUME IInv, NEW g \in Submitters, OpenSlot(g), NEW bid \in Bid, bid = adding[g]
    PROVE  Book!Next
<1> DEFINE pos == Position(bid.slot)
<1>1. bid.slot \in Slots
  BY Zenon DEF Bid
<1>2. pos \in Positions /\ Live(pos)' = EmptyAuction(bid.slot)
  BY OpenLive
<1>3. \A i \in Positions : i # pos => Live(i)' = Live(i)
  BY OpenLive
<1> HIDE DEF pos
<1>4. /\ Live(pos)'.Slot = bid.slot
       /\ Live(pos)'.latestBlockByBuilder = EmptyTable
       /\ Live(pos)'.maxProfit = [p \in Parents |-> NoBid]
  BY <1>2 DEF EmptyAuction
<1>5. [i \in Positions |-> Live(i)'.Slot]
         = [[i \in Positions |-> Live(i).Slot] EXCEPT ![pos] = bid.slot]
  BY <1>2, <1>3, <1>4, Zenon
<1>6. [i \in Positions |-> Live(i)'.latestBlockByBuilder]
         = [[i \in Positions |-> Live(i).latestBlockByBuilder] EXCEPT ![pos] = EmptyTable]
  BY <1>2, <1>3, <1>4, Zenon
<1>7. [i \in Positions |-> Live(i)'.maxProfit]
         = [[i \in Positions |-> Live(i).maxProfit] EXCEPT ![pos] = [p \in Parents |-> NoBid]]
  BY <1>2, <1>3, <1>4, Zenon
<1>8. Book!Position(bid.slot) = pos /\ Book!EmptyTable = EmptyTable
  BY BookOperators, Zenon DEF pos
<1>9. Book!Open(bid.slot)
  BY <1>5, <1>6, <1>7, <1>8 DEF Book!Open
<1> QED
  BY <1>1, <1>9 DEF Book!Next

\* Entering a bid, whichever way, is a step of the book or none.
LEMMA BidBookStep ==
    ASSUME IInv, NEW g \in Submitters, AcceptBid(g) \/ KeepWinner(g) \/ Reassign(g)
    PROVE  Book!Next \/ UNCHANGED Book!bookVars
<1>1. PICK m, res : Enters(g, m, res)
  BY BidEnters, Zenon
<1> QED
  BY <1>1, EnterBook

\* A step other than AddBlock's return leaves the auctions of the ring alone.
LEMMA OthersKeepRing ==
    ASSUME IInv,
           \/ \E g \in Submitters, bid \in Bid : LoadForAdd(g, bid)
           \/ \E g \in Submitters : DiscardOldSlot(g)
           \/ \E r \in Readers, q \in Query : LoadForRead(r, q)
           \/ \E r \in Readers : MaxProfitBlock(r)
           \/ UNCHANGED vars
    PROVE  \A i \in Positions : Live(i)' = Live(i)
<1>1. ASSUME NEW g \in Submitters, DiscardOldSlot(g)
      PROVE  \A i \in Positions : Live(i)' = Live(i)
  <2>1. Return(g, FALSE, auctions, heap)
    BY <1>1, Zenon DEF DiscardOldSlot
  <2>2. \A i \in Positions : Live(i)' = heap[auctions[i]]
    BY <2>1, ReturnLive, Zenon DEF IInv, TypeOK
  <2> QED
    BY <2>2 DEF Live
<1>2. ASSUME NEW r \in Readers, MaxProfitBlock(r)
      PROVE  \A i \in Positions : Live(i)' = Live(i)
  <2>1. auctions' = auctions /\ heap' = Collect(heap, auctions, ptr')
    BY <1>2 DEF MaxProfitBlock
  <2>2. \A i \in Positions : heap'[auctions[i]] = heap[auctions[i]]
    BY <2>1, CollectFields, SMTT(30) DEF Reachable, IInv, TypeOK
  <2> QED
    BY <2>1, <2>2, Zenon DEF Live
<1>3. ASSUME NEW g \in Submitters, NEW bid \in Bid, LoadForAdd(g, bid)
      PROVE  \A i \in Positions : Live(i)' = Live(i)
  BY <1>3, Zenon DEF LoadForAdd, Live
<1>4. ASSUME NEW r \in Readers, NEW q \in Query, LoadForRead(r, q)
      PROVE  \A i \in Positions : Live(i)' = Live(i)
  BY <1>4, Zenon DEF LoadForRead, Live
<1>5. ASSUME UNCHANGED vars
      PROVE  \A i \in Positions : Live(i)' = Live(i)
  BY <1>5 DEF vars, Live
<1> QED
  BY <1>1, <1>2, <1>3, <1>4, <1>5, Zenon

\* What a step does to the ring: it opens a slot, enters a bid, or nothing.
LEMMA RingSteps ==
    ASSUME IInv, [Next]_vars
    PROVE  \/ \E g \in Submitters : OpenSlot(g)
           \/ \E g \in Submitters : AcceptBid(g) \/ KeepWinner(g) \/ Reassign(g)
           \/ \A i \in Positions : Live(i)' = Live(i)
  BY OthersKeepRing, Zenon DEF Next, AddBlock

\* The auctioneer implements the book: a step of the code opens a slot,
\* enters one bid with the best last bid as the winner, or leaves the book
\* alone, however the calls interleave.
THEOREM Refinement == Spec => ImplementsBook
<1>1. Init => Book!Init
  <2> SUFFICES ASSUME Init
               PROVE  Book!Init
    OBVIOUS
  <2>1. \A i \in Positions : Live(i) = EmptyAuction(i)
    BY InitialRing DEF Live
  <2> QED
    BY <2>1, BookOperators DEF Book!Init, EmptyAuction
<1>2. IInv /\ [Next]_vars => [Book!Next]_(Book!bookVars)
  <2> SUFFICES ASSUME IInv, [Next]_vars
               PROVE  Book!Next \/ UNCHANGED Book!bookVars
    OBVIOUS
  <2>1. ASSUME NEW g \in Submitters, OpenSlot(g)
        PROVE  Book!Next
    <3>1. adding[g] \in Bid
      BY <2>1, RunningCall DEF OpenSlot
    <3> QED
      BY <2>1, <3>1, OpenBook, Zenon
  <2>2. ASSUME \A i \in Positions : Live(i)' = Live(i)
        PROVE  UNCHANGED Book!bookVars
    BY <2>2, BookStutters
  <2> QED
    BY <2>1, <2>2, RingSteps, BidBookStep, Zenon
<1> QED
  BY <1>1, <1>2, InductiveInvariant, PTL DEF Spec, ImplementsBook, Book!Spec

-----------------------------------------------------------------------------
\* AddBlock's answer: when it is true for a bid of the slot that is open, the
\* bid is the winner of its parent in the auction that is served, however
\* many calls run.
THEOREM AddedTheorem == Spec => AddedIsWinner
<1> DEFINE Taken(g) ==
      LET bid == adding[g] IN
      (/\ bid # NoBid /\ adding'[g] = NoBid /\ added'[g]
       /\ ptr[g] = auctions[Position(bid.slot)] /\ heap[ptr[g]].Slot = bid.slot)
      => heap'[auctions'[Position(bid.slot)]].maxProfit[bid.parent] = bid
<1>1. IInv /\ [Next]_vars => [\A g \in Submitters : Taken(g)]_vars
  <2> SUFFICES ASSUME IInv, Next, NEW g \in Submitters,
                      adding[g] # NoBid, adding'[g] = NoBid, added'[g],
                      ptr[g] = auctions[Position(adding[g].slot)],
                      heap[ptr[g]].Slot = adding[g].slot
               PROVE  heap'[auctions'[Position(adding[g].slot)]].maxProfit[adding[g].parent]
                        = adding[g]
    BY Zenon
  <2>1. PICK bid : bid = adding[g]
    BY Zenon
  <2> DEFINE a == heap[ptr[g]]
             pos == Position(bid.slot)
  <2>2. /\ bid \in Bid /\ bid.parent \in Parents /\ bid.slot \in Nat
        /\ a \in Auction /\ a.Slot \in Nat
    BY <2>1, RunningCall DEF Auction
  <2>3. AcceptBid(g) \/ KeepWinner(g) \/ Reassign(g)
    <3>1. AddBlock(g)
      BY AddingEnds
    <3>2. DiscardOldSlot(g) => a.Slot > bid.slot
      BY <2>1, Zenon DEF DiscardOldSlot
    <3>3. OpenSlot(g) => a.Slot < bid.slot
      BY <2>1, Zenon DEF OpenSlot
    <3>4. ~ DiscardOldSlot(g) /\ ~ OpenSlot(g)
      BY <2>1, <2>2, <3>2, <3>3
    <3> QED
      BY <3>1, <3>4, Zenon DEF AddBlock
  <2>4. PICK m, res : Enters(g, m, res)
    BY <2>3, BidEnters, Zenon
  <2>5. m \in Bid /\ m = bid
    <3>1. /\ m \in Bid /\ (res => m = bid)
          /\ added' = [added EXCEPT ![g] = res]
      BY <2>1, <2>4, Zenon DEF Enters, Return
    <3> QED
      BY <3>1 DEF IInv, TypeOK
  <2>6. /\ auctions' = auctions
        /\ Live(pos)' = Entered(a, bid, m)
    <3>1. pos \in Positions
      BY <2>2, PositionType, Zenon
    <3>2. auctions[pos] = ptr[g]
      BY <2>1, Zenon
    <3> QED
      BY <2>1, <2>4, <3>1, <3>2, EnterLive, SMTT(30)
  <2>7. Entered(a, bid, m).maxProfit[bid.parent] = m
    BY <2>2, <2>5, EnteredMax
  <2> QED
    BY <2>1, <2>5, <2>6, <2>7 DEF Live
<1> QED
  BY <1>1, InductiveInvariant, PTL DEF Spec, AddedIsWinner

\* With one submitter the pointer its call loaded stays in the ring.
LEMMA LoadedInvariant ==
    ASSUME NEW c, Submitters = {c}
    PROVE  Spec => []LoadedIsLive
<1>1. Init => LoadedIsLive
  BY Zenon DEF Init, LoadedIsLive
<1>2. IInv /\ LoadedIsLive /\ [Next]_vars => LoadedIsLive'
  <2> SUFFICES ASSUME IInv, LoadedIsLive, [Next]_vars, adding'[c] # NoBid
               PROVE  ptr'[c] = auctions'[Position(adding'[c].slot)]
    BY DEF LoadedIsLive
  <2>1. ASSUME NEW bid \in Bid, LoadForAdd(c, bid)
        PROVE  ptr'[c] = auctions'[Position(adding'[c].slot)]
    BY <2>1 DEF LoadForAdd, IInv, TypeOK
  <2>2. ASSUME AddBlock(c)
        PROVE  FALSE
    BY <2>2, AddBlockReturns, Zenon
  <2>3. ASSUME NEW r \in Readers, NEW q \in Query, LoadForRead(r, q)
        PROVE  ptr'[c] = auctions'[Position(adding'[c].slot)]
    BY <2>3, AuctioneerAssumption, Zenon DEF LoadForRead, LoadedIsLive, IInv, TypeOK
  <2>4. ASSUME NEW r \in Readers, MaxProfitBlock(r)
        PROVE  ptr'[c] = auctions'[Position(adding'[c].slot)]
    BY <2>4, AuctioneerAssumption, Zenon DEF MaxProfitBlock, LoadedIsLive, IInv, TypeOK
  <2>5. CASE UNCHANGED vars
    BY <2>5 DEF vars, LoadedIsLive
  <2> QED
    BY <2>1, <2>2, <2>3, <2>4, <2>5, Zenon DEF Next
<1> QED
  BY <1>1, <1>2, InductiveInvariant, PTL DEF Spec

\* With one submitter no position of the ring goes back to an earlier slot,
\* whatever the readers do: submissions lower than the latest slot are
\* discarded.  (With two it may: both load the auction of a slot, the one
\* with the higher bid slot replaces it, then the one with the lower.)
THEOREM SlotTheorem ==
    ASSUME NEW c, Submitters = {c}
    PROVE  Spec => SlotNeverGoesBack
<1>1. IInv /\ LoadedIsLive /\ [Next]_vars
      => [\A i \in Positions : Live(i)'.Slot >= Live(i).Slot]_vars
  <2> SUFFICES ASSUME IInv, LoadedIsLive, [Next]_vars, NEW i \in Positions
               PROVE  Live(i)'.Slot >= Live(i).Slot
    BY Zenon
  <2>1. Live(i) \in Auction /\ Live(i).Slot \in Nat
    BY Zenon DEF IInv, TypeOK, Live, Auction
  <2>2. ASSUME OpenSlot(c)
        PROVE  Live(i)'.Slot >= Live(i).Slot
    <3>1. adding[c] # NoBid /\ heap[ptr[c]].Slot < adding[c].slot
      BY <2>2, Zenon DEF OpenSlot
    <3>2. PICK bid \in Bid : bid = adding[c] /\ bid.slot \in Nat
      BY <3>1, RunningCall
    <3> DEFINE pos == Position(bid.slot)
    <3>3. /\ Live(pos)' = EmptyAuction(bid.slot)
          /\ i # pos => Live(i)' = Live(i)
      BY <2>2, <3>2, OpenLive, Zenon
    <3>4. ptr[c] = auctions[pos]
      BY <3>1, <3>2, Zenon DEF LoadedIsLive
    <3>5. i = pos => Live(i)'.Slot = bid.slot /\ Live(i).Slot < bid.slot
      BY <3>1, <3>2, <3>3, <3>4, EmptyAuctionSound, Zenon DEF Live
    <3> QED
      BY <2>1, <3>2, <3>3, <3>5
  <2>3. ASSUME AcceptBid(c) \/ KeepWinner(c) \/ Reassign(c)
        PROVE  Live(i)'.Slot >= Live(i).Slot
    <3> DEFINE bid == adding[c]
               a == heap[ptr[c]]
    <3>1. PICK m, res : Enters(c, m, res)
      BY <2>3, BidEnters, Zenon
    <3>2. bid \in Bid /\ a \in Auction /\ m \in Bid
      BY <3>1, Zenon DEF Enters
    <3>3. \/ Live(i)' = Live(i)
          \/ Live(i) = a /\ Live(i)' = Entered(a, bid, m)
      BY <3>1, EnterLive
    <3> QED
      BY <2>1, <3>2, <3>3, EnteredType, SMTT(30)
  <2> QED
    BY <2>1, <2>2, <2>3, RingSteps
<1> QED
  BY <1>1, LoadedInvariant, InductiveInvariant, PTL DEF Spec, SlotNeverGoesBack
==============================================================================
