---------------------------- MODULE BeaconProofs -----------------------------
(***************************************************************************)
(* Theorems about the beacon manager, its state and its clients, for any   *)
(* number of nodes, any slots and any parents: what the ring gives is of   *)
(* the slot it is asked for and complete, the attributes of the head are   *)
(* known, nothing goes back, the duties follow the head, every query asks  *)
(* every node, and PublishBlock returns what the nodes answered and never  *)
(* waits with no answer left to come.                                      *)
(***************************************************************************)
EXTENDS Beacon, FiniteSetTheorems, TLAPS

-----------------------------------------------------------------------------
(* Queries *)

\* The list of clients is as long as there are clients, and the swap with the
\* first one loses none of them.
LEMMA ListOfAll ==
    ASSUME bestBeaconIndex \in 0 .. Nodes - 1
    PROVE  /\ Len(clientsByLastResponse) = Nodes
           /\ \A n \in 1 .. Nodes : \E i \in 1 .. Nodes : clientsByLastResponse[i] = n
<1> DEFINE k == bestBeaconIndex + 1
           f == clientsByLastResponse
<1>1. k \in 1 .. Nodes /\ 1 \in 1 .. Nodes /\ Nodes \in Nat
  BY MultiClientAssumption, SMTT(30)
<1>2. /\ f \in [1 .. Nodes -> 1 .. Nodes]
      /\ f[1] = k /\ f[k] = 1
      /\ \A i \in 1 .. Nodes : i # 1 /\ i # k => f[i] = i
  <2>1. Clients \in [1 .. Nodes -> 1 .. Nodes] /\ \A i \in 1 .. Nodes : Clients[i] = i
    BY Zenon DEF Clients
  <2>2. CASE bestBeaconIndex = 0
    BY <1>1, <2>1, <2>2, SMTT(30) DEF clientsByLastResponse
  <2>3. CASE bestBeaconIndex # 0
    <3>1. f = [Clients EXCEPT ![1] = k, ![k] = 1]
      BY <1>1, <2>1, <2>3, Zenon DEF clientsByLastResponse
    <3> HIDE DEF f, k
    <3> QED
      BY <1>1, <2>1, <3>1, Zenon
  <2> QED
    BY <2>2, <2>3, Zenon
<1> HIDE DEF f
<1>3. Len(f) = Nodes
  BY <1>1, <1>2, SMTT(30)
<1>4. ASSUME NEW n \in 1 .. Nodes PROVE \E i \in 1 .. Nodes : f[i] = n
  BY <1>1, <1>2, Zenon
<1> QED
  BY <1>3, <1>4, Zenon DEF f

\* Whatever a step does, it starts or ends at most one query.
LEMMA QuerySteps ==
    ASSUME [Next]_vars
    PROVE  \/ UNCHANGED queryVars
           \/ \E c \in Callers : StartQuery(c) \/ AllFail(c) \/ Answered(c) \/ AnsweredOnly(c)
<1> USE DEF clientVars
<1>1. CASE UNCHANGED vars
  BY <1>1, Zenon DEF vars
<1>2. CASE PublishNext
  BY <1>2, Zenon DEF PublishNext, PublishStep, PublishBlock, NodeAnswers, SendAnswer, TakeAnswer
<1>3. CASE ManagerNext
  <2>1. Manager \in Callers /\ Slots \subseteq Callers
    BY BeaconAssumption, Zenon
  <2>2. CASE waitSynced \/ \E e \in Event : InitEvent(e) \/ processNewSlot(e)
    BY <2>2, Zenon DEF waitSynced, InitEvent, processNewSlot, BadEvent, OldEvent, OtherParent, NewHead
  <2>3. CASE Genesis \/ initForkEpoch
    BY <2>1, <2>3, Zenon DEF Genesis, initForkEpoch
  <2>4. CASE Handle
    BY <2>1, <2>4, Zenon DEF Handle, Ask, InitValidators, getProposerDuties, storeProposerDuties,
                      WithdrawalsStep, RandaoStep
  <2>5. CASE \E s \in Slots : Ask(s) \/ updateKnownValidators(s)
    BY <2>1, <2>5, Zenon DEF Ask, updateKnownValidators
  <2> QED
    BY <1>3, <2>2, <2>3, <2>4, <2>5, Zenon DEF ManagerNext
<1> QED
  BY <1>1, <1>2, <1>3, Zenon DEF Next


\* A list is made from the place that is kept, and the place comes from a list.
LEMMA Next_ListInv == ListInv /\ [Next]_vars => ListInv'
<1> SUFFICES ASSUME ListInv, [Next]_vars PROVE ListInv'
  BY Zenon
<1> USE DEF ListInv, EveryClientIsAsked, Asking
<1>1. CASE UNCHANGED queryVars
  BY <1>1, Zenon DEF queryVars
<1>2. ASSUME NEW c \in Callers, StartQuery(c) PROVE ListInv'
  <2>1. list' = [list EXCEPT ![c] = clientsByLastResponse] /\ UNCHANGED bestBeaconIndex
    BY <1>2, Zenon DEF StartQuery
  <2>2. clientsByLastResponse \in Seq(Nat)
    BY MultiClientAssumption, SMTT(30) DEF clientsByLastResponse, Clients
  <2>3. \A d \in Callers : list'[d] = IF d = c THEN clientsByLastResponse ELSE list[d]
    BY <2>1, Zenon
  <2> HIDE DEF ListInv
  <2> QED
    BY <2>1, <2>2, <2>3, ListOfAll, SMTT(30) DEF ListInv
<1>3. ASSUME NEW c \in Callers, AllFail(c) \/ AnsweredOnly(c) PROVE ListInv'
  <2>1. list' = [list EXCEPT ![c] = << >>] /\ UNCHANGED bestBeaconIndex
    BY <1>3, Zenon DEF AllFail, AnsweredOnly
  <2> QED
    BY <2>1, SMTT(30)
<1>4. ASSUME NEW c \in Callers, Answered(c) PROVE ListInv'
  <2>1. /\ list' = [list EXCEPT ![c] = << >>]
        /\ \E i \in 1 .. Nodes : bestBeaconIndex' = i - 1
    BY <1>4, Zenon DEF Answered
  <2>2. bestBeaconIndex' \in 0 .. Nodes - 1
    BY <2>1, MultiClientAssumption, SMTT(30)
  <2> QED
    BY <2>1, <2>2, SMTT(30)
<1> QED
  BY <1>1, <1>2, <1>3, <1>4, QuerySteps, Zenon

\* Every query asks every node once, in some order.
THEOREM AskedTheorem == Spec => []EveryClientIsAsked
<1>1. Init => ListInv
  BY MultiClientAssumption, SMTT(30) DEF Init, ClientInit, ListInv, EveryClientIsAsked, Asking
<1>2. ListInv => EveryClientIsAsked
  BY Zenon DEF ListInv
<1> QED
  BY <1>1, <1>2, Next_ListInv, PTL DEF Spec

-----------------------------------------------------------------------------
(* The ring *)

AttributesOf == [slot : Slots, parent : Hash]
Places == [slot : Slots \cup {0}, withdrawals : SUBSET AttributesOf, randao : SUBSET AttributesOf]

\* What is said of the ring by itself.
RingOK ==
    /\ slots \in [0 .. 1 -> Places]
    /\ AttributesAreOfTheirSlot
    /\ \A i \in 0 .. 1 : \A a \in slots[i].randao : \E b \in slots[i].withdrawals : b.parent = a.parent

\* A slot that events may be for is a positive number with a place in the
\* ring.
LEMMA SlotFacts ==
    ASSUME NEW s \in Slots
    PROVE  s \in Nat /\ s # 0 /\ s > -1 /\ s % 2 \in 0 .. 1
  BY BeaconAssumption, SMTT(30)

\* The entry of a slot holds attributes of that slot only.
LEMMA EntryFacts ==
    ASSUME RingOK, NEW s \in Slots
    PROVE  /\ Entry(s) \in Places /\ Entry(s).slot = s
           /\ \A a \in Entry(s).withdrawals \cup Entry(s).randao : a.slot = s
           /\ \A a \in Entry(s).randao : \E b \in Entry(s).withdrawals : b.parent = a.parent
<1>1. s % 2 \in 0 .. 1 /\ slots[s % 2] \in Places
  BY SlotFacts, Zenon DEF RingOK
<1>2. CASE slots[s % 2].slot # s
  BY <1>2, Zenon DEF Entry, AtomicState, NumberOfSlotsInState, Places
<1>3. CASE slots[s % 2].slot = s
  BY <1>1, <1>3, Zenon DEF Entry, NumberOfSlotsInState, RingOK, AttributesAreOfTheirSlot
<1> QED
  BY <1>2, <1>3, Zenon

\* Withdrawals go into the place of their slot.
LEMMA SetWithdrawalsRing ==
    ASSUME RingOK, NEW s \in Slots, NEW h \in Hash, SetWithdrawals(Attributes(s, h))
    PROVE  /\ RingOK'
           /\ slots'[s % 2].slot = s
           /\ \E b \in slots'[s % 2].withdrawals : b.parent = h
           /\ \A i \in 0 .. 1 : i # s % 2 => slots'[i] = slots[i]
<1> DEFINE a == Attributes(s, h)
           new == [Entry(s) EXCEPT !.withdrawals = Put(Entry(s).withdrawals, a)]
<1>1. /\ a \in AttributesOf /\ a.slot = s /\ a.parent = h /\ s % 2 \in 0 .. 1
      /\ slots' = [slots EXCEPT ![s % 2] = new]
  BY SlotFacts, Zenon DEF SetWithdrawals, Attributes, NumberOfSlotsInState, AttributesOf
<1>2. /\ new \in Places /\ new.slot = s /\ new.randao = Entry(s).randao
      /\ new.withdrawals = Put(Entry(s).withdrawals, a)
  BY <1>1, EntryFacts, SMTT(30) DEF Places, Put
<1>3. a \in new.withdrawals /\ \A b \in new.withdrawals \cup new.randao : b.slot = s
  BY <1>1, <1>2, EntryFacts, Zenon DEF Put
<1>4. \A r \in new.randao : \E b \in new.withdrawals : b.parent = r.parent
  BY <1>1, <1>2, EntryFacts, SMTT(30) DEF Put
<1> HIDE DEF new, a
<1>5. /\ slots' \in [0 .. 1 -> Places] /\ slots'[s % 2] = new
      /\ \A i \in 0 .. 1 : i # s % 2 => slots'[i] = slots[i]
  BY <1>1, <1>2, Zenon DEF RingOK
<1>6. RingOK'
  BY <1>2, <1>3, <1>4, <1>5, SMTT(30) DEF RingOK, AttributesAreOfTheirSlot
<1> QED
  BY <1>1, <1>2, <1>3, <1>5, <1>6, Zenon

\* The randao follows, once the withdrawals are there.
LEMMA SetRandaoRing ==
    ASSUME RingOK, NEW s \in Slots, NEW h \in Hash, SetRandao(Attributes(s, h)),
           slots[s % 2].slot = s, \E b \in slots[s % 2].withdrawals : b.parent = h
    PROVE  /\ RingOK'
           /\ slots'[s % 2].slot = s
           /\ \A i \in 0 .. 1 : i # s % 2 => slots'[i] = slots[i]
<1> DEFINE a == Attributes(s, h)
           new == [Entry(s) EXCEPT !.randao = Put(Entry(s).randao, a)]
<1>1. /\ a \in AttributesOf /\ a.slot = s /\ a.parent = h /\ s % 2 \in 0 .. 1
      /\ slots' = [slots EXCEPT ![s % 2] = new] /\ Entry(s) = slots[s % 2]
  BY SlotFacts, Zenon DEF SetRandao, Attributes, NumberOfSlotsInState, AttributesOf, Entry
<1>2. /\ new \in Places /\ new.slot = s /\ new.randao = Put(Entry(s).randao, a)
      /\ new.withdrawals = Entry(s).withdrawals
  BY <1>1, EntryFacts, SMTT(30) DEF Places, Put
<1>3. \A b \in new.withdrawals \cup new.randao : b.slot = s
  BY <1>1, <1>2, EntryFacts, Zenon DEF Put
<1>4. \A r \in new.randao : \E b \in new.withdrawals : b.parent = r.parent
  BY <1>1, <1>2, EntryFacts, SMTT(30) DEF Put
<1> HIDE DEF new, a
<1>5. /\ slots' \in [0 .. 1 -> Places] /\ slots'[s % 2] = new
      /\ \A i \in 0 .. 1 : i # s % 2 => slots'[i] = slots[i]
  BY <1>1, <1>2, Zenon DEF RingOK
<1>6. RingOK'
  BY <1>2, <1>3, <1>4, <1>5, SMTT(30) DEF RingOK, AttributesAreOfTheirSlot
<1> QED
  BY <1>2, <1>5, <1>6, Zenon

-----------------------------------------------------------------------------
(* Publication *)

\* The nodes' answers are finitely many.
LEMMA PublishFinite ==
    ASSUME PublishInv
    PROVE  /\ IsFiniteSet(asked) /\ Cardinality(asked) \in Nat
           /\ IsFiniteSet(sending) /\ Cardinality(sending) \in Nat
           /\ IsFiniteSet(PublishClients) /\ Cardinality(PublishClients) = Nodes + V2Nodes
<1>1. Nodes + V2Nodes \in Nat /\ Nodes + V2Nodes \in Int /\ 1 \in Int
  BY MultiClientAssumption, SMTT(30)
<1>2. /\ IsFiniteSet(1 .. (Nodes + V2Nodes))
      /\ Cardinality(1 .. (Nodes + V2Nodes)) =
            IF 1 > Nodes + V2Nodes THEN 0 ELSE (Nodes + V2Nodes) - 1 + 1
  BY <1>1, FS_Interval, SMTT(30)
<1>3. IsFiniteSet(PublishClients) /\ Cardinality(PublishClients) = Nodes + V2Nodes
  BY <1>1, <1>2, SMTT(30) DEF PublishClients
<1>4. IsFiniteSet(BOOLEAN)
  <2>1. IsFiniteSet({} \cup {TRUE})
    BY FS_EmptySet, FS_AddElement, Zenon
  <2>2. IsFiniteSet(({} \cup {TRUE}) \cup {FALSE})
    BY <2>1, FS_AddElement, Zenon
  <2>3. BOOLEAN = ({} \cup {TRUE}) \cup {FALSE}
    BY Zenon
  <2> QED
    BY <2>2, <2>3, Zenon
<1>5. IsFiniteSet(PublishClients \X BOOLEAN)
  BY <1>3, <1>4, FS_Product, Zenon
<1> QED
  BY <1>3, <1>5, FS_Subset, FS_CardinalityType, Zenon DEF PublishInv

\* PublishBlock starts with every client asked and no answer counted.
LEMMA PublishBlockInv == PublishInv /\ PublishBlock => PublishInv'
<1> SUFFICES ASSUME PublishInv, PublishBlock PROVE PublishInv'
  BY Zenon
<1>1. /\ publish = "idle" /\ publish' = "waiting" /\ asked' = PublishClients
      /\ UNCHANGED <<sending, resp, received, took>>
      /\ sending = {} /\ resp = << >> /\ received = 0 /\ took = {}
  BY Zenon DEF PublishBlock, PublishInv
<1>2. Cardinality(asked') + Cardinality(sending') + Len(resp') + received' = Nodes + V2Nodes
  BY <1>1, PublishFinite, FS_EmptySet, MultiClientAssumption, SMTT(30)
<1> QED
  BY <1>1, <1>2, Zenon DEF PublishInv

\* A node's answer goes from asked to sending ...
LEMMA NodeAnswersInv == ASSUME PublishInv, NEW m \in PublishClients, NodeAnswers(m) PROVE PublishInv'
<1>1. PICK ok \in BOOLEAN :
        /\ sending' = sending \cup {<<m, ok>>}
        /\ took' = IF ok THEN took \cup {m} ELSE took
  BY Zenon DEF NodeAnswers
<1>2. /\ m \in asked /\ asked' = asked \ {m} /\ UNCHANGED <<publish, resp, received>>
      /\ <<m, ok>> \notin sending
  BY Zenon DEF NodeAnswers, PublishInv
<1>3. Cardinality(asked') = Cardinality(asked) - 1 /\ Cardinality(sending') = Cardinality(sending) + 1
  BY <1>1, <1>2, PublishFinite, FS_RemoveElement, FS_AddElement, Zenon
<1>4. publish # "idle"
  BY <1>2, Zenon DEF PublishInv
<1>5. Cardinality(asked') + Cardinality(sending') + Len(resp') + received' = Nodes + V2Nodes
  <2>1. /\ Cardinality(asked) \in Nat /\ Cardinality(sending) \in Nat
        /\ Len(resp) \in Nat /\ received \in Nat
    <3>1. resp \in Seq(BOOLEAN) /\ received \in Nat
      BY Zenon DEF PublishInv
    <3>2. Len(resp) \in Nat
      BY <3>1, SMTT(30)
    <3> QED
      BY <3>1, <3>2, PublishFinite, Zenon
  <2>2. Cardinality(asked) + Cardinality(sending) + Len(resp) + received = Nodes + V2Nodes
    BY <1>4, Zenon DEF PublishInv
  <2> QED
    BY <1>2, <1>3, <2>1, <2>2, SMTT(30)
<1>6. /\ asked' \subseteq PublishClients /\ took' \subseteq PublishClients
      /\ sending' \subseteq PublishClients \X BOOLEAN
      /\ \A n \in asked', b \in BOOLEAN : <<n, b>> \notin sending'
  BY <1>1, <1>2, SMTT(30) DEF PublishInv
<1>7. /\ publish' # "nil" => \A n \in took' : <<n, TRUE>> \in sending' \/ \E i \in DOMAIN resp' : resp'[i]
      /\ \A n \in PublishClients : <<n, TRUE>> \in sending' => n \in took'
      /\ took \subseteq took'
  <2>1. CASE ok
    <3>1. sending' = sending \cup {<<m, TRUE>>} /\ took' = took \cup {m}
      BY <1>1, <2>1, Zenon
    <3> QED
      BY <1>2, <3>1, Zenon DEF PublishInv
  <2>2. CASE ~ok
    <3>1. sending' = sending \cup {<<m, FALSE>>} /\ took' = took
      BY <1>1, <2>2, Zenon
    <3> QED
      BY <1>2, <3>1, Zenon DEF PublishInv
  <2> QED
    BY <2>1, <2>2, Zenon
<1> QED
  BY <1>2, <1>4, <1>5, <1>6, <1>7, Zenon DEF PublishInv

\* ... from sending to the channel ...
LEMMA SendAnswerInv == ASSUME PublishInv, NEW m \in PublishClients, SendAnswer(m) PROVE PublishInv'
<1>1. PICK ok \in BOOLEAN :
        /\ <<m, ok>> \in sending
        /\ sending' = sending \ {<<m, ok>>}
        /\ resp' = Append(resp, ok)
  BY Zenon DEF SendAnswer
<1>2. UNCHANGED <<publish, asked, received, took>> /\ publish # "idle" /\ resp \in Seq(BOOLEAN)
  BY <1>1, Zenon DEF SendAnswer, PublishInv
<1>3. /\ resp' \in Seq(BOOLEAN) /\ Len(resp') = Len(resp) + 1
      /\ DOMAIN resp' = 1 .. (Len(resp) + 1) /\ resp'[Len(resp) + 1] = ok
      /\ \A i \in DOMAIN resp : i \in DOMAIN resp' /\ resp'[i] = resp[i]
      /\ \A i \in DOMAIN resp' : i \in DOMAIN resp \/ i = Len(resp) + 1
      /\ Len(resp) + 1 \in DOMAIN resp'
  BY <1>1, <1>2, SMTT(30)
<1>4. Cardinality(asked') + Cardinality(sending') + Len(resp') + received' = Nodes + V2Nodes
  <2>1. /\ Cardinality(asked) \in Nat /\ Cardinality(sending) \in Nat
        /\ Len(resp) \in Nat /\ received \in Nat
    <3>1. resp \in Seq(BOOLEAN) /\ received \in Nat
      BY Zenon DEF PublishInv
    <3>2. Len(resp) \in Nat
      BY <3>1, SMTT(30)
    <3> QED
      BY <3>1, <3>2, PublishFinite, Zenon
  <2>2. Cardinality(asked) + Cardinality(sending) + Len(resp) + received = Nodes + V2Nodes
    BY <1>2, Zenon DEF PublishInv
  <2>3. Cardinality(sending') = Cardinality(sending) - 1
    BY <1>1, PublishFinite, FS_RemoveElement, Zenon
  <2> QED
    BY <1>2, <1>3, <2>1, <2>2, <2>3, SMTT(30)
<1>5. ASSUME publish' # "nil", NEW n \in took'
      PROVE  <<n, TRUE>> \in sending' \/ \E i \in DOMAIN resp' : resp'[i]
  <2>1. <<n, TRUE>> \in sending \/ \E i \in DOMAIN resp : resp[i]
    BY <1>2, <1>5, Zenon DEF PublishInv
  <2>2. CASE \E i \in DOMAIN resp : resp[i]
    BY <1>3, <2>2, Zenon
  <2>3. CASE <<n, TRUE>> \in sending
    <3>1. CASE <<n, TRUE>> = <<m, ok>>
      <4>1. ok = TRUE
        BY <3>1, Zenon
      <4> QED
        BY <1>3, <4>1, Zenon
    <3>2. CASE <<n, TRUE>> # <<m, ok>>
      BY <1>1, <2>3, <3>2, Zenon
    <3> QED
      BY <3>1, <3>2, Zenon
  <2> QED
    BY <2>1, <2>2, <2>3, Zenon
<1>6. (\E i \in DOMAIN resp' : resp'[i]) => took' # {}
  <2>1. ok => m \in took
    <3>1. ok => <<m, TRUE>> \in sending
      BY <1>1, Zenon
    <3> QED
      BY <3>1, Zenon DEF PublishInv
  <2> QED
    BY <1>2, <1>3, <2>1, Zenon DEF PublishInv
<1>7. /\ sending' \subseteq PublishClients \X BOOLEAN
      /\ \A n \in asked', b \in BOOLEAN : <<n, b>> \notin sending'
      /\ \A n \in PublishClients : <<n, TRUE>> \in sending' => n \in took'
  BY <1>1, <1>2, Zenon DEF PublishInv
<1> QED
  BY <1>2, <1>3, <1>4, <1>5, <1>6, <1>7, Zenon DEF PublishInv

\* Taking the first answer from the channel moves the others up by one.
LEMMA TailFacts ==
    ASSUME NEW S, NEW q \in Seq(S), q # << >>
    PROVE  /\ Tail(q) \in Seq(S) /\ Len(Tail(q)) = Len(q) - 1 /\ Len(q) \in Nat
           /\ 1 \in DOMAIN q /\ Head(q) = q[1]
           /\ \A i \in DOMAIN Tail(q) : i + 1 \in DOMAIN q /\ Tail(q)[i] = q[i + 1]
           /\ \A i \in DOMAIN q : i # 1 => i - 1 \in DOMAIN Tail(q) /\ Tail(q)[i - 1] = q[i]
  BY SMTT(30)

\* ... and from there to PublishBlock, which returns at the first node that
\* took the block.
LEMMA TakeAnswerInv == PublishInv /\ TakeAnswer => PublishInv'
<1> SUFFICES ASSUME PublishInv, TakeAnswer PROVE PublishInv'
  BY Zenon
<1>1. /\ publish = "waiting" /\ resp # << >> /\ resp' = Tail(resp) /\ received' = received + 1
      /\ UNCHANGED <<asked, sending, took>>
      /\ publish' = IF Head(resp) THEN "nil"
                    ELSE IF received' = Nodes + V2Nodes THEN "error" ELSE "waiting"
      /\ resp \in Seq(BOOLEAN) /\ received \in Nat
  BY Zenon DEF TakeAnswer, PublishInv
<1>2. /\ resp' \in Seq(BOOLEAN) /\ Len(resp') = Len(resp) - 1 /\ Len(resp) \in Nat
      /\ 1 \in DOMAIN resp /\ Head(resp) = resp[1]
      /\ \A i \in DOMAIN resp' : i + 1 \in DOMAIN resp /\ resp'[i] = resp[i + 1]
      /\ \A i \in DOMAIN resp : i # 1 => i - 1 \in DOMAIN resp' /\ resp'[i - 1] = resp[i]
  <2>1. resp # << >> /\ resp' = Tail(resp) /\ resp \in Seq(BOOLEAN)
    BY <1>1, Zenon
  <2> QED
    BY <2>1, TailFacts, Zenon
<1>3. received' \in Nat /\ Cardinality(asked') + Cardinality(sending') + Len(resp') + received' = Nodes + V2Nodes
  <2>1. Cardinality(asked) \in Nat /\ Cardinality(sending) \in Nat
    BY PublishFinite, Zenon
  <2>2. Cardinality(asked) + Cardinality(sending) + Len(resp) + received = Nodes + V2Nodes
    BY <1>1, Zenon DEF PublishInv
  <2>3. /\ received \in Nat /\ received' = received + 1 /\ Len(resp) \in Nat
        /\ Len(resp') = Len(resp) - 1 /\ asked' = asked /\ sending' = sending
    BY <1>1, <1>2, Zenon
  <2> QED
    BY <2>1, <2>2, <2>3, SMTT(30)
<1>4. ASSUME publish' # "nil", NEW n \in took'
      PROVE  <<n, TRUE>> \in sending' \/ \E i \in DOMAIN resp' : resp'[i]
  <2>1. ~Head(resp)
    BY <1>1, <1>4, Zenon
  <2>2. <<n, TRUE>> \in sending \/ \E i \in DOMAIN resp : resp[i]
    BY <1>1, <1>4, Zenon DEF PublishInv
  <2>3. ASSUME NEW i \in DOMAIN resp, resp[i] PROVE \E j \in DOMAIN resp' : resp'[j]
    BY <1>2, <2>1, <2>3, Zenon
  <2> QED
    BY <1>1, <2>2, <2>3, Zenon
<1>5. (\E i \in DOMAIN resp' : resp'[i]) => took' # {}
  BY <1>1, <1>2, Zenon DEF PublishInv
<1>6. publish' = "nil" => took' # {}
  <2>1. Head(resp) => took # {}
    BY <1>2, Zenon DEF PublishInv
  <2> QED
    BY <1>1, <2>1, Zenon
<1>7. /\ publish' \in {"waiting", "nil", "error"}
      /\ publish' = "error" => received' = Nodes + V2Nodes
  BY <1>1, Zenon
<1> QED
  BY <1>1, <1>2, <1>3, <1>4, <1>5, <1>6, <1>7, Zenon DEF PublishInv

\* The manager leaves a publication alone.
LEMMA ManagerPublish == ManagerNext => UNCHANGED publishVars
<1> USE DEF clientVars, StartQuery, AllFail, Answered, AnsweredOnly
<1>1. CASE waitSynced \/ Genesis \/ initForkEpoch
  BY <1>1, Zenon DEF waitSynced, Genesis, initForkEpoch
<1>2. CASE \E e \in Event : InitEvent(e) \/ processNewSlot(e)
  BY <1>2, Zenon DEF InitEvent, processNewSlot, BadEvent, OldEvent, OtherParent, NewHead
<1>3. CASE Handle
  BY <1>3, Zenon DEF Handle, Ask, InitValidators, getProposerDuties, storeProposerDuties,
              WithdrawalsStep, RandaoStep
<1>4. CASE \E s \in Slots : Ask(s) \/ updateKnownValidators(s)
  BY <1>4, Zenon DEF Ask, updateKnownValidators
<1> QED
  BY <1>1, <1>2, <1>3, <1>4, Zenon DEF ManagerNext

\* Every step keeps the count of a publication's answers.
LEMMA Next_PublishInv == PublishInv /\ [Next]_vars => PublishInv'
<1> SUFFICES ASSUME PublishInv, [Next]_vars PROVE PublishInv'
  BY Zenon
<1>1. CASE UNCHANGED publishVars
  BY <1>1, Zenon DEF PublishInv, publishVars
<1>2. CASE UNCHANGED vars
  BY <1>1, <1>2, Zenon DEF vars, clientVars
<1>3. CASE ManagerNext
  BY <1>1, <1>3, ManagerPublish, Zenon
<1>4. CASE PublishNext
  BY <1>4, PublishBlockInv, NodeAnswersInv, SendAnswerInv, TakeAnswerInv, Zenon DEF PublishNext, PublishStep
<1> QED
  BY <1>2, <1>3, <1>4, Zenon DEF Next

\* PublishBlock returns nil only if a node took the block, and an error only if
\* all have answered and none has: the answers that are still to come, or still
\* in the channel, are none once as many as there are clients were received.
THEOREM PublishTheorem == Spec => []PublishIsHonest
<1>1. Init => PublishInv
  BY SMTT(30) DEF Init, ClientInit, PublishInv
<1>2. PublishInv => PublishIsHonest
  <2> SUFFICES ASSUME PublishInv PROVE PublishIsHonest
    BY Zenon
  <2>1. ASSUME publish = "error" PROVE took = {} /\ asked = {}
    <3>1. /\ received = Nodes + V2Nodes /\ received \in Nat /\ resp \in Seq(BOOLEAN)
          /\ Cardinality(asked) + Cardinality(sending) + Len(resp) + received = Nodes + V2Nodes
          /\ \A n \in took : <<n, TRUE>> \in sending \/ \E i \in DOMAIN resp : resp[i]
      BY <2>1, Zenon DEF PublishInv
    <3>2. Cardinality(asked) \in Nat /\ Cardinality(sending) \in Nat
      BY PublishFinite, Zenon
    <3>3. Len(resp) \in Nat
      BY <3>1, SMTT(30)
    <3>4. Cardinality(asked) = 0 /\ Cardinality(sending) = 0 /\ Len(resp) = 0
      BY <3>1, <3>2, <3>3, SMTT(30)
    <3>5. asked = {} /\ sending = {} /\ DOMAIN resp = {}
      <4>1. asked = {} /\ sending = {}
        BY <3>4, PublishFinite, FS_EmptySet, Zenon
      <4>2. DOMAIN resp = {}
        BY <3>1, <3>4, SMTT(30)
      <4> QED
        BY <4>1, <4>2, Zenon
    <3> QED
      BY <3>1, <3>5, Zenon
  <2> QED
    BY <2>1, Zenon DEF PublishIsHonest, PublishInv
<1> QED
  BY <1>1, <1>2, Next_PublishInv, PTL DEF Spec

\* PublishBlock goes on waiting only if it has not counted every answer.
LEMMA Next_Counting ==
    ASSUME PublishInv, [Next]_vars, publish = "waiting" => received < Nodes + V2Nodes
    PROVE  publish' = "waiting" => received' < Nodes + V2Nodes
<1>1. CASE UNCHANGED <<publish, received>>
  BY <1>1, Zenon
<1>2. CASE UNCHANGED vars \/ ManagerNext
  BY <1>1, <1>2, ManagerPublish, Zenon DEF vars, clientVars, publishVars
<1>3. CASE PublishBlock
  BY <1>3, MultiClientAssumption, SMTT(30) DEF PublishBlock, PublishInv
<1>4. ASSUME NEW n \in PublishClients, NodeAnswers(n) \/ SendAnswer(n)
      PROVE  UNCHANGED <<publish, received>>
  BY <1>4, Zenon DEF NodeAnswers, SendAnswer
<1>5. CASE TakeAnswer
  <2>1. publish = "waiting" /\ received' = received + 1 /\ received \in Nat
    BY <1>5, Zenon DEF TakeAnswer, PublishInv
  <2>2. publish' = "waiting" => received' # Nodes + V2Nodes
    BY <1>5, Zenon DEF TakeAnswer
  <2> QED
    BY <2>1, <2>2, MultiClientAssumption, SMTT(30)
<1> QED
  BY <1>1, <1>2, <1>3, <1>4, <1>5, Zenon DEF Next, PublishNext, PublishStep

\* While PublishBlock waits an answer is due, and a goroutine that has one does
\* not stay blocked on a channel with room for all.
THEOREM AnswerTheorem == Spec => []AnswerToCome
<1> DEFINE Counting == publish = "waiting" => received < Nodes + V2Nodes
<1>1. Init => PublishInv /\ Counting
  BY SMTT(30) DEF Init, ClientInit, PublishInv
<1>2. PublishInv /\ Counting /\ [Next]_vars => PublishInv' /\ Counting'
  BY Next_PublishInv, Next_Counting, Zenon
<1>3. PublishInv /\ Counting => AnswerToCome
  <2> SUFFICES ASSUME PublishInv, Counting PROVE AnswerToCome
    BY Zenon
  <2>1. Cardinality(asked) \in Nat /\ Cardinality(sending) \in Nat
    BY PublishFinite, Zenon
  <2>2. resp \in Seq(BOOLEAN) /\ received \in Nat /\ Len(resp) \in Nat
    BY SMTT(30) DEF PublishInv
  <2>3. ASSUME publish = "waiting" PROVE asked # {} \/ sending # {} \/ resp # << >>
    <3>1. Cardinality(asked) + Cardinality(sending) + Len(resp) + received = Nodes + V2Nodes
      BY <2>3, Zenon DEF PublishInv
    <3>2. received < Nodes + V2Nodes
      BY <2>3, Zenon
    <3>3. Cardinality(asked) # 0 \/ Cardinality(sending) # 0 \/ Len(resp) # 0
      BY <2>1, <2>2, <3>1, <3>2, MultiClientAssumption, SMTT(30)
    <3> QED
      BY <3>3, FS_EmptySet, Zenon
  <2>4. ASSUME Nodes + V2Nodes <= RespSize, sending # {} PROVE Len(resp) < RespSize
    <3>1. Cardinality(asked) + Cardinality(sending) + Len(resp) + received = Nodes + V2Nodes
      BY <2>4, Zenon DEF PublishInv
    <3>2. Cardinality(sending) # 0
      BY <2>4, PublishFinite, FS_EmptySet, Zenon
    <3> QED
      BY <2>1, <2>2, <2>4, <3>1, <3>2, MultiClientAssumption, SMTT(30)
  <2> QED
    BY <2>3, <2>4, Zenon DEF AnswerToCome
<1> HIDE DEF Counting
<1> QED
  BY <1>1, <1>2, <1>3, PTL DEF Spec

-----------------------------------------------------------------------------
(* The manager *)

ManagerInv == TypeOK /\ EventInv /\ RingInv /\ RingOK

\* The slot and the parent of an event.
LEMMA EventFacts ==
    ASSUME NEW e \in Event
    PROVE  /\ e.slot \in Slots /\ e.slot \in Nat /\ e.slot # 0
           /\ e.parent \in Hash \cup {BadHash}
           /\ e.parent # BadHash => e.parent \in Hash
  BY BeaconAssumption, Zenon DEF Event

\* The head is unset or a positive slot.
LEMMA HeadFacts ==
    ASSUME TypeOK
    PROVE  headSlot \in Int /\ (headSlot = -1 \/ headSlot \in Nat \ {0})
  BY BeaconAssumption, SMTT(30) DEF TypeOK

\* An event moves the head at most to its own slot.
LEMMA TakeFacts ==
    ASSUME TypeOK, NEW e \in Event, Take(e)
    PROVE  /\ headSlot' \in Slots \cup {-1} /\ headSlot' \in Int
           /\ headSlot' >= headSlot /\ headSlot' >= e.slot
           /\ e.slot > headSlot => headSlot' = e.slot /\ seen' = {e.parent}
           /\ e.slot = headSlot => headSlot' = headSlot /\ seen' = seen \cup {e.parent}
           /\ e.slot < headSlot => headSlot' = headSlot /\ seen' = seen
           /\ seen' \subseteq Hash \cup {BadHash}
           /\ e.slot = headSlot' => e.parent \in seen'
<1>1. headSlot \in Int /\ e.slot \in Int /\ headSlot \in Slots \cup {-1} /\ e.slot \in Slots
  BY HeadFacts, EventFacts, SMTT(30) DEF TypeOK
<1>2. headSlot' = IF e.slot > headSlot THEN e.slot ELSE headSlot
  BY Zenon DEF Take, SetHeadSlotIfHigher
<1>3. CASE e.slot > headSlot
  <2>1. seen' = {e.parent}
    BY <1>1, <1>3, SMTT(30) DEF Take
  <2> QED
    BY <1>1, <1>2, <1>3, <2>1, EventFacts, SMTT(30)
<1>4. CASE e.slot = headSlot
  <2>1. seen' = seen \cup {e.parent}
    BY <1>1, <1>4, SMTT(30) DEF Take
  <2> QED
    BY <1>1, <1>2, <1>4, <2>1, EventFacts, SMTT(30) DEF TypeOK
<1>5. CASE e.slot < headSlot
  <2>1. seen' = seen
    BY <1>1, <1>5, SMTT(30) DEF Take
  <2> QED
    BY <1>1, <1>2, <1>5, <2>1, EventFacts, SMTT(30) DEF TypeOK
<1> QED
  BY <1>1, <1>3, <1>4, <1>5, SMTT(30)

\* What is said of the ring is kept by a step that does not write to it.
LEMMA RingKept ==
    ASSUME TypeOK, RingInv, RingOK, UNCHANGED slots, headSlot' \in Int, headSlot' >= headSlot,
           pc' = "randao" => pc = "randao" /\ UNCHANGED event,
           phase' # "run" /\ pc' # "randao" => phase # "run" /\ pc # "randao"
    PROVE  RingInv' /\ RingOK'
<1>1. RingOK'
  BY Zenon DEF RingOK, AttributesAreOfTheirSlot
<1>2. \A i \in 0 .. 1 : slots'[i].slot = 0 \/ slots'[i].slot <= headSlot'
  <2>1. \A i \in 0 .. 1 : slots[i].slot \in Int
    <3>1. \A i \in 0 .. 1 : slots[i] \in Places
      BY Zenon DEF RingOK
    <3>2. \A r \in Places : r.slot \in Slots \cup {0}
      BY Zenon DEF Places
    <3>3. \A t \in Slots \cup {0} : t \in Int
      BY BeaconAssumption, SMTT(30)
    <3> QED
      BY <3>1, <3>2, <3>3, Zenon
  <2> QED
    BY <2>1, HeadFacts, SMTT(30) DEF RingInv
<1>3. phase' # "run" /\ pc' # "randao" => \A i \in 0 .. 1 : slots'[i].slot = 0
  BY Zenon DEF RingInv
<1>4. pc' = "randao" =>
        /\ event'.parent \in Hash
        /\ slots'[event'.slot % 2].slot = event'.slot
        /\ \E b \in slots'[event'.slot % 2].withdrawals : b.parent = event'.parent
  BY Zenon DEF RingInv
<1>5. \A i \in 0 .. 1 : \A a \in slots'[i].randao : \E b \in slots'[i].withdrawals : b.parent = a.parent
  BY Zenon DEF RingInv
<1> QED
  BY <1>1, <1>2, <1>3, <1>4, <1>5, Zenon DEF RingInv

\* Before there are events.
LEMMA StartInv ==
    ASSUME ManagerInv, bestBeaconIndex' \in 0 .. Nodes - 1,
           waitSynced \/ Genesis \/ initForkEpoch
    PROVE  ManagerInv'
<1>1. /\ UNCHANGED <<headSlot, slots, parentBlockHash, duties, knownValidators>>
      /\ UNCHANGED <<pc, event, seen, missed>>
      /\ phase \in {"sync", "genesis", "fork"}
      /\ phase' \in {"genesis", "fork", "wait", "failed"}
  BY Zenon DEF waitSynced, Genesis, initForkEpoch, stateVars
<1>2. headSlot = -1 /\ pc = "idle"
  BY <1>1, Zenon DEF ManagerInv, EventInv
<1>3. TypeOK' /\ EventInv'
  BY <1>1, <1>2, Zenon DEF ManagerInv, TypeOK, EventInv
<1>4. RingInv' /\ RingOK'
  BY <1>1, <1>2, HeadFacts, RingKept, SMTT(30) DEF ManagerInv
<1> QED
  BY <1>3, <1>4, Zenon DEF ManagerInv

\* A query to the clients leaves the manager and the state alone.
LEMMA AskInv ==
    ASSUME ManagerInv, NEW c, Ask(c), bestBeaconIndex' \in 0 .. Nodes - 1
    PROVE  ManagerInv'
<1>1. UNCHANGED <<stateVars, managerVars>>
  BY Zenon DEF Ask
<1>2. TypeOK' /\ EventInv'
  BY <1>1, SMTT(30) DEF ManagerInv, TypeOK, EventInv, stateVars, managerVars
<1>3. RingInv' /\ RingOK'
  BY <1>1, HeadFacts, RingKept, SMTT(30) DEF ManagerInv, stateVars, managerVars
<1> QED
  BY <1>2, <1>3, Zenon DEF ManagerInv

\* Init takes an event: the first one, or one after another was given up.
LEMMA InitEventInv ==
    ASSUME ManagerInv, NEW e \in Event, InitEvent(e), bestBeaconIndex' \in 0 .. Nodes - 1
    PROVE  ManagerInv'
<1>1. /\ phase = "wait" /\ pc = "idle" /\ Take(e) /\ Forget(e) /\ event' = e /\ pc' = "known"
      /\ UNCHANGED <<slots, parentBlockHash, duties, knownValidators, phase>>
  BY Zenon DEF InitEvent
<1>2. headSlot \in Int /\ e.slot \in Nat /\ headSlot' \in Int /\ headSlot' >= headSlot
  BY <1>1, HeadFacts, TakeFacts, EventFacts, Zenon DEF ManagerInv
<1>3. missed' = IF e.slot > headSlot THEN {} ELSE missed
  BY <1>1, Zenon DEF Forget
<1>4. TypeOK'
  <2>1. missed' \subseteq seen'
    BY <1>1, <1>2, <1>3, TakeFacts, SMTT(30) DEF ManagerInv, TypeOK
  <2> QED
    BY <1>1, <2>1, TakeFacts, Zenon DEF ManagerInv, TypeOK
<1>5. headSlot = -1 \/ missed # {}
  BY <1>1, Zenon DEF ManagerInv, EventInv
<1>6. e.slot = headSlot' \/ missed' # {}
  BY <1>1, <1>2, <1>3, <1>5, TakeFacts, SMTT(30) DEF ManagerInv
<1>7. EventInv'
  BY <1>1, <1>2, <1>6, TakeFacts, Zenon DEF ManagerInv, EventInv
<1>8. RingInv' /\ RingOK'
  BY <1>1, <1>2, RingKept, Zenon DEF ManagerInv
<1> QED
  BY <1>4, <1>7, <1>8, Zenon DEF ManagerInv

\* Run takes an event that it does not handle further.
LEMMA DroppedEventInv ==
    ASSUME ManagerInv, NEW e \in Event, BadEvent(e) \/ OldEvent(e), bestBeaconIndex' \in 0 .. Nodes - 1
    PROVE  ManagerInv'
<1>1. /\ phase = "run" /\ pc = "idle" /\ Take(e)
      /\ UNCHANGED <<slots, parentBlockHash, duties, knownValidators, phase, pc, event>>
  BY Zenon DEF BadEvent, OldEvent
<1>2. headSlot \in Int /\ e.slot \in Nat /\ headSlot' \in Int /\ headSlot' >= headSlot
  BY <1>1, HeadFacts, TakeFacts, EventFacts, Zenon DEF ManagerInv
<1>3. /\ missed' \subseteq seen'
      /\ missed' # {} \/ (headSlot' = headSlot /\ missed' = missed)
  <2>1. CASE BadEvent(e)
    <3>1. missed' = CASE e.slot > headSlot -> {e.parent}
                      [] e.slot = headSlot -> missed \cup {e.parent}
                      [] OTHER -> missed
      BY <2>1, Zenon DEF BadEvent
    <3>2. CASE e.slot > headSlot
      <4>1. missed' = {e.parent}
        BY <1>2, <3>1, <3>2, SMTT(30)
      <4> QED
        BY <1>1, <3>2, <4>1, TakeFacts, Zenon DEF ManagerInv
    <3>3. CASE e.slot = headSlot
      <4>1. missed' = missed \cup {e.parent}
        BY <1>2, <3>1, <3>3, SMTT(30)
      <4> QED
        BY <1>1, <3>3, <4>1, TakeFacts, Zenon DEF ManagerInv, TypeOK
    <3>4. CASE e.slot < headSlot
      <4>1. missed' = missed
        BY <1>2, <3>1, <3>4, SMTT(30)
      <4> QED
        BY <1>1, <3>4, <4>1, TakeFacts, Zenon DEF ManagerInv, TypeOK
    <3> QED
      BY <1>2, <3>2, <3>3, <3>4, SMTT(30)
  <2>2. CASE OldEvent(e)
    <3>1. e.slot <= headSlot /\ missed' = missed
      BY <1>2, <2>2, SMTT(30) DEF OldEvent, Forget
    <3>2. headSlot' = headSlot /\ seen \subseteq seen'
      BY <1>1, <1>2, <3>1, TakeFacts, SMTT(30) DEF ManagerInv
    <3> QED
      BY <3>1, <3>2, Zenon DEF ManagerInv, TypeOK
  <2> QED
    BY <2>1, <2>2, Zenon
<1>4. TypeOK'
  <2>1. TypeOK /\ headSlot' \in Slots \cup {-1} /\ seen' \subseteq Hash \cup {BadHash}
    BY <1>1, TakeFacts, Zenon DEF ManagerInv
  <2> QED
    BY <1>1, <1>3, <2>1, Zenon DEF TypeOK
<1>5. EventInv'
  BY <1>1, <1>3, Zenon DEF ManagerInv, EventInv
<1>6. RingInv' /\ RingOK'
  BY <1>1, <1>2, RingKept, Zenon DEF ManagerInv
<1> QED
  BY <1>4, <1>5, <1>6, Zenon DEF ManagerInv

\* Run takes an event of the head slot, or of a new one, and handles it.
LEMMA HandledEventInv ==
    ASSUME ManagerInv, NEW e \in Event, OtherParent(e) \/ NewHead(e), bestBeaconIndex' \in 0 .. Nodes - 1
    PROVE  ManagerInv'
<1>1. /\ phase = "run" /\ pc = "idle" /\ Take(e) /\ Forget(e) /\ event' = e
      /\ pc' \in {"withdrawals", "current"}
      /\ UNCHANGED <<slots, duties, knownValidators, phase>>
      /\ parentBlockHash' \in {parentBlockHash, e.parent} /\ e.parent # BadHash
  BY Zenon DEF OtherParent, NewHead
<1>2. headSlot \in Int /\ e.slot \in Nat /\ headSlot' \in Int /\ headSlot' >= headSlot
  BY <1>1, HeadFacts, TakeFacts, EventFacts, Zenon DEF ManagerInv
<1>3. missed' = IF e.slot > headSlot THEN {} ELSE missed
  BY <1>1, Zenon DEF Forget
<1>4. e.slot = headSlot' /\ (pc' = "withdrawals" => headSlot' = headSlot)
  BY <1>1, <1>2, TakeFacts, SMTT(30) DEF ManagerInv, OtherParent, NewHead
<1>5. TypeOK'
  <2>1. missed' \subseteq seen'
    BY <1>1, <1>2, <1>3, TakeFacts, SMTT(30) DEF ManagerInv, TypeOK
  <2>2. parentBlockHash' \in Hash \cup {NoHash}
    BY <1>1, EventFacts, Zenon DEF ManagerInv, TypeOK
  <2> QED
    BY <1>1, <2>1, <2>2, TakeFacts, SMTT(30) DEF ManagerInv, TypeOK
<1>6. pc' = "withdrawals" => missed' = missed
  <2>1. pc' = "withdrawals" => ~(e.slot > headSlot)
    BY <1>2, <1>4, SMTT(30)
  <2> QED
    BY <1>3, <2>1, Zenon
<1>7. EventInv'
  <2>1. e.parent \in seen' /\ e.slot <= headSlot'
    BY <1>1, <1>2, <1>4, TakeFacts, Zenon DEF ManagerInv
  <2> QED
    BY <1>1, <1>4, <1>6, <2>1, Zenon DEF ManagerInv, EventInv
<1>8. RingInv' /\ RingOK'
  BY <1>1, <1>2, RingKept, Zenon DEF ManagerInv
<1> QED
  BY <1>5, <1>7, <1>8, Zenon DEF ManagerInv

\* An event that is given up in Run is one of the head slot.
LEMMA GiveUpInv ==
    ASSUME ManagerInv, GiveUp, pc # "idle", pc # "randao", bestBeaconIndex' \in 0 .. Nodes - 1,
           UNCHANGED <<headSlot, slots, parentBlockHash, duties, knownValidators, seen>>
    PROVE  ManagerInv'
<1>1. /\ pc' = "idle" /\ phase \in {"wait", "run"}
      /\ phase' = IF phase = "wait" THEN "failed" ELSE phase
      /\ missed' = IF event.slot = headSlot THEN missed \cup {event.parent} ELSE missed
      /\ event.slot = headSlot => event.parent \in seen
  BY Zenon DEF GiveUp, ManagerInv, EventInv
<1>2. TypeOK'
  BY <1>1, Zenon DEF ManagerInv, TypeOK
<1>3. phase = "run" => missed' # {}
  BY <1>1, Zenon DEF ManagerInv, EventInv
<1>4. EventInv'
  BY <1>1, <1>3, Zenon DEF ManagerInv, EventInv
<1>5. RingInv' /\ RingOK'
  BY <1>1, HeadFacts, RingKept, SMTT(30) DEF ManagerInv
<1> QED
  BY <1>2, <1>4, <1>5, Zenon DEF ManagerInv

\* Storing the known validators touches no slot of the state.
LEMMA ValidatorsInv ==
    ASSUME ManagerInv, InitValidators \/ \E s \in Slots : updateKnownValidators(s),
           bestBeaconIndex' \in 0 .. Nodes - 1
    PROVE  ManagerInv'
<1>1. UNCHANGED <<headSlot, slots, parentBlockHash, duties, phase, seen>>
  BY Zenon DEF InitValidators, updateKnownValidators
<1>2. ASSUME NEW s \in Slots, updateKnownValidators(s) PROVE ManagerInv'
  <2>1. UNCHANGED <<pc, event, missed>> /\ knownValidators' \in {knownValidators, s}
    BY <1>2, Zenon DEF updateKnownValidators
  <2>2. TypeOK' /\ EventInv'
    BY <1>1, <2>1, SMTT(30) DEF ManagerInv, TypeOK, EventInv
  <2>3. RingInv' /\ RingOK'
    BY <1>1, <2>1, HeadFacts, RingKept, SMTT(30) DEF ManagerInv
  <2> QED
    BY <2>2, <2>3, Zenon DEF ManagerInv
<1>3. ASSUME InitValidators PROVE ManagerInv'
  <2>1. pc = "known" /\ event \in Event /\ phase = "wait" /\ event.slot \in Slots
    BY <1>3, EventFacts, Zenon DEF InitValidators, ManagerInv, EventInv
  <2>2. RingInv' /\ RingOK'
    BY <1>1, <1>3, <2>1, HeadFacts, RingKept, SMTT(30) DEF ManagerInv, InitValidators
  <2>3. CASE /\ pc' = "idle" /\ UNCHANGED knownValidators
             /\ missed' = IF event.slot = headSlot THEN missed \cup {event.parent} ELSE missed
    <3>1. missed' \subseteq seen /\ missed' # {}
      BY <2>1, <2>3, SMTT(30) DEF ManagerInv, TypeOK, EventInv
    <3>2. TypeOK' /\ EventInv'
      BY <1>1, <2>1, <2>3, <3>1, SMTT(30) DEF ManagerInv, TypeOK, EventInv
    <3> QED
      BY <2>2, <3>2, Zenon DEF ManagerInv
  <2>4. CASE knownValidators' = event.slot /\ pc' = "current" /\ UNCHANGED <<event, missed>>
    <3>1. TypeOK' /\ EventInv'
      BY <1>1, <2>1, <2>4, Zenon DEF ManagerInv, TypeOK, EventInv
    <3> QED
      BY <2>2, <3>1, Zenon DEF ManagerInv
  <2> QED
    BY <1>3, <2>3, <2>4, Zenon DEF InitValidators
<1> QED
  BY <1>2, <1>3, Zenon

\* Fetching and storing duties touches neither the head nor the ring.
LEMMA DutiesInv ==
    ASSUME ManagerInv, getProposerDuties \/ storeProposerDuties, bestBeaconIndex' \in 0 .. Nodes - 1
    PROVE  ManagerInv'
<1>1. /\ UNCHANGED <<headSlot, slots, parentBlockHash, knownValidators, seen>>
      /\ pc \in {"current", "next", "store"}
  BY Zenon DEF getProposerDuties, storeProposerDuties, stateVars
<1>2. event \in Event /\ event.slot \in Slots /\ phase \in {"wait", "run"}
  BY <1>1, EventFacts, Zenon DEF ManagerInv, EventInv
<1>3. CASE GiveUp /\ UNCHANGED duties
  BY <1>1, <1>3, GiveUpInv, Zenon
<1>4. CASE pc' \in {"next", "store"} /\ UNCHANGED <<duties, phase, event, missed>>
  <2>1. TypeOK' /\ EventInv'
    BY <1>1, <1>2, <1>4, Zenon DEF ManagerInv, TypeOK, EventInv
  <2>2. RingInv' /\ RingOK'
    BY <1>1, <1>4, HeadFacts, RingKept, SMTT(30) DEF ManagerInv
  <2> QED
    BY <2>1, <2>2, SMTT(30) DEF ManagerInv
<1>5. CASE duties'.slot = event.slot /\ pc' = "withdrawals" /\ UNCHANGED <<phase, event, missed>>
  <2>1. TypeOK' /\ EventInv'
    BY <1>1, <1>2, <1>5, SMTT(30) DEF ManagerInv, TypeOK, EventInv
  <2>2. RingInv' /\ RingOK'
    BY <1>1, <1>5, HeadFacts, RingKept, SMTT(30) DEF ManagerInv
  <2> QED
    BY <2>1, <2>2, Zenon DEF ManagerInv
<1>6. getProposerDuties => \/ GiveUp /\ UNCHANGED duties
                           \/ pc' \in {"next", "store"} /\ UNCHANGED <<duties, phase, event, missed>>
  BY Zenon DEF getProposerDuties, stateVars
<1>7. storeProposerDuties => duties'.slot = event.slot /\ pc' = "withdrawals" /\ UNCHANGED <<phase, event, missed>>
  BY SMTT(30) DEF storeProposerDuties
<1> QED
  BY <1>3, <1>4, <1>5, <1>6, <1>7, Zenon

\* The two writes to the ring.  Both are of a slot that is not behind the one
\* in its place.
LEMMA AttributesInv ==
    ASSUME ManagerInv, WithdrawalsStep \/ RandaoStep, bestBeaconIndex' \in 0 .. Nodes - 1
    PROVE  /\ ManagerInv'
           /\ \A i \in 0 .. 1 : slots'[i].slot >= slots[i].slot
<1> DEFINE s == event.slot
<1>1. /\ UNCHANGED <<headSlot, parentBlockHash, duties, knownValidators, seen>>
      /\ pc \in {"withdrawals", "randao"}
  BY Zenon DEF WithdrawalsStep, RandaoStep
<1>2. /\ event \in Event /\ s \in Slots /\ phase \in {"wait", "run"} /\ s % 2 \in 0 .. 1
      /\ s \in Nat /\ s <= headSlot /\ headSlot \in Int
      /\ event.parent # BadHash => event.parent \in Hash
  BY <1>1, EventFacts, SlotFacts, HeadFacts, Zenon DEF ManagerInv, EventInv
<1>3. \A i \in 0 .. 1 : slots[i].slot \in Nat
  <2>1. \A i \in 0 .. 1 : slots[i] \in Places
    BY Zenon DEF ManagerInv, RingOK
  <2>2. \A r \in Places : r.slot \in Slots \cup {0}
    BY Zenon DEF Places
  <2>3. \A t \in Slots \cup {0} : t \in Nat
    BY BeaconAssumption, SMTT(30)
  <2> QED
    BY <2>1, <2>2, <2>3, Zenon
<1>4. CASE GiveUp /\ pc = "withdrawals" /\ UNCHANGED slots
  BY <1>1, <1>3, <1>4, GiveUpInv, SMTT(30)
<1>5. CASE /\ pc = "withdrawals" /\ event.parent \in Hash /\ pc' = "randao"
           /\ SetWithdrawals(Attributes(s, event.parent)) /\ UNCHANGED <<phase, event, missed>>
  <2>1. /\ RingOK' /\ slots'[s % 2].slot = s
        /\ \E b \in slots'[s % 2].withdrawals : b.parent = event.parent
        /\ \A i \in 0 .. 1 : i # s % 2 => slots'[i] = slots[i]
    BY <1>2, <1>5, SetWithdrawalsRing, Zenon DEF ManagerInv
  <2>2. TypeOK' /\ EventInv'
    <3>1. TypeOK'
      BY <1>1, <1>5, <2>1, Zenon DEF ManagerInv, TypeOK, RingOK, Places, AttributesOf
    <3>2. EventInv'
      <4>1. EventInv /\ pc = "withdrawals" /\ pc' = "randao"
        BY <1>5, Zenon DEF ManagerInv
      <4>2. UNCHANGED <<headSlot, duties, seen, phase, event, missed>>
        BY <1>1, <1>5, Zenon
      <4> QED
        BY <4>1, <4>2, Zenon DEF EventInv
    <3> QED
      BY <3>1, <3>2, Zenon
  <2>3. \A i \in 0 .. 1 : slots'[i].slot = 0 \/ slots'[i].slot <= headSlot'
    <3>1. slots'[s % 2].slot <= headSlot'
      BY <1>1, <1>2, <2>1, Zenon
    <3>2. \A i \in 0 .. 1 : i # s % 2 => slots'[i].slot = 0 \/ slots'[i].slot <= headSlot'
      BY <1>1, <2>1, Zenon DEF ManagerInv, RingInv
    <3> QED
      BY <3>1, <3>2, SMTT(30)
  <2>4. RingInv'
    BY <1>5, <2>1, <2>3, Zenon DEF RingInv, RingOK
  <2>5. \A i \in 0 .. 1 : slots'[i].slot >= slots[i].slot
    <3>1. slots[s % 2].slot <= s
      <4>1. phase = "wait" \/ s = headSlot
        BY <1>2, <1>5, SMTT(30) DEF ManagerInv, EventInv
      <4>2. slots[s % 2].slot = 0 \/ slots[s % 2].slot <= headSlot
        BY <1>2, SMTT(30) DEF ManagerInv, RingInv
      <4>3. phase = "wait" => slots[s % 2].slot = 0
        BY <1>2, <1>5, Zenon DEF ManagerInv, RingInv
      <4> HIDE DEF s
      <4> QED
        BY <1>2, <4>1, <4>2, <4>3, SMTT(30)
    <3>2. s \in Int /\ \A i \in 0 .. 1 : slots[i].slot \in Int
      BY <1>2, <1>3, SMTT(30)
    <3>3. slots'[s % 2].slot >= slots[s % 2].slot
      BY <2>1, <3>1, <3>2, <1>2, Zenon
    <3>4. ASSUME NEW i \in 0 .. 1, i # s % 2 PROVE slots'[i].slot >= slots[i].slot
      BY <2>1, <3>2, <3>4, SMTT(30)
    <3> QED
      BY <3>3, <3>4, Zenon
  <2> QED
    BY <2>1, <2>2, <2>4, <2>5, SMTT(30) DEF ManagerInv
<1>6. CASE RandaoStep
  <2>1. /\ pc = "randao" /\ SetRandao(Attributes(s, event.parent))
        /\ pc' = "idle" /\ phase' = "run" /\ UNCHANGED missed
    BY <1>6, Zenon DEF RandaoStep
  <2>2. /\ event.parent \in Hash /\ slots[s % 2].slot = s
        /\ \E b \in slots[s % 2].withdrawals : b.parent = event.parent
    BY <2>1, SMTT(30) DEF ManagerInv, RingInv
  <2>3. /\ RingOK' /\ slots'[s % 2].slot = s
        /\ \A i \in 0 .. 1 : i # s % 2 => slots'[i] = slots[i]
    BY <1>2, <2>1, <2>2, SetRandaoRing, SMTT(30) DEF ManagerInv
  <2>4. TypeOK'
    BY <1>1, <2>1, <2>3, Zenon DEF ManagerInv, TypeOK, RingOK, Places, AttributesOf
  <2>5. EventInv'
    <3>1. EventInv /\ pc = "randao" /\ phase \in {"wait", "run"}
      BY <1>2, <2>1, Zenon DEF ManagerInv
    <3>2. missed # {} \/ duties.slot = headSlot
      BY <3>1, Zenon DEF EventInv
    <3> QED
      BY <1>1, <2>1, <3>2, Zenon DEF EventInv
  <2>6. RingInv'
    BY <1>1, <1>2, <2>1, <2>3, Zenon DEF ManagerInv, RingInv, RingOK
  <2>7. \A i \in 0 .. 1 : slots'[i].slot >= slots[i].slot
    <3>1. \A i \in 0 .. 1 : slots'[i].slot = slots[i].slot
      BY <2>2, <2>3, Zenon
    <3> QED
      BY <1>3, <3>1, SMTT(30)
  <2> QED
    BY <2>3, <2>4, <2>5, <2>6, <2>7, Zenon DEF ManagerInv
<1>7. WithdrawalsStep =>
        \/ GiveUp /\ pc = "withdrawals" /\ UNCHANGED slots
        \/ /\ pc = "withdrawals" /\ event.parent \in Hash /\ pc' = "randao"
           /\ SetWithdrawals(Attributes(s, event.parent)) /\ UNCHANGED <<phase, event, missed>>
  BY <1>2, Zenon DEF WithdrawalsStep
<1> QED
  BY <1>4, <1>5, <1>6, <1>7, Zenon

-----------------------------------------------------------------------------
\* The manager starts with no head and an empty ring.
LEMMA Init_ManagerInv == Init => ManagerInv
<1> SUFFICES ASSUME Init PROVE ManagerInv
  BY Zenon
<1> USE DEF Init, StateInit, ClientInit
<1>1. slots = [i \in 0 .. 1 |-> AtomicState(0)] /\ AtomicState(0) \in Places
  BY SMTT(30) DEF NumberOfSlotsInState, AtomicState, Places
<1>2. \A i \in 0 .. 1 : slots[i].slot = 0 /\ slots[i].withdrawals = {} /\ slots[i].randao = {}
  <2>1. \A i \in 0 .. 1 : slots[i] = AtomicState(0)
    BY <1>1, Zenon
  <2>2. AtomicState(0).slot = 0 /\ AtomicState(0).withdrawals = {} /\ AtomicState(0).randao = {}
    BY Zenon DEF AtomicState
  <2> QED
    BY <2>1, <2>2, Zenon
<1>3. RingOK /\ RingInv
  BY <1>1, <1>2, Zenon DEF RingOK, RingInv, AttributesAreOfTheirSlot
<1>4. TypeOK
  BY <1>3, MultiClientAssumption, SMTT(30) DEF TypeOK, RingOK, Places, AttributesOf
<1>5. EventInv
  BY Zenon DEF EventInv
<1> QED
  BY <1>3, <1>4, <1>5, Zenon DEF ManagerInv

\* Every step keeps the manager's invariants, and neither the head nor a place
\* of the ring goes back.
LEMMA Next_ManagerInv ==
    ASSUME ListInv, ManagerInv, [Next]_vars
    PROVE  /\ ManagerInv'
           /\ headSlot' >= headSlot /\ \A i \in 0 .. 1 : slots'[i].slot >= slots[i].slot
<1>1. bestBeaconIndex' \in 0 .. Nodes - 1
  BY Next_ListInv, Zenon DEF ListInv
<1>2. headSlot \in Int /\ \A i \in 0 .. 1 : slots[i].slot \in Int
  <2>1. \A i \in 0 .. 1 : slots[i] \in Places
    BY Zenon DEF ManagerInv, RingOK
  <2>2. \A r \in Places : r.slot \in Slots \cup {0}
    BY Zenon DEF Places
  <2>3. \A t \in Slots \cup {0} : t \in Int
    BY BeaconAssumption, SMTT(30)
  <2> QED
    BY <2>1, <2>2, <2>3, HeadFacts, Zenon DEF ManagerInv
<1> DEFINE Forward == headSlot' >= headSlot /\ \A i \in 0 .. 1 : slots'[i].slot >= slots[i].slot
<1>3. UNCHANGED <<headSlot, slots>> => Forward
  BY <1>2, SMTT(30)
<1> SUFFICES ManagerInv' /\ Forward
  BY Zenon
<1> HIDE DEF Forward
<1>4. CASE UNCHANGED vars \/ PublishNext
  <2>1. UNCHANGED <<stateVars, managerVars>>
    BY <1>4, SMTT(30) DEF PublishNext, vars
  <2>2. TypeOK' /\ EventInv'
    BY <1>1, <2>1, SMTT(30) DEF ManagerInv, TypeOK, EventInv, stateVars, managerVars
  <2>3. RingInv' /\ RingOK'
    BY <2>1, HeadFacts, RingKept, SMTT(30) DEF ManagerInv, stateVars, managerVars
  <2>4. UNCHANGED <<headSlot, slots>>
    BY <2>1, Zenon DEF stateVars
  <2> QED
    BY <1>3, <2>2, <2>3, <2>4, Zenon DEF ManagerInv
<1>5. CASE waitSynced \/ Genesis \/ initForkEpoch
  <2>1. ManagerInv'
    BY <1>1, <1>5, StartInv, Zenon
  <2>2. UNCHANGED <<headSlot, slots>>
    BY <1>5, Zenon DEF waitSynced, Genesis, initForkEpoch, stateVars
  <2> QED
    BY <1>3, <2>1, <2>2, Zenon
<1>6. ASSUME NEW e \in Event, InitEvent(e) \/ processNewSlot(e)
      PROVE  ManagerInv' /\ Forward
  <2>1. Take(e) /\ UNCHANGED slots
    BY <1>6, Zenon DEF InitEvent, processNewSlot, BadEvent, OldEvent, OtherParent, NewHead
  <2>2. Forward
    <3>1. headSlot' >= headSlot
      BY <2>1, TakeFacts, Zenon DEF ManagerInv
    <3> QED
      BY <1>2, <2>1, <3>1, SMTT(30) DEF Forward
  <2>3. ManagerInv'
    BY <1>1, <1>6, InitEventInv, DroppedEventInv, HandledEventInv, Zenon DEF processNewSlot
  <2> QED
    BY <2>2, <2>3, Zenon
<1>7. ASSUME NEW c, Ask(c) PROVE ManagerInv' /\ Forward
  <2>1. UNCHANGED <<headSlot, slots>>
    BY <1>7, Zenon DEF Ask, stateVars
  <2> QED
    BY <1>1, <1>3, <1>7, <2>1, AskInv, Zenon
<1>8. CASE InitValidators \/ \E s \in Slots : updateKnownValidators(s)
  <2>1. ManagerInv'
    BY <1>1, <1>8, ValidatorsInv, SMTT(30)
  <2>2. UNCHANGED <<headSlot, slots>>
    BY <1>8, Zenon DEF InitValidators, updateKnownValidators
  <2> QED
    BY <1>3, <2>1, <2>2, Zenon
<1>9. CASE getProposerDuties \/ storeProposerDuties
  <2>1. ManagerInv'
    BY <1>1, <1>9, DutiesInv, Zenon
  <2>2. UNCHANGED <<headSlot, slots>>
    BY <1>9, Zenon DEF getProposerDuties, storeProposerDuties, stateVars
  <2> QED
    BY <1>3, <2>1, <2>2, Zenon
<1>10. CASE WithdrawalsStep \/ RandaoStep
  <2>1. ManagerInv' /\ \A i \in 0 .. 1 : slots'[i].slot >= slots[i].slot
    BY <1>1, <1>10, AttributesInv, Zenon
  <2>2. UNCHANGED headSlot
    BY <1>10, Zenon DEF WithdrawalsStep, RandaoStep
  <2> QED
    BY <1>2, <2>1, <2>2, SMTT(30) DEF Forward
<1> QED
  BY <1>4, <1>5, <1>6, <1>7, <1>8, <1>9, <1>10, Zenon DEF Next, ManagerNext, Handle

\* The inductive invariant of the manager, with that of its queries.
LEMMA ManagerInvariant == Spec => [](ListInv /\ ManagerInv)
<1>1. Init => ListInv /\ ManagerInv
  BY Init_ManagerInv, MultiClientAssumption, SMTT(30) DEF Init, ClientInit, ListInv, EveryClientIsAsked, Asking
<1>2. ListInv /\ ManagerInv /\ [Next]_vars => ListInv' /\ ManagerInv'
  BY Next_ListInv, Next_ManagerInv, Zenon
<1> QED
  BY <1>1, <1>2, PTL DEF Spec

-----------------------------------------------------------------------------
(* The attributes of the head *)

\* A later slot is in no earlier epoch.
LEMMA EpochMonotone ==
    ASSUME NEW s \in Nat, NEW t \in Nat, s <= t
    PROVE  Epoch(s) \in Int /\ Epoch(t) \in Int /\ Epoch(s) <= Epoch(t)
  BY BeaconAssumption, SMTT(30) DEF Epoch

\* What it means that a lookup finds something.
Known(s, h) == slots[s % 2].slot = s /\ \E a \in slots[s % 2].randao : a.parent = h

\* A lookup of the randao finds something exactly when the place holds it.
LEMMA RandaoIsKnown == \A s, h : Randao(s, h) # {} <=> Known(s, h)
<1> SUFFICES ASSUME NEW s, NEW h PROVE Randao(s, h) # {} <=> Known(s, h)
  BY Zenon
<1>1. Randao(s, h) = IF slots[s % 2].slot = s THEN { a \in slots[s % 2].randao : a.parent = h } ELSE {}
  BY Zenon DEF Randao, NumberOfSlotsInState
<1>2. CASE slots[s % 2].slot = s
  <2>1. Randao(s, h) = { a \in slots[s % 2].randao : a.parent = h }
    BY <1>1, <1>2, Zenon
  <2> QED
    BY <1>2, <2>1, Zenon DEF Known
<1>3. CASE slots[s % 2].slot # s
  BY <1>1, <1>3, Zenon DEF Known
<1> QED
  BY <1>2, <1>3, Zenon

\* The same after a step.
LEMMA RandaoIsKnownPrime == (\A s, h : Randao(s, h) # {} <=> Known(s, h))'
  BY RandaoIsKnown, PTL

\* Withdrawals lose the randao of no slot but an older one of their place.
LEMMA SetWithdrawalsKeeps ==
    ASSUME RingOK, NEW s \in Slots, NEW h \in Hash, SetWithdrawals(Attributes(s, h)),
           NEW t \in Slots, NEW g, Known(t, g), t = s \/ slots[s % 2].slot = 0
    PROVE  Known(t, g)'
<1> DEFINE a == Attributes(s, h)
           new == [Entry(s) EXCEPT !.withdrawals = Put(Entry(s).withdrawals, a)]
<1>1. s % 2 \in 0 .. 1 /\ t % 2 \in 0 .. 1 /\ t # 0 /\ slots' = [slots EXCEPT ![s % 2] = new]
  BY SlotFacts, Zenon DEF SetWithdrawals, Attributes, NumberOfSlotsInState
<1>2. new.slot = s /\ new.randao = Entry(s).randao
  BY EntryFacts, SMTT(30) DEF Places
<1> HIDE DEF new, a
<1>3. slots'[s % 2] = new /\ \A i \in 0 .. 1 : i # s % 2 => slots'[i] = slots[i]
  <2>1. slots \in [0 .. 1 -> Places]
    BY Zenon DEF RingOK
  <2> QED
    BY <1>1, <2>1, Zenon
<1>4. CASE t = s
  <2>1. Entry(s) = slots[s % 2]
    BY <1>4, SMTT(30) DEF Known, Entry, NumberOfSlotsInState
  <2> QED
    BY <1>2, <1>3, <1>4, <2>1, SMTT(30) DEF Known
<1>5. CASE t # s
  <2>1. slots[t % 2].slot = t /\ slots[s % 2].slot = 0
    BY <1>5, Zenon DEF Known
  <2>2. t % 2 # s % 2
    BY <1>1, <2>1, SMTT(30)
  <2> QED
    BY <1>1, <1>3, <2>2, Zenon DEF Known
<1> QED
  BY <1>4, <1>5, Zenon

\* A randao that is written is known from then on, and so is every other one.
LEMMA SetRandaoKeeps ==
    ASSUME RingOK, NEW s \in Slots, NEW h \in Hash, SetRandao(Attributes(s, h)), slots[s % 2].slot = s
    PROVE  /\ Known(s, h)'
           /\ \A t \in Slots : \A g : Known(t, g) => Known(t, g)'
<1> DEFINE a == Attributes(s, h)
           new == [Entry(s) EXCEPT !.randao = Put(Entry(s).randao, a)]
<1>1. /\ a.parent = h /\ s % 2 \in 0 .. 1 /\ Entry(s) = slots[s % 2]
      /\ slots' = [slots EXCEPT ![s % 2] = new]
  BY SlotFacts, Zenon DEF SetRandao, Attributes, NumberOfSlotsInState, Entry
<1>2. new.slot = s /\ new.randao = Put(slots[s % 2].randao, a)
  BY <1>1, EntryFacts, SMTT(30) DEF Places
<1> HIDE DEF new
<1>3. slots'[s % 2] = new /\ \A i \in 0 .. 1 : i # s % 2 => slots'[i] = slots[i]
  BY <1>1, SMTT(30) DEF RingOK
<1>4. a \in new.randao /\ \A b \in slots[s % 2].randao : \E c \in new.randao : c.parent = b.parent
  BY <1>2, SMTT(30) DEF Put
<1>5. Known(s, h)'
  BY <1>1, <1>2, <1>3, <1>4, SMTT(30) DEF Known
<1>6. ASSUME NEW t \in Slots, NEW g, Known(t, g) PROVE Known(t, g)'
  <2>1. t % 2 \in 0 .. 1
    BY SlotFacts, SMTT(30)
  <2>2. CASE t % 2 = s % 2
    <3>1. t = s
      BY <1>6, <2>2, Zenon DEF Known
    <3> QED
      BY <1>2, <1>3, <1>4, <1>6, <3>1, SMTT(30) DEF Known
  <2>3. CASE t % 2 # s % 2
    BY <1>3, <1>6, <2>1, <2>3, SMTT(30) DEF Known
  <2> QED
    BY <2>2, <2>3, Zenon
<1> QED
  BY <1>5, <1>6, Zenon

\* Steps that take no event and write nothing to the ring.
LEMMA HeadKept ==
    ASSUME HeadInv, UNCHANGED <<headSlot, slots, parentBlockHash, seen>>,
           missed \subseteq missed',
           phase' \in {"wait", "run"} => fork', phase = "run" => phase' = "run",
           \A h : pc # "idle" /\ event.slot = headSlot /\ event.parent = h =>
                     h \in missed' \/ (pc' # "idle" /\ event' = event)
    PROVE  HeadInv'
<1>1. UNCHANGED Epoch(headSlot) /\ \A h : UNCHANGED Known(headSlot, h)
  BY Zenon DEF Epoch, Known
<1>2. parentBlockHash' = NoHash \/ (phase' = "run" /\ Epoch(headSlot)' >= CapellaEpoch)
  BY <1>1, Zenon DEF HeadInv
<1>3. parentBlockHash' \in seen' \cup {NoHash} \/ BadHash \in missed'
  BY Zenon DEF HeadInv
<1>4. ASSUME BadHash \notin missed', NEW h \in seen' \ missed'
      PROVE  \/ Randao(headSlot, h)' # {}
             \/ pc' # "idle" /\ event'.slot = headSlot' /\ event'.parent = h
  <2>1. BadHash \notin missed /\ h \in seen \ missed
    BY <1>4, Zenon
  <2>2. Randao(headSlot, h) # {} \/ (pc # "idle" /\ event.slot = headSlot /\ event.parent = h)
    BY <2>1, Zenon DEF HeadInv
  <2>3. Randao(headSlot, h) # {} => Randao(headSlot, h)' # {}
    BY <1>1, RandaoIsKnown, RandaoIsKnownPrime, Zenon
  <2> QED
    BY <1>4, <2>2, <2>3, Zenon
<1> QED
  BY <1>2, <1>3, <1>4, SMTT(30) DEF HeadInv

\* Steps that take an event.  Only a repetition leaves a parent that is neither
\* missed nor being handled, and that one was seen before.
LEMMA HeadTaken ==
    ASSUME ManagerInv, HeadInv, NEW e \in Event, InitEvent(e) \/ processNewSlot(e)
    PROVE  HeadInv'
<1>1. /\ Take(e) /\ pc = "idle" /\ phase \in {"wait", "run"} /\ fork
      /\ UNCHANGED <<slots, fork, phase>>
  BY SMTT(30) DEF InitEvent, processNewSlot, BadEvent, OldEvent, OtherParent, NewHead, HeadInv
<1>2. /\ headSlot \in Int /\ e.slot \in Nat /\ headSlot' \in Int /\ TypeOK
      /\ e.parent \in Hash \cup {BadHash} /\ e.parent # NoHash
  BY <1>1, HeadFacts, TakeFacts, EventFacts, BeaconAssumption, SMTT(30) DEF ManagerInv
<1>3. CASE e.slot > headSlot
  <2>1. headSlot' = e.slot /\ seen' = {e.parent}
    BY <1>1, <1>2, <1>3, TakeFacts, Zenon
  <2>2. \/ missed' = {e.parent} /\ UNCHANGED parentBlockHash
        \/ event' = e /\ pc' # "idle"
    BY <1>2, <1>3, SMTT(30) DEF InitEvent, processNewSlot, BadEvent, OldEvent, OtherParent, NewHead
  <2>3. \A h \in seen' \ missed' : pc' # "idle" /\ event'.slot = headSlot' /\ event'.parent = h
    BY <2>1, <2>2, Zenon
  <2>4. /\ parentBlockHash' = NoHash \/ (phase' = "run" /\ Epoch(headSlot)' >= CapellaEpoch)
        /\ parentBlockHash' \in seen' \cup {NoHash} \/ BadHash \in missed'
    <3>1. CASE NewHead(e)
      <4>1. parentBlockHash' = e.parent /\ phase = "run" /\ Version(e.slot) # "bellatrix"
        BY <3>1, Zenon DEF NewHead
      <4>2. Epoch(e.slot) >= CapellaEpoch
        BY <1>1, <4>1, Zenon DEF Version
      <4>3. Epoch(headSlot)' = Epoch(e.slot)
        BY <2>1, Zenon DEF Epoch
      <4> QED
        BY <1>1, <2>1, <4>1, <4>2, <4>3, Zenon
    <3>2. CASE InitEvent(e)
      <4>1. phase = "wait" /\ UNCHANGED parentBlockHash
        BY <3>2, Zenon DEF InitEvent
      <4> QED
        BY <4>1, Zenon DEF HeadInv
    <3>3. CASE BadEvent(e)
      <4>1. /\ phase = "run" /\ UNCHANGED parentBlockHash
            /\ e.parent = BadHash \/ Version(e.slot) = "bellatrix"
        BY <3>3, Zenon DEF BadEvent
      <4>2. missed' = {e.parent}
        BY <1>2, <1>3, <3>3, SMTT(30) DEF BadEvent
      <4>3. CASE parentBlockHash = NoHash
        BY <4>1, <4>3, Zenon
      <4>4. CASE parentBlockHash # NoHash
        <5>1. Epoch(headSlot) >= CapellaEpoch
          BY <4>4, Zenon DEF HeadInv
        <5>2. headSlot \in Nat
          <6>1. headSlot # -1
            BY <5>1, BeaconAssumption, SMTT(30) DEF Epoch
          <6> QED
            BY <6>1, HeadFacts, <1>2, Zenon
        <5>3. Epoch(e.slot) >= CapellaEpoch
          BY <1>2, <1>3, <5>1, <5>2, EpochMonotone, BeaconAssumption, SMTT(30)
        <5>4. e.parent = BadHash
          BY <4>1, <5>3, SMTT(30) DEF Version
        <5>5. Epoch(headSlot)' = Epoch(e.slot)
          BY <2>1, Zenon DEF Epoch
        <5> QED
          BY <1>1, <4>1, <4>2, <5>3, <5>4, <5>5, SMTT(30)
      <4> QED
        BY <4>3, <4>4, Zenon
    <3>4. ~OldEvent(e) /\ ~OtherParent(e)
      BY <1>2, <1>3, SMTT(30) DEF OldEvent, OtherParent
    <3> QED
      BY <3>1, <3>2, <3>3, <3>4, Zenon DEF processNewSlot
  <2> QED
    BY <1>1, <2>3, <2>4, Zenon DEF HeadInv
<1>4. CASE e.slot = headSlot
  <2>1. headSlot' = headSlot /\ seen' = seen \cup {e.parent}
    BY <1>1, <1>2, <1>4, TakeFacts, SMTT(30)
  <2>2. ~NewHead(e)
    BY <1>2, <1>4, SMTT(30) DEF NewHead
  <2>3. /\ missed \subseteq missed' /\ UNCHANGED parentBlockHash
        /\ \/ e.parent \in missed'
           \/ event' = e /\ pc' # "idle"
           \/ e.parent = parentBlockHash
    BY <1>2, <1>4, <2>2, SMTT(30) DEF InitEvent, processNewSlot, BadEvent, OldEvent, OtherParent, Forget
  <2>4. UNCHANGED Epoch(headSlot) /\ \A h : UNCHANGED Known(headSlot, h)
    BY <1>1, <2>1, SMTT(30) DEF Epoch, Known
  <2>5. ASSUME BadHash \notin missed', NEW h \in seen' \ missed'
        PROVE  \/ Randao(headSlot, h)' # {}
               \/ pc' # "idle" /\ event'.slot = headSlot' /\ event'.parent = h
    <3>1. h \in seen \/ h = e.parent
      BY <2>1, <2>5, Zenon
    <3>2. CASE h \in seen
      <4>1. Randao(headSlot, h) # {}
        BY <1>1, <2>3, <2>5, <3>2, Zenon DEF HeadInv
      <4> QED
        BY <2>4, <4>1, RandaoIsKnown, RandaoIsKnownPrime, SMTT(30)
    <3>3. CASE h = e.parent /\ h \notin seen
      <4>1. e.parent # parentBlockHash
        BY <1>2, <2>3, <2>5, <3>3, SMTT(30) DEF HeadInv
      <4> QED
        BY <1>4, <2>1, <2>3, <2>5, <3>3, <4>1, SMTT(30)
    <3> QED
      BY <3>1, <3>2, <3>3, Zenon
  <2>6. /\ parentBlockHash' = NoHash \/ (phase' = "run" /\ Epoch(headSlot)' >= CapellaEpoch)
        /\ parentBlockHash' \in seen' \cup {NoHash} \/ BadHash \in missed'
    BY <1>1, <2>1, <2>3, <2>4, Zenon DEF HeadInv
  <2> QED
    BY <1>1, <2>5, <2>6, Zenon DEF HeadInv
<1>5. CASE e.slot < headSlot
  <2>1. headSlot' = headSlot /\ seen' = seen
    BY <1>1, <1>2, <1>5, TakeFacts, Zenon
  <2>2. missed' = missed /\ UNCHANGED parentBlockHash
    BY <1>2, <1>5, SMTT(30) DEF InitEvent, processNewSlot, BadEvent, OldEvent, OtherParent, NewHead, Forget
  <2> QED
    BY <1>1, <2>1, <2>2, HeadKept, Zenon
<1> QED
  BY <1>2, <1>3, <1>4, <1>5, SMTT(30)

\* The writes to the ring.  In Init an event may be of an older slot than the
\* head; the ring is empty then.
LEMMA HeadWritten ==
    ASSUME ManagerInv, HeadInv, WithdrawalsStep \/ RandaoStep
    PROVE  HeadInv'
<1> DEFINE s == event.slot
<1>1. /\ UNCHANGED <<headSlot, parentBlockHash, fork, seen>>
      /\ pc \in {"withdrawals", "randao"}
  BY Zenon DEF WithdrawalsStep, RandaoStep
<1>2. /\ event \in Event /\ s \in Slots /\ phase \in {"wait", "run"} /\ s % 2 \in 0 .. 1
      /\ event.parent # BadHash => event.parent \in Hash
      /\ headSlot \in Slots /\ RingOK /\ fork
  <2>1. event \in Event /\ phase \in {"wait", "run"} /\ s <= headSlot
    BY <1>1, Zenon DEF ManagerInv, EventInv
  <2>2. s \in Slots /\ s \in Nat /\ headSlot \in Slots \cup {-1}
    BY <2>1, EventFacts, Zenon DEF ManagerInv, TypeOK
  <2>3. headSlot # -1
    BY <2>1, <2>2, SMTT(30)
  <2> QED
    BY <2>1, <2>2, <2>3, EventFacts, SlotFacts, SMTT(30) DEF ManagerInv, HeadInv
<1>3. UNCHANGED Epoch(headSlot)
  BY <1>1, Zenon DEF Epoch
<1>4. CASE GiveUp /\ UNCHANGED slots
  BY <1>1, <1>2, <1>4, HeadKept, SMTT(30) DEF GiveUp
<1>5. CASE /\ pc = "withdrawals" /\ event.parent \in Hash /\ pc' = "randao"
           /\ SetWithdrawals(Attributes(s, event.parent)) /\ UNCHANGED <<phase, event, missed>>
  <2>1. headSlot = s \/ slots[s % 2].slot = 0
    BY <1>2, <1>5, SMTT(30) DEF ManagerInv, EventInv, RingInv
  <2>2. \A h : Known(headSlot, h) => Known(headSlot, h)'
    BY <1>1, <1>2, <1>5, <2>1, SetWithdrawalsKeeps, Zenon
  <2>3. \A h : Randao(headSlot, h) # {} => Randao(headSlot, h)' # {}
    BY <1>1, <2>2, RandaoIsKnown, RandaoIsKnownPrime, SMTT(30)
  <2>4. \A h \in seen' \ missed' : BadHash \notin missed' =>
          \/ Randao(headSlot, h)' # {}
          \/ pc' # "idle" /\ event'.slot = headSlot' /\ event'.parent = h
    BY <1>1, <1>5, <2>3, SMTT(30) DEF HeadInv
  <2> QED
    BY <1>1, <1>2, <1>3, <1>5, <2>4, SMTT(30) DEF HeadInv
<1>6. CASE RandaoStep
  <2>1. /\ pc = "randao" /\ SetRandao(Attributes(s, event.parent)) /\ phase' = "run" /\ UNCHANGED missed
        /\ event.parent \in Hash /\ slots[s % 2].slot = s
    BY <1>6, SMTT(30) DEF RandaoStep, ManagerInv, RingInv
  <2>2. PICK t \in Slots, g \in Hash : t = s /\ g = event.parent
    BY <1>2, <2>1, SMTT(30)
  <2>3. Known(t, g)' /\ \A h : Known(headSlot, h) => Known(headSlot, h)'
    BY <1>1, <1>2, <2>1, <2>2, SetRandaoKeeps, Zenon
  <2>4. ASSUME BadHash \notin missed', NEW h \in seen' \ missed' PROVE Randao(headSlot, h)' # {}
    <3>1. Randao(headSlot, h) # {} \/ (t = headSlot /\ g = h)
      BY <1>1, <2>1, <2>2, <2>4, Zenon DEF HeadInv
    <3>2. Known(headSlot, h)'
      BY <1>1, <2>3, <3>1, RandaoIsKnown, SMTT(30)
    <3> QED
      BY <3>2, RandaoIsKnownPrime, SMTT(30)
  <2> QED
    BY <1>1, <1>2, <1>3, <2>1, <2>4, Zenon DEF HeadInv
<1>7. WithdrawalsStep =>
        \/ GiveUp /\ UNCHANGED slots
        \/ /\ pc = "withdrawals" /\ event.parent \in Hash /\ pc' = "randao"
           /\ SetWithdrawals(Attributes(s, event.parent)) /\ UNCHANGED <<phase, event, missed>>
  BY <1>2, Zenon DEF WithdrawalsStep
<1> QED
  BY <1>4, <1>5, <1>6, <1>7, SMTT(30)

\* Every step keeps what is known of the head's attributes.
LEMMA Next_HeadInv ==
    ASSUME ManagerInv, HeadInv, [Next]_vars
    PROVE  HeadInv'
<1>1. CASE UNCHANGED vars \/ PublishNext
  <2>1. UNCHANGED <<stateVars, managerVars>>
    BY <1>1, Zenon DEF PublishNext, vars
  <2> QED
    BY <2>1, HeadKept, Zenon DEF stateVars, managerVars, HeadInv
<1>2. CASE waitSynced \/ Genesis \/ initForkEpoch
  <2>1. /\ UNCHANGED <<headSlot, slots, parentBlockHash, pc, event, seen, missed>>
        /\ phase # "run" /\ (phase' \in {"wait", "run"} => fork')
    BY <1>2, Zenon DEF waitSynced, Genesis, initForkEpoch, stateVars
  <2> QED
    BY <2>1, HeadKept, Zenon
<1>3. ASSUME NEW c, Ask(c) PROVE HeadInv'
  <2>1. UNCHANGED <<stateVars, managerVars>>
    BY <1>3, SMTT(30) DEF Ask
  <2> QED
    BY <2>1, HeadKept, Zenon DEF stateVars, managerVars, HeadInv
<1>4. CASE InitValidators \/ \E s \in Slots : updateKnownValidators(s)
  <2>1. /\ UNCHANGED <<headSlot, slots, parentBlockHash, fork, seen, phase>>
        /\ missed \subseteq missed'
        /\ \/ pc' # "idle" /\ UNCHANGED event
           \/ UNCHANGED <<pc, event>>
           \/ event.slot = headSlot => event.parent \in missed'
    BY <1>4, Zenon DEF InitValidators, updateKnownValidators
  <2> QED
    BY <2>1, HeadKept, SMTT(30) DEF HeadInv
<1>5. CASE getProposerDuties \/ storeProposerDuties
  <2>1. /\ UNCHANGED <<headSlot, slots, parentBlockHash, fork, seen>>
        /\ phase' = phase \/ (phase = "wait" /\ phase' = "failed")
        /\ missed \subseteq missed'
        /\ \/ pc' # "idle" /\ UNCHANGED event
           \/ event.slot = headSlot => event.parent \in missed'
    BY <1>5, Zenon DEF getProposerDuties, storeProposerDuties, GiveUp, stateVars
  <2> QED
    BY <2>1, HeadKept, SMTT(30) DEF HeadInv
<1> QED
  BY <1>1, <1>2, <1>3, <1>4, <1>5, HeadTaken, HeadWritten, SMTT(30) DEF Next, ManagerNext, Handle

\* Between two events the attributes of the head slot are known for every parent
\* that was announced, except those whose event was given up.
THEOREM HeadTheorem == Spec => []HeadAttributesKnown
<1>1. Init => HeadInv
  BY Zenon DEF Init, StateInit, HeadInv
<1>2. ManagerInv /\ HeadInv /\ [Next]_vars => HeadInv'
  BY Next_HeadInv, Zenon
<1>3. HeadInv => HeadAttributesKnown
  BY Zenon DEF HeadInv, HeadAttributesKnown
<1> QED
  BY <1>1, <1>2, <1>3, ManagerInvariant, PTL DEF Spec

-----------------------------------------------------------------------------
\* The state of the beacon package keeps its types, the place of the best node
\* among them.
THEOREM TypeCorrect == Spec => []TypeOK
<1>1. ManagerInv => TypeOK
  BY Zenon DEF ManagerInv
<1> QED
  BY <1>1, ManagerInvariant, PTL

\* The ring gives attributes only for the slot they were announced for.
THEOREM RingTheorem == Spec => []AttributesAreOfTheirSlot
<1>1. ManagerInv => AttributesAreOfTheirSlot
  BY SMTT(30) DEF ManagerInv, RingOK
<1> QED
  BY <1>1, ManagerInvariant, PTL

\* It never gives the randao of a parent without its withdrawals.
THEOREM RandaoTheorem == Spec => []RandaoHasWithdrawals
<1>1. ManagerInv => RandaoHasWithdrawals
  <2> SUFFICES ASSUME ManagerInv, NEW s \in Slots, NEW h \in Hash, Randao(s, h) # {}
               PROVE  Withdrawals(s, h) # {}
    BY Zenon DEF RandaoHasWithdrawals
  <2>1. PICK a \in slots[s % 2].randao : slots[s % 2].slot = s /\ a.parent = h
    <3>1. Randao(s, h) = IF slots[s % 2].slot = s THEN { a \in slots[s % 2].randao : a.parent = h } ELSE {}
      BY SMTT(30) DEF Randao, NumberOfSlotsInState
    <3> QED
      BY <3>1, Zenon
  <2>2. PICK b \in slots[s % 2].withdrawals : b.parent = h
    BY <2>1, SlotFacts, Zenon DEF ManagerInv, RingInv
  <2> QED
    BY <2>1, <2>2, Zenon DEF Withdrawals, NumberOfSlotsInState
<1> QED
  BY <1>1, ManagerInvariant, PTL

\* Between two events the duties are those fetched at the head slot, unless an
\* event of it was given up.
THEOREM DutiesTheorem == Spec => []DutiesFollowHead
<1>1. ManagerInv => DutiesFollowHead
  BY Zenon DEF ManagerInv, EventInv, DutiesFollowHead
<1> QED
  BY <1>1, ManagerInvariant, PTL

\* Neither the head nor a place of the ring goes back.
THEOREM ForwardTheorem == Spec => NeverGoesBack
<1>1. ListInv /\ ManagerInv /\ [Next]_vars =>
        [headSlot' >= headSlot /\ \A i \in 0 .. 1 : slots'[i].slot >= slots[i].slot]_vars
  BY Next_ManagerInv, Zenon
<1> QED
  BY <1>1, ManagerInvariant, PTL DEF Spec, NeverGoesBack
==============================================================================
