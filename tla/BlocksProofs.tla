---------------------------- MODULE BlocksProofs ----------------------------
(***************************************************************************)
(* Theorems about the block on its way through two relays: if the decoders *)
(* undo the encoders, which TLC checks for the blocks of a run, then what  *)
(* is stored, offered, streamed and published is the builder's block.      *)
(***************************************************************************)
EXTENDS Blocks, TLAPS

---------------------------------------------------------------------------
(* Byte strings and roots *)

\* The leaf that holds the 32 bytes of a root is that root.
LEMMA LeafOfRoot == ASSUME NEW t PROVE Leaf(RootBytes(t)) = t
BY DEF Leaf, RootBytes, Named

\* A root is not the zero hash of an object written for the fork before.
LEMMA RootIsNotZero == ASSUME NEW t PROVE RootBytes(t) # Zeros(32)
<1>1. RootBytes(t)[1].of = <<"root", t>> /\ Zeros(32)[1].of = <<"zero">>
  BY DEF RootBytes, Zeros, Chunk, Named
<1>2. <<"root", t>> # <<"zero">>
  BY Len(<<"root", t>>) = 2, Len(<<"zero">>) = 1, Zenon
<1> QED
  BY <1>1, <1>2, Zenon

---------------------------------------------------------------------------
(* Headers *)

\* The fields of a header that are those of its payload.
HeaderNames == {"ParentHash", "FeeRecipient", "StateRoot", "ReceiptsRoot", "LogsBloom", "Random", "BlockNumber",
                "GasLimit", "GasUsed", "Timestamp", "ExtraData", "BaseFeePerGas", "BlockHash"}
PayloadNames == HeaderNames \union {"Transactions", "Withdrawals"}

\* What a merged record holds.
LEMMA MergedFields ==
  ASSUME NEW r, NEW q
  PROVE  /\ DOMAIN Merged(r, q) = DOMAIN r \union DOMAIN q
         /\ \A f \in DOMAIN r : Merged(r, q)[f] = r[f]
         /\ \A f \in DOMAIN q : f \notin DOMAIN r => Merged(r, q)[f] = q[f]
BY Zenon DEF Merged

\* PayloadToPayloadHeader copies the fields and replaces the lists by roots.
LEMMA HeaderFields ==
  ASSUME NEW p, DOMAIN p = PayloadNames, NEW h \in PayloadToPayloadHeader(p)
  PROVE  /\ DOMAIN h = HeaderNames \union {"TransactionsRoot", "WithdrawalsRoot"}
         /\ \A f \in HeaderNames : h[f] = p[f]
         /\ h.TransactionsRoot = RootBytes(TransactionsRoot(p.Transactions))
         /\ ~p.Withdrawals.nil => \E r \in HashWithdrawals(p.Withdrawals.list) : h.WithdrawalsRoot = RootBytes(r)
<1> DEFINE kept == [f \in DOMAIN p \ {"Transactions", "Withdrawals"} |-> p[f]]
<1>1. PICK wr \in IF p.Withdrawals.nil THEN {Zeros(32)}
                  ELSE {RootBytes(r) : r \in HashWithdrawals(p.Withdrawals.list)} :
             h = Merged(kept, [TransactionsRoot |-> RootBytes(TransactionsRoot(p.Transactions)), WithdrawalsRoot |-> wr])
  BY Zenon DEF PayloadToPayloadHeader
<1>2. DOMAIN kept = HeaderNames /\ \A f \in HeaderNames : kept[f] = p[f]
  BY Zenon DEF PayloadNames, HeaderNames
<1> HIDE DEF kept
<1>3. "TransactionsRoot" \notin HeaderNames /\ "WithdrawalsRoot" \notin HeaderNames
  BY Zenon DEF HeaderNames
<1> DEFINE roots == [TransactionsRoot |-> RootBytes(TransactionsRoot(p.Transactions)), WithdrawalsRoot |-> wr]
<1>4. DOMAIN roots = {"TransactionsRoot", "WithdrawalsRoot"} /\ roots.WithdrawalsRoot = wr
      /\ roots.TransactionsRoot = RootBytes(TransactionsRoot(p.Transactions))
  BY Zenon
<1>5. h = Merged(kept, roots)
  BY <1>1, Zenon
<1> HIDE DEF roots
<1>9. /\ DOMAIN Merged(kept, roots) = DOMAIN kept \union DOMAIN roots
      /\ \A f \in DOMAIN kept : Merged(kept, roots)[f] = kept[f]
      /\ \A f \in DOMAIN roots : f \notin DOMAIN kept => Merged(kept, roots)[f] = roots[f]
  BY MergedFields, Zenon
<1>6. /\ DOMAIN h = HeaderNames \union {"TransactionsRoot", "WithdrawalsRoot"}
      /\ \A f \in HeaderNames : h[f] = p[f]
  <2>1. DOMAIN h = DOMAIN kept \union DOMAIN roots /\ \A f \in DOMAIN kept : h[f] = kept[f]
    BY <1>5, <1>9, Zenon
  <2> QED
    BY <2>1, <1>2, <1>4, Zenon
<1>7. h.TransactionsRoot = RootBytes(TransactionsRoot(p.Transactions)) /\ h.WithdrawalsRoot = wr
  <2>1. \A f \in DOMAIN roots : f \notin DOMAIN kept => h[f] = roots[f]
    BY <1>5, <1>9, Zenon
  <2>2. /\ "TransactionsRoot" \in DOMAIN roots /\ "TransactionsRoot" \notin DOMAIN kept
        /\ "WithdrawalsRoot" \in DOMAIN roots /\ "WithdrawalsRoot" \notin DOMAIN kept
    BY <1>2, <1>3, <1>4, Zenon
  <2> QED
    BY <2>1, <2>2, <1>4, Zenon
<1>8. ~p.Withdrawals.nil => wr \in {RootBytes(r) : r \in HashWithdrawals(p.Withdrawals.list)}
  BY <1>1, Zenon
<1> QED
  BY <1>6, <1>7, <1>8, Zenon

\* The root of the list of withdrawals is the list's root in the payload.
LEMMA WithdrawalsRoot ==
  ASSUME NEW ws, NEW r \in HashWithdrawals(ws)
  PROVE  /\ r = ListRoot([i \in DOMAIN ws |-> WithdrawalRoot(ws[i])], 16)
         /\ ~(Len(ws) > 16)
BY Zenon DEF HashWithdrawals, Merkleize

\* The header of a payload has the payload's root.
LEMMA HeaderRootIsPayloadRoot ==
  ASSUME NEW p, DOMAIN p = PayloadNames, ~p.Withdrawals.nil, NEW h \in PayloadToPayloadHeader(p)
  PROVE  HeaderRoot(h) = PayloadRoot(p)
<1> DEFINE names == <<"ParentHash", "FeeRecipient", "StateRoot", "ReceiptsRoot", "LogsBloom", "Random",
                      "BlockNumber", "GasLimit", "GasUsed", "Timestamp">>
           tail == <<"BaseFeePerGas", "BlockHash", "TransactionsRoot", "WithdrawalsRoot">>
           txs == TransactionsRoot(p.Transactions)
           ws == ListRoot([i \in DOMAIN p.Withdrawals.list |-> WithdrawalRoot(p.Withdrawals.list[i])], 16)
<1>1. Leaves(h, names) = Leaves(p, names)
  BY HeaderFields DEF Leaves, HeaderNames
<1>2. Leaves(h, tail) = <<Leaf(p.BaseFeePerGas), Leaf(p.BlockHash), txs, ws>>
  <2>1. Leaf(h.TransactionsRoot) = txs
    BY HeaderFields, LeafOfRoot, Zenon
  <2>2. Leaf(h.WithdrawalsRoot) = ws
    BY HeaderFields, LeafOfRoot, WithdrawalsRoot
  <2>3. h.BaseFeePerGas = p.BaseFeePerGas /\ h.BlockHash = p.BlockHash
    BY HeaderFields, Zenon DEF HeaderNames
  <2> QED
    BY <2>1, <2>2, <2>3 DEF Leaves
<1>3. h.ExtraData = p.ExtraData
  BY HeaderFields, Zenon DEF HeaderNames
<1>4. ~(Len(p.Withdrawals.list) > 16)
  BY HeaderFields, WithdrawalsRoot, Zenon
<1> HIDE DEF txs, ws, tail, names
<1> QED
  BY <1>1, <1>2, <1>3, <1>4, Zenon DEF HeaderRoot, PayloadRoot, txs, ws, tail, names

\* A payload has one header.
LEMMA OneHeader ==
  ASSUME NEW p, NEW h \in PayloadToPayloadHeader(p), NEW g \in PayloadToPayloadHeader(p)
  PROVE  h = g
<1>1. \A r, q \in HashWithdrawals(p.Withdrawals.list) : r = q
  BY Zenon DEF HashWithdrawals
<1> QED
  BY <1>1, Zenon DEF PayloadToPayloadHeader

\* A header has at most one root.
LEMMA OneRoot ==
  ASSUME NEW h, NEW r \in HeaderRoot(h)
  PROVE  HeaderRoot(h) = {r}
BY Zenon DEF HeaderRoot

---------------------------------------------------------------------------
(* The builder's block, as the relays hold it *)

\* What the builder signed and sent, and the key it is stored under.
Data == Payload(shape)
SignedTrace == [Signature |-> Chunk("sig", 1, 96), Message |-> Trace]
TheKey == <<Trace.BlockHash, Trace.ProposerPubkey, Trace.Slot>>

\* The fields of the builder's payload, and those its trace repeats.
LEMMA DataFields ==
  /\ DOMAIN Data = PayloadNames
  /\ Data.BlockHash = Trace.BlockHash /\ Data.ParentHash = Trace.ParentHash
  /\ Data.GasLimit = Trace.GasLimit /\ Data.GasUsed = Trace.GasUsed
  /\ Data.Withdrawals.nil = shape.nil /\ DOMAIN Data.Withdrawals = {"nil", "list"}
<1>1. DOMAIN Data = PayloadNames
  BY Zenon DEF Data, Payload, PayloadNames, HeaderNames
<1>2. /\ Data.BlockHash = Trace.BlockHash /\ Data.ParentHash = Trace.ParentHash
      /\ Data.GasLimit = Trace.GasLimit /\ Data.GasUsed = Trace.GasUsed
  BY Zenon DEF Data, Payload, Trace
<1>3. Data.Withdrawals.nil = shape.nil /\ DOMAIN Data.Withdrawals = {"nil", "list"}
  BY Zenon DEF Data, Payload
<1> QED
  BY <1>1, <1>2, <1>3, Zenon

\* What storeSubmission makes of the block as a Capella submission.
LEMMA CapellaContents ==
  ASSUME NEW c \in Contents(Submitted("capella"))
  PROVE  \E h \in PayloadToPayloadHeader(Data) : \E root \in HeaderRoot(h) :
           /\ c.Header = h
           /\ c.Payload = [Trace |-> SignedTrace, Payload |-> [Version |-> Chunk("capella", 0, 7), Data |-> Data],
                           ExecutionHeaderHash |-> RootBytes(root)]
           /\ c.Trace = Merged([Trace EXCEPT !.ParentHash = Data.ParentHash, !.BlockHash = Data.BlockHash],
                                 [BlockNumber |-> Data.BlockNumber, NumTx |-> Len(Data.Transactions)])
<1> DEFINE r == Block(shape)
<1>1. r.Message = Trace /\ r.Signature = Chunk("sig", 1, 96) /\ r.ExecutionPayload = Data
  BY Zenon DEF Block, Data
<1>2. c \in PreparePayloadContents(r, RelayKey)
  BY Zenon DEF Contents, Submitted
<1> HIDE DEF r
<1>3. PICK sbb \in toSignedBuilderBid(r, RelayKey) : \E bbt \in toBlockBidAndTrace(r, sbb) :
             c = [Payload |-> bbt, Header |-> sbb.Message.Header,
                  Trace |-> Merged([r.Message EXCEPT !.ParentHash = r.ExecutionPayload.ParentHash,
                                                       !.BlockHash = r.ExecutionPayload.BlockHash],
                                     [BlockNumber |-> r.ExecutionPayload.BlockNumber,
                                      NumTx |-> Len(r.ExecutionPayload.Transactions)])]
  BY <1>2, Zenon DEF PreparePayloadContents
<1>4. sbb.Message.Header \in PayloadToPayloadHeader(Data)
  <2>1. PICK h \in PayloadToPayloadHeader(Data) :
               sbb \in LET b == [Value |-> r.Message.Value, Header |-> h, Pubkey |-> RelayKey]
                       IN  {[Message |-> b, Signature |-> <<"signed", root>>] : root \in BuilderBidRoot(b)}
    BY <1>1, Zenon DEF toSignedBuilderBid
  <2> QED
    BY <2>1
<1>5. PICK bbt \in toBlockBidAndTrace(r, sbb) :
             /\ c.Payload = bbt /\ c.Header = sbb.Message.Header
             /\ c.Trace = Merged([r.Message EXCEPT !.ParentHash = r.ExecutionPayload.ParentHash,
                                                     !.BlockHash = r.ExecutionPayload.BlockHash],
                                   [BlockNumber |-> r.ExecutionPayload.BlockNumber,
                                    NumTx |-> Len(r.ExecutionPayload.Transactions)])
  BY <1>3
<1>6. PICK root \in HeaderRoot(sbb.Message.Header) :
             bbt = [Trace |-> SignedTrace, Payload |-> [Version |-> Chunk("capella", 0, 7), Data |-> Data],
                    ExecutionHeaderHash |-> RootBytes(root)]
  BY <1>1, Zenon DEF toBlockBidAndTrace, SignedTrace
<1> QED
  BY <1>1, <1>4, <1>5, <1>6, Zenon

\* And as a Bellatrix submission.
LEMMA BellatrixContents ==
  ASSUME NEW c \in Contents(Submitted("bellatrix"))
  PROVE  \E sbb :
           /\ sbb.Message.Header = B!PayloadToPayloadHeader(Data) /\ B!HeaderRoot(sbb.Message.Header) # {}
           /\ c.Header = sbb.Message.Header
           /\ c.Payload = [Trace |-> SignedTrace, Bid |-> [Version |-> B!Chunk("bellatrix", 0, 9), Data |-> sbb],
                           Payload |-> [Version |-> B!Chunk("bellatrix", 0, 9), Data |-> Data]]
           /\ c.Trace = B!Merged([Trace EXCEPT !.ParentHash = Data.ParentHash, !.BlockHash = Data.BlockHash],
                                 [BlockNumber |-> Data.BlockNumber, NumTx |-> Len(Data.Transactions)])
<1> DEFINE r == Block(shape)
<1>1. r.Message = Trace /\ r.Signature = Chunk("sig", 1, 96) /\ r.ExecutionPayload = Data
  BY Zenon DEF Block, Data
<1>2. c \in B!PreparePayloadContents(r, RelayKey)
  BY Zenon DEF Contents, Submitted
<1> HIDE DEF r
<1>3. PICK sbb \in B!toSignedBuilderBid(r, RelayKey) :
             c = [Payload |-> B!toBlockBidAndTrace(r, sbb), Header |-> sbb.Message.Header,
                  Trace |-> B!Merged([r.Message EXCEPT !.ParentHash = r.ExecutionPayload.ParentHash,
                                                       !.BlockHash = r.ExecutionPayload.BlockHash],
                                     [BlockNumber |-> r.ExecutionPayload.BlockNumber,
                                      NumTx |-> Len(r.ExecutionPayload.Transactions)])]
  BY <1>2, Zenon DEF B!PreparePayloadContents
<1>4. sbb.Message.Header = B!PayloadToPayloadHeader(Data) /\ B!HeaderRoot(sbb.Message.Header) # {}
  <2> DEFINE b == [Value |-> r.Message.Value, Header |-> B!PayloadToPayloadHeader(Data), Pubkey |-> RelayKey]
  <2>1. PICK root \in B!BuilderBidRoot(b) : sbb = [Message |-> b, Signature |-> <<"signed", root>>]
    BY <1>1, Zenon DEF B!toSignedBuilderBid
  <2>2. b.Header = B!PayloadToPayloadHeader(Data)
    BY Zenon
  <2> HIDE DEF b
  <2>3. B!HeaderRoot(b.Header) # {}
    BY <2>1, Zenon DEF B!BuilderBidRoot
  <2>4. sbb.Message = b
    BY <2>1, Zenon
  <2> QED
    BY <2>2, <2>3, <2>4, Zenon
<1>5. B!toBlockBidAndTrace(r, sbb) =
        [Trace |-> SignedTrace, Bid |-> [Version |-> B!Chunk("bellatrix", 0, 9), Data |-> sbb],
         Payload |-> [Version |-> B!Chunk("bellatrix", 0, 9), Data |-> Data]]
  BY <1>1, Zenon DEF B!toBlockBidAndTrace, SignedTrace
<1>6. /\ c.Header = sbb.Message.Header /\ c.Payload = B!toBlockBidAndTrace(r, sbb)
      /\ c.Trace = B!Merged([r.Message EXCEPT !.ParentHash = r.ExecutionPayload.ParentHash,
                                              !.BlockHash = r.ExecutionPayload.BlockHash],
                            [BlockNumber |-> r.ExecutionPayload.BlockNumber,
                             NumTx |-> Len(r.ExecutionPayload.Transactions)])
  BY <1>3, Zenon
<1> QED
  BY <1>1, <1>4, <1>5, <1>6, Zenon

\* An entry of the store, by the fork it was written for.
LEMMA StoredForms ==
  ASSUME NEW f \in {"bellatrix", "capella"}, NEW e \in Entries(Submitted(f))
  PROVE  /\ e.key = TheKey /\ e.fork = f
         /\ \E c \in Contents(Submitted(f)) : e.v = c.Payload
<1>1. PICK c \in Contents(Submitted(f)) : e = [key |-> PayloadKey(Submitted(f)), fork |-> Submitted(f).fork, v |-> c.Payload]
  BY Zenon DEF Entries
<1>2. PayloadKey(Submitted(f)) = TheKey
  BY Zenon DEF PayloadKey, Submitted, ToPayloadKey, B!ToPayloadKey, Block, TheKey
<1>3. Submitted(f).fork = f
  BY Zenon DEF Submitted
<1> QED
  BY <1>1, <1>2, <1>3, Zenon

\* The three forms in which a payload is read from the store.
CapellaForm(p) ==
  /\ shape.fork = "capella"
  /\ \E h \in PayloadToPayloadHeader(Data) : \E root \in HeaderRoot(h) :
       p = [Trace |-> SignedTrace, Payload |-> [Version |-> Chunk("capella", 0, 7), Data |-> Data],
            ExecutionHeaderHash |-> RootBytes(root)]
EarlyForm(p) ==
  /\ shape.fork = "capella" /\ shape.early
  /\ \E q : /\ p = [Trace |-> SignedTrace, ExecutionHeaderHash |-> Zeros(32), Payload |-> q]
            /\ DOMAIN q = {"Version", "Data"}
            /\ q.Data = [Data EXCEPT !.Withdrawals = [nil |-> TRUE, list |-> << >>]]
BellatrixForm(p) ==
  /\ shape.fork = "bellatrix"
  /\ \E sbb :
       /\ sbb.Message.Header = B!PayloadToPayloadHeader(Data)
       /\ p = [Trace |-> SignedTrace, Bid |-> [Version |-> B!Chunk("bellatrix", 0, 9), Data |-> sbb],
               Payload |-> [Version |-> B!Chunk("bellatrix", 0, 9), Data |-> Data]]

\* What Datastore.GetPayload finds has one of the three forms.
LEMMA ReadableForms ==
  ASSUME shape.fork \in {"bellatrix", "capella"}, shape.early \in BOOLEAN, NEW p \in Readable
  PROVE  CapellaForm(p) \/ EarlyForm(p) \/ BellatrixForm(p)
<1>0. PICK f \in Forks : \E e \in Entries(Submitted(f)) : p = Read(e)
  BY Zenon DEF Readable, Stored
<1>1. PICK e \in Entries(Submitted(f)) : p = Read(e)
  BY <1>0, Zenon
<1>2. f \in {"bellatrix", "capella"} /\ (f # shape.fork => shape.early /\ f = "bellatrix" /\ shape.fork = "capella")
  BY Zenon DEF Forks
<1>3. e.fork = f /\ \E c \in Contents(Submitted(f)) : e.v = c.Payload
  BY <1>2, StoredForms, Zenon
<1>4. CASE f = shape.fork /\ f = "capella"
  <2>1. p = e.v
    BY <1>1, <1>3, <1>4, Zenon DEF Read
  <2>2. PICK c \in Contents(Submitted("capella")) : p = c.Payload
    BY <2>1, <1>3, <1>4, Zenon
  <2> QED
    BY <2>2, <1>4, CapellaContents, Zenon DEF CapellaForm
<1>5. CASE f = "bellatrix"
  <2>1. PICK c \in Contents(Submitted("bellatrix")) : e.v = c.Payload
    BY <1>3, <1>5, Zenon
  <2>2. PICK sbb :
          /\ sbb.Message.Header = B!PayloadToPayloadHeader(Data)
          /\ e.v = [Trace |-> SignedTrace, Bid |-> [Version |-> B!Chunk("bellatrix", 0, 9), Data |-> sbb],
                    Payload |-> [Version |-> B!Chunk("bellatrix", 0, 9), Data |-> Data]]
    BY <2>1, BellatrixContents, Zenon
  <2>3. CASE shape.fork = "bellatrix"
    <3>1. p = e.v
      BY <1>1, <1>3, <1>5, <2>3, Zenon DEF Read
    <3> QED
      BY <2>2, <2>3, <3>1, Zenon DEF BellatrixForm
  <2>4. CASE shape.fork = "capella"
    <3>1. p = [Trace |-> e.v.Trace, ExecutionHeaderHash |-> Zeros(32),
               Payload |-> [e.v.Payload EXCEPT !.Data.Withdrawals = [nil |-> TRUE, list |-> << >>]]]
      BY <1>1, <1>3, <1>5, <2>4, Zenon DEF Read
    <3>2. e.v.Trace = SignedTrace /\ DOMAIN e.v.Payload = {"Version", "Data"} /\ e.v.Payload.Data = Data
      BY <2>2
    <3>3. PICK q : q = [e.v.Payload EXCEPT !.Data.Withdrawals = [nil |-> TRUE, list |-> << >>]]
      BY Zenon
    <3>4. DOMAIN q = {"Version", "Data"} /\ q.Data = [Data EXCEPT !.Withdrawals = [nil |-> TRUE, list |-> << >>]]
      BY <3>2, <3>3, Zenon
    <3>5. p = [Trace |-> SignedTrace, ExecutionHeaderHash |-> Zeros(32), Payload |-> q]
      BY <3>1, <3>2, <3>3, Zenon
    <3> QED
      BY <1>2, <1>5, <2>4, <3>4, <3>5, Zenon DEF EarlyForm
  <2> QED
    BY <2>3, <2>4, Zenon
<1> QED
  BY <1>2, <1>4, <1>5, Zenon

\* NotNil changes the withdrawals only.
LEMMA NotNilFields ==
  ASSUME NEW p, "Payload" \in DOMAIN p, "Data" \in DOMAIN p.Payload
  PROVE  /\ \A f \in DOMAIN p \ {"Payload"} : NotNil(p)[f] = p[f]
         /\ NotNil(p).Payload.Data = [p.Payload.Data EXCEPT !.Withdrawals.nil = FALSE]
BY Zenon DEF NotNil

\* The parts of a payload that every relay holds alike.
Alike(p) ==
  /\ p.Trace = SignedTrace
  /\ \A f \in PayloadNames \ {"Withdrawals"} : p.Payload.Data[f] = Data[f]
  /\ shape.fork = "bellatrix" => p.Bid.Data.Message.Header = B!PayloadToPayloadHeader(Data)
  /\ shape.fork = "capella" =>
       \/ shape.early /\ p.ExecutionHeaderHash = Zeros(32)
       \/ \E h \in PayloadToPayloadHeader(Data) : \E root \in HeaderRoot(h) : p.ExecutionHeaderHash = RootBytes(root)

\* The payload of the builder, except for nil withdrawals.
WholeData(p) == p.Payload.Data = Data \/ p.Payload.Data = [Data EXCEPT !.Withdrawals.nil = FALSE]

\* As it is read from the store.
LEMMA ReadableFacts ==
  ASSUME shape.fork \in {"bellatrix", "capella"}, shape.early \in BOOLEAN, NEW p \in Readable
  PROVE  /\ Alike(p)
         /\ WholeData(p) \/ EarlyForm(p)
         /\ "Payload" \in DOMAIN p /\ "Data" \in DOMAIN p.Payload
         /\ "Trace" \in DOMAIN p
         /\ shape.fork = "bellatrix" => "Bid" \in DOMAIN p
         /\ shape.fork = "capella" => "ExecutionHeaderHash" \in DOMAIN p
         /\ DOMAIN p.Payload.Data = PayloadNames
<1>1. CASE CapellaForm(p)
  <2>1. PICK h \in PayloadToPayloadHeader(Data) : \E root \in HeaderRoot(h) :
          p = [Trace |-> SignedTrace, Payload |-> [Version |-> Chunk("capella", 0, 7), Data |-> Data],
               ExecutionHeaderHash |-> RootBytes(root)]
    BY <1>1, Zenon DEF CapellaForm
  <2>2. PICK root \in HeaderRoot(h) :
          p = [Trace |-> SignedTrace, Payload |-> [Version |-> Chunk("capella", 0, 7), Data |-> Data],
               ExecutionHeaderHash |-> RootBytes(root)]
    BY <2>1, Zenon
  <2>3. /\ p.Trace = SignedTrace /\ p.ExecutionHeaderHash = RootBytes(root) /\ p.Payload.Data = Data
        /\ DOMAIN p = {"Trace", "Payload", "ExecutionHeaderHash"} /\ DOMAIN p.Payload = {"Version", "Data"}
    BY <2>2, Zenon
  <2>4. shape.fork = "capella"
    BY <1>1, Zenon DEF CapellaForm
  <2> QED
    BY <2>3, <2>4, DataFields, Zenon DEF Alike, WholeData
<1>2. CASE EarlyForm(p)
  <2>1. PICK q : /\ p = [Trace |-> SignedTrace, ExecutionHeaderHash |-> Zeros(32), Payload |-> q]
                 /\ DOMAIN q = {"Version", "Data"}
                 /\ q.Data = [Data EXCEPT !.Withdrawals = [nil |-> TRUE, list |-> << >>]]
    BY <1>2, Zenon DEF EarlyForm
  <2>2. DOMAIN q.Data = PayloadNames /\ \A f \in PayloadNames \ {"Withdrawals"} : q.Data[f] = Data[f]
    BY <2>1, DataFields, Zenon
  <2>3. p.Trace = SignedTrace /\ p.ExecutionHeaderHash = Zeros(32) /\ p.Payload = q
        /\ DOMAIN p = {"Trace", "ExecutionHeaderHash", "Payload"}
    BY <2>1, Zenon
  <2>4. shape.fork = "capella" /\ shape.early
    BY <1>2, Zenon DEF EarlyForm
  <2> QED
    BY <1>2, <2>1, <2>2, <2>3, <2>4, Zenon DEF Alike
<1>3. CASE BellatrixForm(p)
  <2>1. PICK sbb : /\ sbb.Message.Header = B!PayloadToPayloadHeader(Data)
                   /\ p = [Trace |-> SignedTrace, Bid |-> [Version |-> B!Chunk("bellatrix", 0, 9), Data |-> sbb],
                           Payload |-> [Version |-> B!Chunk("bellatrix", 0, 9), Data |-> Data]]
    BY <1>3, Zenon DEF BellatrixForm
  <2>2. /\ p.Trace = SignedTrace /\ p.Bid.Data = sbb /\ p.Payload.Data = Data
        /\ DOMAIN p = {"Trace", "Bid", "Payload"} /\ DOMAIN p.Payload = {"Version", "Data"}
    BY <2>1, Zenon
  <2>3. shape.fork = "bellatrix"
    BY <1>3, Zenon DEF BellatrixForm
  <2> QED
    BY <2>1, <2>2, <2>3, DataFields, Zenon DEF Alike, WholeData
<1> QED
  BY <1>1, <1>2, <1>3, ReadableForms, Zenon

\* And as it is held in a cache.
LEMMA CacheableFacts ==
  ASSUME shape.fork \in {"bellatrix", "capella"}, shape.early \in BOOLEAN, NEW p \in Cacheable
  PROVE  /\ Alike(p)
         /\ WholeData(p) \/ (shape.early /\ p.ExecutionHeaderHash = Zeros(32) /\ shape.fork = "capella")
<1>1. \A q : EarlyForm(q) => shape.early /\ q.ExecutionHeaderHash = Zeros(32) /\ shape.fork = "capella"
  BY DEF EarlyForm
<1>2. CASE p \in Readable
  BY <1>1, <1>2, ReadableFacts, Zenon
<1>3. ASSUME NEW q \in Readable, p = NotNil(q)
      PROVE  /\ Alike(p)
             /\ WholeData(p) \/ (shape.early /\ p.ExecutionHeaderHash = Zeros(32) /\ shape.fork = "capella")
  <2>1. /\ Alike(q) /\ (WholeData(q) \/ EarlyForm(q)) /\ "Trace" \in DOMAIN q
        /\ "Payload" \in DOMAIN q /\ "Data" \in DOMAIN q.Payload
        /\ (shape.fork = "bellatrix" => "Bid" \in DOMAIN q)
        /\ (shape.fork = "capella" => "ExecutionHeaderHash" \in DOMAIN q)
        /\ DOMAIN q.Payload.Data = PayloadNames
    BY ReadableFacts, Zenon
  <2>2. /\ \A f \in DOMAIN q \ {"Payload"} : p[f] = q[f]
        /\ p.Payload.Data = [q.Payload.Data EXCEPT !.Withdrawals.nil = FALSE]
    BY <1>3, <2>1, NotNilFields, Zenon
  <2>3. /\ p.Trace = q.Trace
        /\ shape.fork = "bellatrix" => p.Bid = q.Bid
        /\ shape.fork = "capella" => p.ExecutionHeaderHash = q.ExecutionHeaderHash
    BY <2>1, <2>2, Zenon
  <2>4. \A f \in PayloadNames \ {"Withdrawals"} : p.Payload.Data[f] = q.Payload.Data[f]
    BY <2>1, <2>2, Zenon
  <2>5. Alike(p)
    BY <2>1, <2>3, <2>4, Zenon DEF Alike
  <2>6. WholeData(q) => WholeData(p)
    BY <2>2, DataFields, Zenon DEF WholeData, PayloadNames
  <2> QED
    BY <1>1, <2>1, <2>3, <2>5, <2>6, Zenon
<1> QED
  BY <1>2, <1>3, Zenon DEF Cacheable

---------------------------------------------------------------------------
(* Bids and signed blocks *)

\* A Bellatrix header has the payload's fields, too.
LEMMA BellatrixHeaderFields ==
  /\ DOMAIN B!PayloadToPayloadHeader(Data) = HeaderNames \union {"TransactionsRoot"}
  /\ \A f \in HeaderNames : B!PayloadToPayloadHeader(Data)[f] = Data[f]
<1> DEFINE kept == [f \in DOMAIN Data \ {"Transactions", "Withdrawals"} |-> Data[f]]
           roots == [TransactionsRoot |-> B!RootBytes(B!TransactionsRoot(Data.Transactions))]
<1>1. DOMAIN kept = HeaderNames /\ \A f \in HeaderNames : kept[f] = Data[f]
  BY DataFields, Zenon DEF PayloadNames, HeaderNames
<1>2. DOMAIN roots = {"TransactionsRoot"}
  BY Zenon
<1>3. B!PayloadToPayloadHeader(Data) = B!Merged(kept, roots)
  BY Zenon DEF B!PayloadToPayloadHeader
<1> HIDE DEF kept, roots
<1>4. /\ DOMAIN B!Merged(kept, roots) = DOMAIN kept \union DOMAIN roots
      /\ \A f \in DOMAIN kept : B!Merged(kept, roots)[f] = kept[f]
  BY Zenon DEF B!Merged
<1> QED
  BY <1>1, <1>2, <1>3, <1>4, Zenon

\* The header of a bid, by the fork of its slot.
LEMMA OfferHeader ==
  ASSUME shape.fork \in {"bellatrix", "capella"}, NEW c \in Contents(Submitted(shape.fork))
  PROVE  /\ shape.fork = "capella" => c.Header \in PayloadToPayloadHeader(Data) /\ HeaderRoot(c.Header) # {}
         /\ shape.fork = "bellatrix" => c.Header = B!PayloadToPayloadHeader(Data) /\ B!HeaderRoot(c.Header) # {}
         /\ \A f \in HeaderNames : c.Header[f] = Data[f]
         /\ DOMAIN c.Header \cap PayloadNames = HeaderNames
<1>0. /\ (HeaderNames \union {"TransactionsRoot", "WithdrawalsRoot"}) \cap PayloadNames = HeaderNames
      /\ (HeaderNames \union {"TransactionsRoot"}) \cap PayloadNames = HeaderNames
  BY Zenon DEF HeaderNames, PayloadNames
<1>1. CASE shape.fork = "capella"
  <2>1. c.Header \in PayloadToPayloadHeader(Data) /\ HeaderRoot(c.Header) # {}
    BY <1>1, CapellaContents, Zenon
  <2>2. /\ DOMAIN c.Header = HeaderNames \union {"TransactionsRoot", "WithdrawalsRoot"}
        /\ \A f \in HeaderNames : c.Header[f] = Data[f]
    BY <2>1, DataFields, HeaderFields, Zenon
  <2> QED
    BY <1>0, <1>1, <2>1, <2>2, Zenon
<1>2. CASE shape.fork = "bellatrix"
  <2>1. c.Header = B!PayloadToPayloadHeader(Data) /\ B!HeaderRoot(c.Header) # {}
    BY <1>2, BellatrixContents, Zenon
  <2> QED
    BY <1>0, <1>2, <2>1, BellatrixHeaderFields, Zenon
<1> QED
  BY <1>1, <1>2, Zenon

\* A bid is the builder's: its value, its proposer, its slot and its header.
LEMMA OfferFacts ==
  ASSUME shape.fork \in {"bellatrix", "capella"}, NEW x \in Offers(Submitted(shape.fork))
  PROVE  /\ x.BuilderBid.Value = Trace.Value /\ x.Proposer = Trace.ProposerPubkey /\ x.Slot = Trace.Slot
         /\ shape.fork = "capella" => x.BuilderBid.Header \in PayloadToPayloadHeader(Data) /\ HeaderRoot(x.BuilderBid.Header) # {}
         /\ shape.fork = "bellatrix" => x.BuilderBid.Header = B!PayloadToPayloadHeader(Data) /\ B!HeaderRoot(x.BuilderBid.Header) # {}
         /\ \A f \in HeaderNames : x.BuilderBid.Header[f] = Data[f]
         /\ DOMAIN x.BuilderBid.Header \cap PayloadNames = HeaderNames
<1>1. PICK c \in Contents(Submitted(shape.fork)) : x \in bidExtended(Submitted(shape.fork), c.Header)
  BY Zenon DEF Offers
<1>2. /\ x.BuilderBid.Header = c.Header /\ x.BuilderBid.Value = Trace.Value
      /\ x.Proposer = Trace.ProposerPubkey /\ x.Slot = Trace.Slot
  BY <1>1 DEF bidExtended, Submitted, Block
<1> QED
  BY <1>2, OfferHeader, Zenon

\* A submission that was decoded for another fork makes no bid.
LEMMA NoOffer == ASSUME NEW f, f # shape.fork PROVE Offers(Submitted(f)) = {}
BY Zenon DEF Offers, bidExtended, Submitted

\* The parts of the signed block that the relay reads.
LEMMA BlindedFields ==
  ASSUME NEW header
  PROVE  /\ BlindedBlock(header).Message.Slot = Trace.Slot
         /\ BlindedBlock(header).Message.Body.ExecutionPayloadHeader = header
BY Zenon DEF BlindedBlock, Trace

\* Within a fork, the header of every bid is validated by every payload.
LEMMA Validates ==
  ASSUME shape.fork \in {"bellatrix", "capella"}, shape.early = FALSE,
         NEW x \in Offers(Submitted(shape.fork)), NEW p \in Cacheable
  PROVE  validatePayload(p, BlindedBlock(x.BuilderBid.Header))
<1> DEFINE header == x.BuilderBid.Header
<1>1. Alike(p)
  BY CacheableFacts, Zenon
<1>2. CASE shape.fork = "capella"
  <2>1. PICK h \in PayloadToPayloadHeader(Data) : \E root \in HeaderRoot(h) : p.ExecutionHeaderHash = RootBytes(root)
    BY <1>1, <1>2, Zenon DEF Alike
  <2>2. PICK root \in HeaderRoot(h) : p.ExecutionHeaderHash = RootBytes(root)
    BY <2>1, Zenon
  <2>3. h = header
    BY <1>2, OfferFacts, OneHeader, Zenon
  <2>4. ExecutionHeaderHash(BlindedBlock(header)) = {root}
    BY <2>2, <2>3, OneRoot, BlindedFields, Zenon DEF ExecutionHeaderHash
  <2> QED
    BY <1>2, <2>2, <2>4, Zenon DEF validatePayload
<1>3. CASE shape.fork = "bellatrix"
  BY <1>1, <1>3, OfferFacts, BlindedFields, Zenon
     DEF Alike, validatePayload, B!StoredHeaderHash, B!ExecutionHeaderHash
<1> QED
  BY <1>2, <1>3, Zenon

\* An object that was decoded for the fork before is never validated.
LEMMA ValidatedIsWhole ==
  ASSUME shape.fork = "capella", shape.early \in BOOLEAN, NEW p \in Cacheable, NEW s, validatePayload(p, s)
  PROVE  WholeData(p)
<1>1. p.ExecutionHeaderHash # Zeros(32)
  BY RootIsNotZero, Zenon DEF validatePayload
<1> QED
  BY <1>1, CacheableFacts, Zenon

---------------------------------------------------------------------------
(* The inductive invariant *)

\* The bids the block may become.
TheOffers == Offers(Submitted(shape.fork))

\* No step changes the builder's block, and so what it may become.
LEMMA Frozen ==
  ASSUME shape' = shape
  PROVE  /\ Forks' = Forks /\ Stored' = Stored /\ Readable' = Readable /\ Cacheable' = Cacheable
         /\ TheOffers' = TheOffers
         /\ \A f : Submitted(f)' = Submitted(f)
         /\ \A t, x : encode(t, x)' = encode(t, x)
         /\ \A h : BlindedBlock(h)' = BlindedBlock(h)
         /\ \A p, q : /\ validatePayload(p, q)' <=> validatePayload(p, q)
                      /\ UnblindedBlock(p, q)' = UnblindedBlock(p, q)
                      /\ DeliveredTrace(p, q)' = DeliveredTrace(p, q)
<1>1. Forks' = Forks
  BY Zenon DEF Forks
<1>2. \A f : Submitted(f)' = Submitted(f)
  BY Zenon DEF Submitted
<1>3. TheOffers' = TheOffers
  BY DEF TheOffers, Submitted, Offers, bidExtended
<1>4. Stored' = Stored
  BY <1>1, Zenon DEF Stored, Submitted
<1>5. Readable' = Readable
  BY <1>4, Zenon DEF Readable, Read
<1>6. Cacheable' = Cacheable
  BY <1>5, Zenon DEF Cacheable
<1>7. \A t, x : encode(t, x)' = encode(t, x)
  BY Zenon DEF encode
<1>8. \A h : BlindedBlock(h)' = BlindedBlock(h)
  BY DEF BlindedBlock
<1>9. \A p, q : /\ validatePayload(p, q)' <=> validatePayload(p, q)
                /\ UnblindedBlock(p, q)' = UnblindedBlock(p, q)
                /\ DeliveredTrace(p, q)' = DeliveredTrace(p, q)
  BY Zenon DEF validatePayload, UnblindedBlock, DeliveredTrace
<1> QED
  BY <1>1, <1>2, <1>3, <1>4, <1>5, <1>6, <1>7, <1>8, <1>9, Zenon

\* The trace that is recorded for a payload.
TheTrace(p) == DeliveredTrace(p, [Message |-> [Slot |-> Trace.Slot]])

(* The parts of the invariant, over the block of this state. *)

\* What the builder handed in, what is stored of it, and what went wrong.
Taken(hd, ac, st, er) ==
  /\ hd \in [Relays -> Forks]
  /\ ac \subseteq {Submitted(f) : f \in Forks}
  /\ st \subseteq Stored
  /\ er \subseteq {"submission"} \union IF shape.early THEN {"payload", "signature"} ELSE {}

\* What the relays offer, serve and have signed.
Offered(bd, sv, sg) ==
  /\ bd \in [Relays -> SUBSET TheOffers] /\ bd["b"] \subseteq bd["a"]
  /\ \A h \in sv : \E x \in TheOffers : h.Message.Header = x.BuilderBid.Header
  /\ \A s \in sg : \E x \in TheOffers : s = BlindedBlock(x.BuilderBid.Header)

\* What is on its way from one relay to the other.
Streamed(sm, bd, st) ==
  /\ DOMAIN sm = Topics
  /\ \A m \in sm["bid"] : \E x \in bd["a"] : m.payload \in encode("bid", x)
  /\ \A m \in sm["cache"] : st # {} /\ \E p \in Readable : m.payload \in encode("cache", p)

\* What the relays keep at hand for the proposer.
Cached(ca, st) ==
  /\ DOMAIN ca = Relays
  /\ \A r \in Relays : \A e \in ca[r] : st # {} /\ e.v \in Cacheable /\ e.key = TheKey

\* What is published and recorded for the one header that is signed.
Released(sg, pb, tr) ==
  /\ (\A s, t \in sg : s = t) /\ (pb # {} => sg # {})
  /\ \A b \in pb : \A s \in sg : \E p \in Cacheable : validatePayload(p, s) /\ b = UnblindedBlock(p, s)
  /\ \A t \in tr : \E p \in Cacheable : t = TheTrace(p)

\* The invariant in this state, and in the next one over the same block.
Held == /\ Taken(head, accepted, store, errors) /\ Offered(bids, served, signed)
        /\ Streamed(stream, bids, store) /\ Cached(cache, store) /\ Released(signed, published, traces)
Kept == /\ Taken(head', accepted', store', errors') /\ Offered(bids', served', signed')
        /\ Streamed(stream', bids', store') /\ Cached(cache', store') /\ Released(signed', published', traces')

\* The parts follow from the invariant, with the key of the block by its name.
LEMMA InvariantIsHeld ==
  ASSUME shape.fork \in {"bellatrix", "capella"}, BlocksInv
  PROVE  Held
<1>1. PayloadKey(Submitted(shape.fork)) = TheKey
  BY Zenon DEF PayloadKey, Submitted, ToPayloadKey, B!ToPayloadKey, Block, TheKey
<1>2. Taken(head, accepted, store, errors) /\ Streamed(stream, bids, store)
  BY Zenon DEF BlocksInv, Taken, Streamed
<1>3. Offered(bids, served, signed)
  BY Zenon DEF BlocksInv, Offered, TheOffers
<1>4. Cached(cache, store)
  BY <1>1, Zenon DEF BlocksInv, Cached
<1>5. Released(signed, published, traces)
  BY Zenon DEF BlocksInv, Released, TheTrace
<1> QED
  BY <1>2, <1>3, <1>4, <1>5, Zenon DEF Held

\* And the invariant of the next state from the parts over the same block.
LEMMA KeptIsInvariant ==
  ASSUME shape \in Shapes, shape' = shape, shape.fork \in {"bellatrix", "capella"}, Kept
  PROVE  BlocksInv'
<1>1. PayloadKey(Submitted(shape.fork))' = TheKey
  BY Zenon DEF PayloadKey, Submitted, ToPayloadKey, B!ToPayloadKey, Block, TheKey
<1>2. (shape \in Shapes /\ head \in [Relays -> Forks])'
  BY Frozen, Zenon DEF Kept, Taken
<1>3. (accepted \subseteq {Submitted(f) : f \in Forks} /\ store \subseteq Stored)'
  BY Frozen, Zenon DEF Kept, Taken
<1>4. (bids \in [Relays -> SUBSET Offers(Submitted(shape.fork))] /\ bids["b"] \subseteq bids["a"])'
  BY Frozen, Zenon DEF Kept, Offered, TheOffers
<1>5. (DOMAIN stream = Topics /\ \A m \in stream["bid"] : \E x \in bids["a"] : m.payload \in encode("bid", x))'
  BY Frozen, Zenon DEF Kept, Streamed
<1>6. (\A m \in stream["cache"] : store # {} /\ \E p \in Readable : m.payload \in encode("cache", p))'
  BY Frozen, Zenon DEF Kept, Streamed
<1>7. (DOMAIN cache = Relays /\ \A r \in Relays : \A e \in cache[r] :
         store # {} /\ e.v \in Cacheable /\ e.key = PayloadKey(Submitted(shape.fork)))'
  BY <1>1, Frozen, Zenon DEF Kept, Cached
<1>8. (\A h \in served : \E x \in Offers(Submitted(shape.fork)) : h.Message.Header = x.BuilderBid.Header)'
  BY Frozen, Zenon DEF Kept, Offered, TheOffers
<1>9. (\A s \in signed : \E x \in Offers(Submitted(shape.fork)) : s = BlindedBlock(x.BuilderBid.Header))'
  BY Frozen DEF Kept, Offered, TheOffers
<1>10. ((\A s, t \in signed : s = t) /\ (published # {} => signed # {}))'
  BY Zenon DEF Kept, Released
<1>11. (\A b \in published : \A s \in signed : \E p \in Cacheable : validatePayload(p, s) /\ b = UnblindedBlock(p, s))'
  BY Frozen DEF Kept, Released
<1>12. (\A t \in traces : \E p \in Cacheable : t = DeliveredTrace(p, [Message |-> [Slot |-> Trace.Slot]]))'
  BY Frozen DEF Kept, Released, TheTrace
<1>13. (errors \subseteq {"submission"} \union IF shape.early THEN {"payload", "signature"} ELSE {})'
  BY Zenon DEF Kept, Taken
<1> QED
  BY <1>2, <1>3, <1>4, <1>5, <1>6, <1>7, <1>8, <1>9, <1>10, <1>11, <1>12, <1>13, Zenon DEF BlocksInv

\* The shape of the block has the types the lemmas need.
LEMMA ShapeTypes ==
  ASSUME shape \in Shapes
  PROVE  shape.fork \in {"bellatrix", "capella"} /\ shape.early \in BOOLEAN /\ shape.nil \in BOOLEAN /\ shape.txs \in Seq(Nat)
BY BlocksAssumption, Zenon

\* submitBlock accepts the builder's block or nothing, and never panics.
LEMMA SubmitBlockKeeps ==
  ASSUME shape \in Shapes, Held, DecodersUndoEncoders, submitBlock
  PROVE  Kept
<1>1. PICK enc \in IF shape.nil THEN {"json"} ELSE {"json", "ssz"} :
        /\ IF Crash \in Decode(head["a"], enc) THEN errors' = errors \union {"panic"} /\ UNCHANGED accepted
           ELSE IF \E o \in Decode(head["a"], enc) : Validate(head["a"], o.v) /\ verifyWithdrawals(head["a"], o.v)
           THEN /\ accepted' = accepted \union {[fork |-> head["a"], v |-> o.v] : o \in Decode(head["a"], enc)}
                /\ UNCHANGED errors
           ELSE errors' = errors \union {"submission"} /\ UNCHANGED accepted
        /\ UNCHANGED <<shape, head, store, bids, cache, stream, served, signed, published, traces>>
  BY Zenon DEF submitBlock
<1>2. head["a"] \in Forks /\ head["a"] \in {"bellatrix", "capella"}
  BY ShapeTypes, Zenon DEF Held, Taken, Relays, Forks
<1> DEFINE outs == Decode(head["a"], enc)
<1>3. \/ outs \subseteq {Ok(Block(shape))}
      \/ \A o \in outs : ~o.panic /\ ~verifyWithdrawals(head["a"], o.v)
  <2>1. CASE head["a"] = "capella" /\ enc = "ssz"
    <3>1. shape.fork = "capella" /\ ~shape.nil
      BY <1>2, <2>1, ShapeTypes, Zenon DEF Forks
    <3>2. outs = UnmarshalSubmitBlockRequest(request.bytes)
      BY <2>1, Zenon DEF Decode
    <3> QED
      BY <2>1, <3>1, <3>2 DEF DecodersUndoEncoders
  <2>2. CASE ~(head["a"] = "capella" /\ enc = "ssz")
    BY <2>2, Zenon DEF Decode
  <2> QED
    BY <2>1, <2>2, Zenon
<1>4. Crash \notin outs
  BY <1>3, Zenon DEF Crash, Ok
<1>5. accepted' \subseteq accepted \union {Submitted(head["a"])} /\ errors' \subseteq errors \union {"submission"}
  BY <1>1, <1>3, <1>4 DEF Ok, Submitted
<1> QED
  BY <1>1, <1>2, <1>5, Zenon DEF Held, Kept, Taken

\* storeSubmission stores and offers a form of the builder's block.
LEMMA StoreSubmissionKeeps ==
  ASSUME shape \in Shapes, Held, DecodersUndoEncoders, storeSubmission
  PROVE  Kept
<1>1. PICK s \in accepted :
        /\ accepted' = accepted \ {s}
        /\ store' = {e \in store : \A n \in Entries(s) : n.key # e.key} \union Entries(s)
        /\ bids' = [bids EXCEPT !["a"] = @ \union Offers(s)]
        /\ stream' = [stream EXCEPT !["bid"] = @ \union {[from |-> "a", payload |-> m] : m \in UNION {encode("bid", x) : x \in Offers(s)}}]
        /\ errors' = errors \union IF Offers(s) = {} THEN {"submission"}
                                   ELSE IF UNION {encode("bid", x) : x \in Offers(s)} = {} THEN {"encode"} ELSE {}
        /\ UNCHANGED <<request, shape, head, cache, served, signed, published, traces>>
  BY Zenon DEF storeSubmission
<1>2. PICK f \in Forks : s = Submitted(f)
  BY Zenon DEF Held, Taken
<1>3. Offers(s) \subseteq TheOffers
  BY <1>2, NoOffer, Zenon DEF TheOffers
<1>4. Entries(s) \subseteq Stored
  BY <1>2, Zenon DEF Stored
<1>5. \A x \in Offers(s) : encode("bid", x) # {}
  BY <1>3, Zenon DEF DecodersUndoEncoders, TheOffers
<1>6. accepted' \subseteq {Submitted(g) : g \in Forks} /\ store' \subseteq Stored
  BY <1>1, <1>4, Zenon DEF Held, Taken
<1>7. store # {} => store' # {}
  BY <1>1, Zenon
<1>8. /\ bids' \in [Relays -> SUBSET TheOffers] /\ bids'["b"] \subseteq bids'["a"]
      /\ bids["a"] \subseteq bids'["a"] /\ Offers(s) \subseteq bids'["a"]
  BY <1>1, <1>3, Zenon DEF Held, Offered, Relays
<1>9. /\ DOMAIN stream' = Topics /\ stream'["cache"] = stream["cache"]
      /\ \A m \in stream'["bid"] : m \in stream["bid"] \/ \E x \in Offers(s) : m.payload \in encode("bid", x)
  BY <1>1 DEF Held, Streamed, Topics
<1>10. errors' \subseteq errors \union {"submission"}
  BY <1>1, <1>5
<1>11. \A m \in stream'["bid"] : \E x \in bids'["a"] : m.payload \in encode("bid", x)
  BY <1>8, <1>9, Zenon DEF Held, Streamed
<1> QED
  BY <1>1, <1>6, <1>7, <1>8, <1>9, <1>10, <1>11, Zenon DEF Held, Kept, Taken, Offered, Streamed, Cached, Released

\* A decoder that succeeds does not panic.
LEMMA OkIsNotCrash ==
  ASSUME NEW x, NEW outs, outs = {Ok(x)}
  PROVE  Crash \notin outs /\ outs # {} /\ {o.v : o \in outs \ {Crash}} = {x}
<1>1. Ok(x) # Crash /\ Ok(x).v = x
  <2>1. Ok(x).panic = FALSE /\ Crash.panic = TRUE
    BY Zenon DEF Ok, Crash
  <2> QED
    BY <2>1, Zenon DEF Ok
<1> HIDE DEF Ok
<1>2. outs \ {Crash} = {Ok(x)}
  BY <1>1, Zenon
<1> QED
  BY <1>1, <1>2

\* handleBid takes over a bid of the other relay.
LEMMA HandleBidKeeps ==
  ASSUME shape \in Shapes, Held, DecodersUndoEncoders, handleBid
  PROVE  Kept
<1>1. PICK m \in stream["bid"] :
        /\ bids' = [bids EXCEPT !["b"] = @ \union {o.v : o \in decode("bid", m.payload) \ {Crash}}]
        /\ errors' = errors \union IF Crash \in decode("bid", m.payload) THEN {"panic"}
                                   ELSE IF decode("bid", m.payload) = {} THEN {"decode"} ELSE {}
        /\ UNCHANGED <<request, shape, head, accepted, store, cache, stream, served, signed, published, traces>>
  BY Zenon DEF handleBid
<1>2. PICK x \in bids["a"] : m.payload \in encode("bid", x)
  BY Zenon DEF Held, Streamed
<1>3. x \in TheOffers
  BY Zenon DEF Held, Offered, Relays
<1>4. decode("bid", m.payload) = {Ok(x)}
  BY <1>2, <1>3, Zenon DEF DecodersUndoEncoders, TheOffers
<1>5. errors' = errors /\ bids' = [bids EXCEPT !["b"] = @ \union {x}]
  BY <1>1, <1>4, OkIsNotCrash, Zenon
<1>6. bids' \in [Relays -> SUBSET TheOffers] /\ bids'["b"] \subseteq bids'["a"] /\ bids'["a"] = bids["a"]
  BY <1>3, <1>5, Zenon DEF Held, Offered, Relays
<1> QED
  BY <1>1, <1>5, <1>6, Zenon DEF Held, Kept, Offered, Streamed

\* The key of a payload that is decoded from the stream is that of the block.
LEMMA CacheableKey ==
  ASSUME shape \in Shapes, NEW p \in Cacheable
  PROVE  CacheKey(p) = TheKey
<1>1. Alike(p)
  BY CacheableFacts, ShapeTypes, Zenon
<1>2. p.Payload.Data.BlockHash = Trace.BlockHash
  BY <1>1, DataFields, Zenon DEF Alike, PayloadNames, HeaderNames
<1>3. p.Trace.Message = Trace
  BY <1>1 DEF Alike, SignedTrace
<1> QED
  BY <1>2, <1>3, Zenon DEF CacheKey, TheKey

\* handleCache takes over a payload of the other relay.
LEMMA HandleCacheKeeps ==
  ASSUME shape \in Shapes, Held, DecodersUndoEncoders, NEW r \in Relays, handleCache(r)
  PROVE  Kept
<1> DEFINE new(m) == {o.v : o \in decode("cache", m.payload) \ {Crash}}
<1>1. PICK m \in stream["cache"] :
        /\ cache' = [cache EXCEPT ![r] = @ \union {[key |-> CacheKey(x), v |-> x] :
             x \in {x \in new(m) : \A e \in cache[r] : e.key # CacheKey(x)}}]
        /\ errors' = errors \union IF Crash \in decode("cache", m.payload) THEN {"panic"}
                                   ELSE IF decode("cache", m.payload) = {} THEN {"decode"} ELSE {}
        /\ UNCHANGED <<request, shape, head, accepted, store, bids, stream, served, signed, published, traces>>
  BY Zenon DEF handleCache
<1>2. store # {} /\ \E p \in Readable : m.payload \in encode("cache", p)
  BY Zenon DEF Held, Streamed
<1>3. PICK p \in Readable : m.payload \in encode("cache", p)
  BY <1>2, Zenon
<1>4. PICK q \in {p, NotNil(p)} : decode("cache", m.payload) = {Ok(q)}
  BY <1>3, Zenon DEF DecodersUndoEncoders
<1>5. q \in Cacheable
  BY Zenon DEF Cacheable
<1>6. errors' = errors /\ new(m) = {q}
  BY <1>1, <1>4, OkIsNotCrash, Zenon
<1> HIDE DEF new
<1>7. /\ DOMAIN cache' = Relays
      /\ \A s \in Relays : \A e \in cache'[s] : e \in cache[s] \/ e = [key |-> CacheKey(q), v |-> q]
  BY <1>1, <1>6, Zenon DEF Held, Cached
<1>8. \A s \in Relays : \A e \in cache'[s] : store # {} /\ e.v \in Cacheable /\ e.key = TheKey
  BY <1>2, <1>5, <1>7, CacheableKey DEF Held, Cached
<1> QED
  BY <1>1, <1>6, <1>7, <1>8, Zenon DEF Held, Kept, Cached

\* GetHeader serves the header of a bid.
LEMMA GetHeaderKeeps ==
  ASSUME shape \in Shapes, Held, NEW r \in Relays, GetHeader(r)
  PROVE  Kept
<1> DEFINE bid(x) == [Header |-> x.BuilderBid.Header, Value |-> x.BuilderBid.Value, Pubkey |-> RelayKey]
           roots(x) == IF shape.fork = "capella" THEN BuilderBidRoot(bid(x)) ELSE B!BuilderBidRoot(bid(x))
<1>1. PICK x \in bids[r] :
        /\ served' = served \union {[by |-> r, Message |-> bid(x), Signature |-> <<"signed", root>>] : root \in roots(x)}
        /\ errors' = errors \union IF roots(x) = {} THEN {"header"} ELSE {}
        /\ UNCHANGED <<request, shape, head, accepted, store, bids, cache, stream, signed, published, traces>>
  BY Zenon DEF GetHeader
<1>2. x \in TheOffers
  BY Zenon DEF Held, Offered
<1>3. bid(x).Header = x.BuilderBid.Header
  BY Zenon
<1>4. roots(x) # {}
  <2>1. /\ shape.fork = "capella" => HeaderRoot(bid(x).Header) # {}
        /\ shape.fork = "bellatrix" => B!HeaderRoot(bid(x).Header) # {}
    BY <1>2, <1>3, OfferFacts, ShapeTypes, Zenon DEF TheOffers
  <2> HIDE DEF bid
  <2> QED
    BY <2>1, ShapeTypes, Zenon DEF BuilderBidRoot, B!BuilderBidRoot
<1> HIDE DEF bid, roots
<1>5. errors' = errors /\ \A h \in served' : h \in served \/ h.Message = bid(x)
  BY <1>1, <1>4
<1>6. \A h \in served' : \E y \in TheOffers : h.Message.Header = y.BuilderBid.Header
  BY <1>2, <1>3, <1>5, Zenon DEF Held, Offered
<1> QED
  BY <1>1, <1>5, <1>6, Zenon DEF Held, Kept, Offered

\* What the store gives is readable.
LEMMA StoreIsReadable ==
  ASSUME Held, NEW key
  PROVE  DatastoreGetPayload(key) \subseteq Readable /\ (DatastoreGetPayload(key) # {} => store # {})
BY Zenon DEF Held, Taken, DatastoreGetPayload, Readable

\* cachePayload caches and streams what the store gives.
LEMMA CachePayloadKeeps ==
  ASSUME shape \in Shapes, Held, DecodersUndoEncoders, NEW r \in Relays, cachePayload(r)
  PROVE  Kept
<1> DEFINE key(x) == <<x.BuilderBid.Header.BlockHash, x.Proposer, x.Slot>>
<1>1. PICK x \in bids[r] : \E p \in DatastoreGetPayload(key(x)) :
        /\ cache' = [cache EXCEPT ![r] = @ \union {[key |-> key(x), v |-> p]}]
        /\ stream' = [stream EXCEPT !["cache"] = @ \union {[from |-> r, payload |-> m] : m \in encode("cache", p)}]
        /\ errors' = errors \union IF encode("cache", p) = {} THEN {"encode"} ELSE {}
        /\ UNCHANGED <<request, shape, head, accepted, store, bids, served, signed, published, traces>>
  BY Zenon DEF cachePayload
<1>2. x \in TheOffers
  BY Zenon DEF Held, Offered
<1>3. key(x) = TheKey
  <2>1. x.BuilderBid.Header.BlockHash = Trace.BlockHash /\ x.Proposer = Trace.ProposerPubkey /\ x.Slot = Trace.Slot
    BY <1>2, OfferFacts, ShapeTypes, DataFields, Zenon DEF TheOffers, HeaderNames
  <2> QED
    BY <2>1, Zenon DEF TheKey
<1> HIDE DEF key
<1>4. PICK p \in DatastoreGetPayload(key(x)) :
        /\ cache' = [cache EXCEPT ![r] = @ \union {[key |-> key(x), v |-> p]}]
        /\ stream' = [stream EXCEPT !["cache"] = @ \union {[from |-> r, payload |-> m] : m \in encode("cache", p)}]
        /\ errors' = errors \union IF encode("cache", p) = {} THEN {"encode"} ELSE {}
        /\ UNCHANGED <<request, shape, head, accepted, store, bids, served, signed, published, traces>>
  BY <1>1, Zenon
<1>5. p \in Readable /\ store # {}
  BY StoreIsReadable, Zenon
<1>6. errors' = errors
  BY <1>4, <1>5, Zenon DEF DecodersUndoEncoders
<1>7. /\ DOMAIN cache' = Relays
      /\ \A s \in Relays : \A e \in cache'[s] : store # {} /\ e.v \in Cacheable /\ e.key = TheKey
  <2>1. \A s \in Relays : \A e \in cache'[s] : e \in cache[s] \/ e = [key |-> TheKey, v |-> p]
    BY <1>3, <1>4, Zenon DEF Held, Cached
  <2>2. DOMAIN cache' = Relays
    BY <1>4, Zenon DEF Held, Cached
  <2> QED
    BY <1>5, <2>1, <2>2 DEF Held, Cached, Cacheable
<1>8. /\ DOMAIN stream' = Topics /\ stream'["bid"] = stream["bid"]
      /\ \A m \in stream'["cache"] : \E q \in Readable : m.payload \in encode("cache", q)
  <2>1. /\ DOMAIN stream' = Topics /\ stream'["bid"] = stream["bid"]
        /\ \A m \in stream'["cache"] : m \in stream["cache"] \/ m.payload \in encode("cache", p)
    BY <1>4 DEF Held, Streamed, Topics
  <2> QED
    BY <1>5, <2>1, Zenon DEF Held, Streamed
<1> QED
  BY <1>4, <1>5, <1>6, <1>7, <1>8, Zenon DEF Held, Kept, Streamed, Cached

\* The proposer signs a header that was served, once.
LEMMA SignKeeps ==
  ASSUME Held, Sign
  PROVE  Kept
<1>1. PICK h \in served : signed' = {BlindedBlock(h.Message.Header)}
  BY Zenon DEF Sign
<1>2. \E x \in TheOffers : h.Message.Header = x.BuilderBid.Header
  BY Zenon DEF Held, Offered
<1>3. published = {} /\ published' = {}
  BY Zenon DEF Sign, Held, Released
<1> QED
  BY <1>1, <1>2, <1>3, Zenon DEF Sign, Held, Kept, Offered, Released

\* GetPayload publishes what it validated; within a fork it refuses nothing.
LEMMA GetPayloadKeeps ==
  ASSUME shape \in Shapes, Held, NEW r \in Relays, GetPayload(r)
  PROVE  Kept
<1>1. PICK s \in signed : \E p \in Payloads(r, BlindedKey(s)) :
        /\ IF head[r] # shape.fork THEN errors' = errors \union {"signature"} /\ UNCHANGED <<published, traces>>
           ELSE IF ~validatePayload(p, s) THEN errors' = errors \union {"payload"} /\ UNCHANGED <<published, traces>>
           ELSE /\ published' = published \union {UnblindedBlock(p, s)}
                /\ traces' = traces \union {DeliveredTrace(p, s)}
                /\ UNCHANGED errors
        /\ UNCHANGED <<request, shape, head, accepted, store, bids, cache, stream, served, signed>>
  BY Zenon DEF GetPayload
<1>2. PICK p \in Payloads(r, BlindedKey(s)) :
        /\ IF head[r] # shape.fork THEN errors' = errors \union {"signature"} /\ UNCHANGED <<published, traces>>
           ELSE IF ~validatePayload(p, s) THEN errors' = errors \union {"payload"} /\ UNCHANGED <<published, traces>>
           ELSE /\ published' = published \union {UnblindedBlock(p, s)}
                /\ traces' = traces \union {DeliveredTrace(p, s)}
                /\ UNCHANGED errors
        /\ UNCHANGED <<request, shape, head, accepted, store, bids, cache, stream, served, signed>>
  BY <1>1, Zenon
<1>3. p \in Cacheable
  BY StoreIsReadable, Zenon DEF Held, Cached, Payloads, Cacheable
<1>4. PICK x \in TheOffers : s = BlindedBlock(x.BuilderBid.Header)
  BY Zenon DEF Held, Offered
<1>5. DeliveredTrace(p, s) = TheTrace(p)
  BY <1>4, BlindedFields, Zenon DEF DeliveredTrace, TheTrace
<1>6. CASE head[r] # shape.fork
  <2>1. shape.early
    BY <1>6, ShapeTypes, Zenon DEF Held, Taken, Forks
  <2> QED
    BY <1>2, <1>6, <2>1, Zenon DEF Held, Kept, Taken
<1>7. CASE head[r] = shape.fork /\ ~validatePayload(p, s)
  <2>1. shape.early
    BY <1>3, <1>4, <1>7, ShapeTypes, Validates, Zenon DEF TheOffers
  <2> QED
    BY <1>2, <1>7, <2>1, Zenon DEF Held, Kept, Taken
<1>8. CASE head[r] = shape.fork /\ validatePayload(p, s)
  <2>1. \A b \in published' : \A t \in signed' : \E q \in Cacheable : validatePayload(q, t) /\ b = UnblindedBlock(q, t)
    BY <1>2, <1>3, <1>8 DEF Held, Released
  <2>2. \A t \in traces' : \E q \in Cacheable : t = TheTrace(q)
    BY <1>2, <1>3, <1>5, <1>8, Zenon DEF Held, Released
  <2> QED
    BY <1>2, <1>8, <2>1, <2>2, Zenon DEF Held, Kept, Released
<1> QED
  BY <1>6, <1>7, <1>8, Zenon

\* The steps of the heads.
LEMMA NewHeadKeeps ==
  ASSUME Held, NEW r \in Relays, NewHead(r)
  PROVE  Kept
<1>1. shape.fork \in Forks
  BY Zenon DEF Forks
<1> QED
  BY <1>1, Zenon DEF NewHead, Held, Kept, Taken

\* At first the relays hold nothing.
LEMMA InitHolds == Init => BlocksInv
<1> SUFFICES ASSUME Init PROVE BlocksInv
  BY Zenon
<1>1. shape \in Shapes /\ head \in [Relays -> Forks]
  BY ShapeTypes, Zenon DEF Init, Forks
<1>2. /\ bids \in [Relays -> SUBSET Offers(Submitted(shape.fork))] /\ bids["b"] \subseteq bids["a"]
      /\ DOMAIN stream = Topics /\ stream["bid"] = {} /\ stream["cache"] = {}
      /\ DOMAIN cache = Relays /\ \A r \in Relays : cache[r] = {}
  BY Zenon DEF Init, Relays, Topics
<1> QED
  BY <1>1, <1>2, Zenon DEF Init, BlocksInv

\* Everything the relays hold, stream, serve and publish is a form of the block.
LEMMA BlocksInvariant == Spec /\ []DecodersUndoEncoders => []BlocksInv
<1>1. BlocksInv /\ DecodersUndoEncoders /\ [Next]_vars => BlocksInv'
  <2> SUFFICES ASSUME BlocksInv, DecodersUndoEncoders, [Next]_vars
               PROVE  BlocksInv'
    BY Zenon
  <2>1. shape \in Shapes
    BY Zenon DEF BlocksInv
  <2>2. Held
    BY <2>1, ShapeTypes, InvariantIsHeld, Zenon
  <2>3. shape' = shape
    <3>1. submitBlock \/ storeSubmission \/ handleBid \/ Sign => shape' = shape
      BY Zenon DEF submitBlock, storeSubmission, handleBid, Sign
    <3>2. \A r \in Relays : NewHead(r) \/ handleCache(r) \/ GetHeader(r) => shape' = shape
      BY Zenon DEF NewHead, handleCache, GetHeader
    <3>3. \A r \in Relays : cachePayload(r) \/ GetPayload(r) => shape' = shape
      BY Zenon DEF cachePayload, GetPayload
    <3> QED
      BY <3>1, <3>2, <3>3, Zenon DEF Next, vars
  <2>4. Kept
    <3>1. CASE UNCHANGED vars
      <4>1. /\ head' = head /\ accepted' = accepted /\ store' = store /\ bids' = bids /\ cache' = cache
            /\ stream' = stream /\ served' = served /\ signed' = signed /\ published' = published
            /\ traces' = traces /\ errors' = errors
        BY <3>1, Zenon DEF vars
      <4> QED
        BY <2>2, <4>1, Zenon DEF Held, Kept
    <3> QED
      BY <2>1, <2>2, <3>1, SubmitBlockKeeps, StoreSubmissionKeeps, HandleBidKeeps, SignKeeps, NewHeadKeeps,
         HandleCacheKeeps, GetHeaderKeeps, CachePayloadKeeps, GetPayloadKeeps, Zenon DEF Next
  <2> QED
    BY <2>1, <2>3, <2>4, ShapeTypes, KeptIsInvariant, Zenon
<1> QED
  BY <1>1, InitHolds, PTL DEF Spec

---------------------------------------------------------------------------
(* The theorems *)

\* Within a fork, every header that is served is redeemed: no object fails to
\* encode, decode or hash, and no payload is refused (validatePayload).
THEOREM RedeemableTheorem == Spec /\ []DecodersUndoEncoders => []HeaderIsRedeemable
<1>1. BlocksInv => HeaderIsRedeemable
  BY ShapeTypes, Zenon DEF BlocksInv, HeaderIsRedeemable
<1> QED
  BY <1>1, BlocksInvariant, PTL

\* A bid or payload that came by the stream is one of the relay that sent it.
THEOREM RemoteTheorem == Spec /\ []DecodersUndoEncoders => []RemoteIsLocal
<1>1. BlocksInv => RemoteIsLocal
  <2> SUFFICES ASSUME BlocksInv, shape.early = FALSE, NEW r \in Relays, NEW e \in cache[r]
               PROVE  \E l \in store : /\ l.key = e.key /\ l.v.Trace = e.v.Trace
                                       /\ SameBlock(l.v.Payload.Data, e.v.Payload.Data)
    BY ShapeTypes, Zenon DEF BlocksInv, RemoteIsLocal
  <2>1. Held /\ shape \in Shapes
    BY InvariantIsHeld, ShapeTypes, Zenon DEF BlocksInv
  <2>2. PICK l \in store : TRUE
    BY <2>1, Zenon DEF Held, Cached
  <2>3. e.key = TheKey /\ e.v \in Cacheable
    BY <2>1, Zenon DEF Held, Cached
  <2>4. l \in Entries(Submitted(shape.fork)) /\ l \in Stored
    BY <2>1, Zenon DEF Held, Taken, Stored, Forks
  <2>5. l.key = TheKey /\ l.fork = shape.fork
    BY <2>1, <2>4, StoredForms, ShapeTypes, Zenon
  <2>6. l.v \in Cacheable
    BY <2>4, <2>5, Zenon DEF Readable, Read, Cacheable
  <2>7. l.v.Trace = e.v.Trace /\ WholeData(l.v) /\ WholeData(e.v)
    BY <2>1, <2>3, <2>6, CacheableFacts, ShapeTypes, Zenon DEF Alike
  <2>8. SameBlock(l.v.Payload.Data, e.v.Payload.Data)
    BY <2>7, DataFields, Zenon DEF SameBlock, WholeData, PayloadNames
  <2> QED
    BY <2>3, <2>5, <2>7, <2>8, Zenon
<1> QED
  BY <1>1, BlocksInvariant, PTL

\* The trace of a submission, as it is stored.
LEMMA TraceOfContents ==
  ASSUME NEW f \in {"bellatrix", "capella"}, NEW c \in Contents(Submitted(f)), NEW g \in DOMAIN Trace
  PROVE  c.Trace[g] = Trace[g]
<1> DEFINE kept == [Trace EXCEPT !.ParentHash = Data.ParentHash, !.BlockHash = Data.BlockHash]
           more == [BlockNumber |-> Data.BlockNumber, NumTx |-> Len(Data.Transactions)]
<1>1. c.Trace = Merged(kept, more) \/ c.Trace = B!Merged(kept, more)
  BY CapellaContents, BellatrixContents, Zenon
<1>2. DOMAIN kept = DOMAIN Trace /\ kept[g] = Trace[g]
  BY DataFields, Zenon
<1> HIDE DEF kept, more
<1> QED
  BY <1>1, <1>2, Zenon DEF Merged, B!Merged

\* The trace that is recorded for a delivery, over a payload of a relay.
LEMMA TraceOfDelivery ==
  ASSUME shape \in Shapes, NEW p \in Cacheable
  PROVE  /\ \A f \in DOMAIN Trace : TheTrace(p)[f] = Trace[f]
         /\ TheTrace(p).BlockNumber = Data.BlockNumber /\ TheTrace(p).NumTx = Len(shape.txs)
         /\ TheTrace(p).Timestamp = Data.Timestamp
<1>1. Alike(p)
  BY CacheableFacts, ShapeTypes, Zenon
<1>2. p.Trace.Message = Trace
  BY <1>1 DEF Alike, SignedTrace
<1>3. /\ p.Payload.Data.ParentHash = Trace.ParentHash /\ p.Payload.Data.BlockHash = Trace.BlockHash
      /\ p.Payload.Data.GasLimit = Trace.GasLimit /\ p.Payload.Data.GasUsed = Trace.GasUsed
  BY <1>1, DataFields, Zenon DEF Alike, PayloadNames, HeaderNames
<1>4. /\ p.Payload.Data.BlockNumber = Data.BlockNumber /\ p.Payload.Data.Timestamp = Data.Timestamp
      /\ p.Payload.Data.Transactions = Data.Transactions
  BY <1>1, Zenon DEF Alike, PayloadNames, HeaderNames
<1>5. Len(Data.Transactions) = Len(shape.txs)
  BY ShapeTypes DEF Data, Payload
<1>6. DOMAIN Trace = {"Slot", "ParentHash", "BlockHash", "BuilderPubkey", "ProposerPubkey", "ProposerFeeRecipient",
                      "GasLimit", "GasUsed", "Value"}
  BY Zenon DEF Trace
<1>7. TheTrace(p) =
        [Slot |-> Trace.Slot, ParentHash |-> Trace.ParentHash, BlockHash |-> Trace.BlockHash,
         BuilderPubkey |-> Trace.BuilderPubkey, ProposerPubkey |-> Trace.ProposerPubkey,
         ProposerFeeRecipient |-> Trace.ProposerFeeRecipient, GasLimit |-> Trace.GasLimit,
         GasUsed |-> Trace.GasUsed, Value |-> Trace.Value, BlockNumber |-> Data.BlockNumber,
         NumTx |-> Len(shape.txs), Timestamp |-> Data.Timestamp]
  BY <1>2, <1>3, <1>4, <1>5, Zenon DEF TheTrace, DeliveredTrace, ToDeliveredTrace, B!ToDeliveredTrace
<1> QED
  BY <1>6, <1>7

\* What is stored, offered and recorded is the builder's block, and no body
\* makes a decoder panic, wherever the size limit cuts it.
THEOREM StoredTheorem == Spec /\ []DecodersUndoEncoders => []StoredIsSubmitted
<1>1. BlocksInv => StoredIsSubmitted
  <2> SUFFICES ASSUME BlocksInv PROVE StoredIsSubmitted
    BY Zenon
  <2>1. Held /\ shape \in Shapes
    BY InvariantIsHeld, ShapeTypes, Zenon DEF BlocksInv
  <2>2. "panic" \notin errors
    BY <2>1, Zenon DEF Held, Taken
  <2>3. Forks \subseteq {"bellatrix", "capella"}
    BY <2>1, ShapeTypes, Zenon DEF Forks
  <2>4. \A s \in accepted : \A c \in Contents(s) : \A f \in DOMAIN Trace : c.Trace[f] = Trace[f]
    BY <2>1, <2>3, TraceOfContents, Zenon DEF Held, Taken
  <2>5. ASSUME NEW e \in store
        PROVE  e.v.Trace.Message = Trace /\ SameBlock(e.v.Payload.Data, Payload(shape))
    <3>1. PICK f \in Forks : e \in Entries(Submitted(f))
      BY <2>1, Zenon DEF Held, Taken, Stored
    <3>2. PICK c \in Contents(Submitted(f)) : e.v = c.Payload
      BY <2>3, <3>1, StoredForms, Zenon
    <3>3. c.Payload.Trace = SignedTrace /\ c.Payload.Payload.Data = Data
      <4>1. CASE f = "capella"
        <5>1. PICK h \in PayloadToPayloadHeader(Data) : \E root \in HeaderRoot(h) :
                c.Payload = [Trace |-> SignedTrace, Payload |-> [Version |-> Chunk("capella", 0, 7), Data |-> Data],
                             ExecutionHeaderHash |-> RootBytes(root)]
          BY <4>1, CapellaContents, Zenon
        <5> QED
          BY <5>1
      <4>2. CASE f = "bellatrix"
        <5>1. PICK sbb :
                c.Payload = [Trace |-> SignedTrace, Bid |-> [Version |-> B!Chunk("bellatrix", 0, 9), Data |-> sbb],
                             Payload |-> [Version |-> B!Chunk("bellatrix", 0, 9), Data |-> Data]]
          BY <4>2, BellatrixContents, Zenon
        <5> QED
          BY <5>1
      <4> QED
        BY <2>3, <4>1, <4>2, Zenon
    <3> QED
      BY <3>2, <3>3 DEF SameBlock, SignedTrace, Data
  <2>6. ASSUME NEW r \in Relays, NEW x \in bids[r]
        PROVE  /\ x.BuilderBid.Value = Trace.Value /\ x.Proposer = Trace.ProposerPubkey /\ x.Slot = Trace.Slot
               /\ \A f \in DOMAIN x.BuilderBid.Header \cap DOMAIN Payload(shape) : x.BuilderBid.Header[f] = Payload(shape)[f]
    <3>1. x \in Offers(Submitted(shape.fork))
      BY <2>1, Zenon DEF Held, Offered, TheOffers
    <3>2. DOMAIN Payload(shape) = PayloadNames
      BY DataFields, Zenon DEF Data
    <3> QED
      BY <2>1, <3>1, <3>2, OfferFacts, ShapeTypes, Zenon DEF Data
  <2>7. ASSUME NEW t \in traces
        PROVE  /\ \A f \in DOMAIN Trace : t[f] = Trace[f]
               /\ t.BlockNumber = Payload(shape).BlockNumber /\ t.NumTx = Len(shape.txs)
               /\ t.Timestamp = Payload(shape).Timestamp
    BY <2>1, TraceOfDelivery DEF Held, Released, Data
  <2> QED
    BY <2>2, <2>4, <2>5, <2>6, <2>7, Zenon DEF StoredIsSubmitted
<1> QED
  BY <1>1, BlocksInvariant, PTL

\* The fields of a body that a blinded one has too.
BodyNames == {"RandaoReveal", "Eth1Data", "Graffiti", "ProposerSlashings", "AttesterSlashings", "Attestations",
              "Deposits", "VoluntaryExits", "SyncAggregate", "BLSToExecutionChanges"}

\* A body has the root of another with the same fields.
LEMMA SameBodyRoot ==
  ASSUME NEW b, NEW c, NEW h, \A f \in BodyNames : b[f] = c[f]
  PROVE  BodyRoot(b, h) = BodyRoot(c, h)
<1>1. /\ b.RandaoReveal = c.RandaoReveal /\ b.Eth1Data = c.Eth1Data /\ b.Graffiti = c.Graffiti
      /\ b.ProposerSlashings = c.ProposerSlashings /\ b.AttesterSlashings = c.AttesterSlashings
      /\ b.Attestations = c.Attestations /\ b.Deposits = c.Deposits /\ b.VoluntaryExits = c.VoluntaryExits
      /\ b.SyncAggregate = c.SyncAggregate /\ b.BLSToExecutionChanges = c.BLSToExecutionChanges
  BY Zenon DEF BodyNames
<1> QED
  BY <1>1, Zenon DEF BodyRoot

\* ToBeaconBlock puts the payload in the place of the header and keeps the rest.
LEMMA UnblindedFields ==
  ASSUME NEW header, NEW data, NEW s, s = BlindedBlock(header), NEW b, b = ToBeaconBlock(s, data)
  PROVE  /\ \A f \in BodyNames : b.Message.Body[f] = s.Message.Body[f]
         /\ b.Message.Body.ExecutionPayload = data
         /\ \A f \in {"Slot", "ProposerIndex", "ParentRoot", "StateRoot"} : b.Message[f] = s.Message[f]
         /\ s.Message.Body.Eth1Data # << >> /\ s.Message.Body.SyncAggregate # << >>
<1> DEFINE m == s.Message
           body == m.Body
<1>1. /\ DOMAIN m = {"Slot", "ProposerIndex", "ParentRoot", "StateRoot", "Body"}
      /\ DOMAIN body = BodyNames \union {"ExecutionPayloadHeader"}
      /\ body.Eth1Data = Chunk("Eth1Data", 1, 72) /\ body.SyncAggregate = Chunk("SyncAggregate", 1, 160)
  BY Zenon DEF BlindedBlock, BodyNames
<1>2. body.Eth1Data # << >> /\ body.SyncAggregate # << >>
  BY <1>1 DEF Chunk, Named
<1> DEFINE new == [ExecutionPayload |-> data, Eth1Data |-> body.Eth1Data, SyncAggregate |-> body.SyncAggregate]
           old == [f \in DOMAIN body \ {"ExecutionPayloadHeader", "Eth1Data", "SyncAggregate"} |-> body[f]]
<1>3. b.Message = [m EXCEPT !.Body = Merged(new, old)]
  BY <1>2, Zenon DEF ToBeaconBlock
<1>4. /\ DOMAIN new = {"ExecutionPayload", "Eth1Data", "SyncAggregate"}
      /\ new.ExecutionPayload = data /\ new.Eth1Data = body.Eth1Data /\ new.SyncAggregate = body.SyncAggregate
  BY Zenon
<1>5. \A f \in BodyNames \ {"Eth1Data", "SyncAggregate"} : f \in DOMAIN old /\ f \notin DOMAIN new /\ old[f] = body[f]
  BY <1>1, <1>4, Zenon DEF BodyNames
<1> HIDE DEF new, old, m, body
<1>6. /\ \A f \in DOMAIN new : Merged(new, old)[f] = new[f]
      /\ \A f \in DOMAIN old : f \notin DOMAIN new => Merged(new, old)[f] = old[f]
  BY MergedFields, Zenon
<1>7. b.Message.Body = Merged(new, old)
      /\ \A f \in {"Slot", "ProposerIndex", "ParentRoot", "StateRoot"} : b.Message[f] = m[f]
  BY <1>1, <1>3
<1>8. Merged(new, old).ExecutionPayload = data
      /\ \A f \in BodyNames : Merged(new, old)[f] = body[f]
  BY <1>4, <1>5, <1>6, Zenon
<1> QED
  BY <1>2, <1>7, <1>8, Zenon DEF m, body

\* Withdrawals that are not nil stay as they are.
LEMMA NotNilIsSame ==
  ASSUME NEW d, d = [f \in DOMAIN d |-> d[f]], d.Withdrawals.nil = FALSE,
         d.Withdrawals = [f \in DOMAIN d.Withdrawals |-> d.Withdrawals[f]]
  PROVE  [d EXCEPT !.Withdrawals.nil = FALSE] = d
<1> DEFINE w == d.Withdrawals
<1>1. [w EXCEPT !.nil = FALSE] = w
  BY Zenon
<1> HIDE DEF w
<1>2. [d EXCEPT !.Withdrawals = w] = d
  BY Zenon DEF w
<1> QED
  BY <1>1, <1>2, Zenon DEF w

\* The signature of the proposer covers the block that is published: its hash
\* tree root, with the whole payload in it, is that of the blinded block.
THEOREM PublishedRootTheorem == Spec /\ []DecodersUndoEncoders => []PublishedKeepsRoot
<1>1. BlocksInv => PublishedKeepsRoot
  <2> SUFFICES ASSUME BlocksInv, shape.fork = "capella", ~shape.nil, NEW b \in published, NEW s \in signed
               PROVE  {BlockRoot(b.Message, root) : root \in UNION {BodyRoot(b.Message.Body, p) :
                         p \in PayloadRoot(b.Message.Body.ExecutionPayload)}} = ComputeSigningRoot(s)
    BY Zenon DEF PublishedKeepsRoot
  <2>1. Held /\ shape \in Shapes
    BY InvariantIsHeld, ShapeTypes, Zenon DEF BlocksInv
  <2>2. PICK x \in TheOffers : s = BlindedBlock(x.BuilderBid.Header)
    BY <2>1, Zenon DEF Held, Offered
  <2>3. PICK p \in Cacheable : validatePayload(p, s) /\ b = UnblindedBlock(p, s)
    BY <2>1, Zenon DEF Held, Released
  <2>4. p.Payload.Data = Data
    <3>1. WholeData(p)
      BY <2>1, <2>3, ValidatedIsWhole, ShapeTypes, Zenon
    <3>2. Data.Withdrawals.nil = FALSE
      BY <2>1, DataFields, ShapeTypes, Zenon
    <3>3. Data = [f \in DOMAIN Data |-> Data[f]]
      BY Zenon DEF Data, Payload
    <3>4. Data.Withdrawals = [f \in DOMAIN Data.Withdrawals |-> Data.Withdrawals[f]]
      BY Zenon DEF Data, Payload
    <3>5. [Data EXCEPT !.Withdrawals.nil = FALSE] = Data
      BY <3>2, <3>3, <3>4, NotNilIsSame, Zenon
    <3> QED
      BY <3>1, <3>5, Zenon DEF WholeData
  <2> DEFINE header == x.BuilderBid.Header
  <2>5. s = BlindedBlock(header) /\ b = ToBeaconBlock(s, Data)
    BY <2>2, <2>3, <2>4, Zenon DEF UnblindedBlock
  <2>6. HeaderRoot(header) = PayloadRoot(Data)
    BY <2>1, OfferFacts, ShapeTypes, DataFields, HeaderRootIsPayloadRoot, Zenon DEF TheOffers
  <2> HIDE DEF header
  <2>7. /\ \A f \in BodyNames : b.Message.Body[f] = s.Message.Body[f]
        /\ b.Message.Body.ExecutionPayload = Data
        /\ \A f \in {"Slot", "ProposerIndex", "ParentRoot", "StateRoot"} : b.Message[f] = s.Message[f]
        /\ s.Message.Body.Eth1Data # << >> /\ s.Message.Body.SyncAggregate # << >>
    BY <2>5, UnblindedFields
  <2>8. s.Message.Body.ExecutionPayloadHeader = header
    BY <2>5, BlindedFields, Zenon
  <2>9. \A h : BodyRoot(b.Message.Body, h) = BodyRoot(s.Message.Body, h)
    BY <2>7, SameBodyRoot
  <2>10. \A root : BlockRoot(b.Message, root) = BlockRoot(s.Message, root)
    BY <2>7 DEF BlockRoot, Leaves
  <2>11. ComputeSigningRoot(s) = {BlockRoot(s.Message, root) :
           root \in UNION {BodyRoot(s.Message.Body, h) : h \in HeaderRoot(header)}}
    BY <2>7, <2>8, Zenon DEF ComputeSigningRoot, BlindedBlockRoot, BlindedBodyRoot
  <2> QED
    BY <2>6, <2>7, <2>9, <2>10, <2>11
<1> QED
  BY <1>1, BlocksInvariant, PTL
=============================================================================
