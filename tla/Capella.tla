------------------------------ MODULE Capella ------------------------------
(***************************************************************************)
(* structs/forks/capella and structs/withdrawals.go: the SSZ encoders,     *)
(* decoders, sizes and hash tree roots of the Capella types, and the       *)
(* conversions from one type to another.  An object is a record of byte    *)
(* strings with the field names of the Go struct, without the prefixes     *)
(* "Ep" and "Capella".  Encoder, decoder and size of a type are            *)
(* transcribed separately, each from its own function: that they agree is  *)
(* what Blocks.tla checks.                                                 *)
(***************************************************************************)
EXTENDS Bytes

Fields(x, names) == Cat([i \in DOMAIN names |-> x[names[i]]])
Leaves(x, names) == [i \in DOMAIN names |-> Leaf(x[names[i]])]

---------------------------------------------------------------------------
(* structs/withdrawals.go.  A Withdrawals value is nil or a list. *)

MarshalWithdrawal(w) == Fields(w, <<"Index", "ValidatorIndex", "Address", "Amount">>)

UnmarshalWithdrawal(s) ==
  IF Size(s) # 44 THEN {}
  ELSE {[Index |-> Slice(s, 0, 8), ValidatorIndex |-> Slice(s, 8, 16),
         Address |-> Slice(s, 16, 36), Amount |-> Slice(s, 36, 44)]}

WithdrawalRoot(w) == Merkleize(Leaves(w, <<"Index", "ValidatorIndex", "Address", "Amount">>))

(* The root of a container whose only field is the list. *)
HashWithdrawals(ws) == IF Len(ws) > 16 THEN {} ELSE {Merkleize(<<ListRoot([i \in DOMAIN ws |-> WithdrawalRoot(ws[i])], 16)>>)}

---------------------------------------------------------------------------
(* BidTrace and SignedBidTrace *)

MarshalBidTrace(t) ==
  Fields(t, <<"Slot", "ParentHash", "BlockHash", "BuilderPubkey", "ProposerPubkey",
              "ProposerFeeRecipient", "GasLimit", "GasUsed", "Value">>)

UnmarshalBidTrace(s) ==
  IF Size(s) < 236 THEN {}
  ELSE {[Slot |-> Slice(s, 0, 8), ParentHash |-> Slice(s, 8, 40), BlockHash |-> Slice(s, 40, 72),
         BuilderPubkey |-> Slice(s, 72, 120), ProposerPubkey |-> Slice(s, 120, 168),
         ProposerFeeRecipient |-> Slice(s, 168, 188), GasLimit |-> Slice(s, 188, 196),
         GasUsed |-> Slice(s, 196, 204), Value |-> Slice(s, 204, 236)]}

SizeBidTrace == 236

MarshalSignedBidTrace(t) == t.Signature \o MarshalBidTrace(t.Message)

UnmarshalSignedBidTrace(s) ==
  IF Size(s) < 332 THEN {}
  ELSE {[Signature |-> Slice(s, 0, 96), Message |-> m] : m \in UnmarshalBidTrace(Slice(s, 96, 332))}

SizeSignedBidTrace == 332

---------------------------------------------------------------------------
(* ExecutionPayload *)

MarshalExecutionPayload(e) ==
  LET o10 == 512
      o13 == o10 + Size(e.ExtraData)
      o14 == o13 + DynamicSize(e.Transactions)
  IN  IF Size(e.ExtraData) > 32 \/ Len(e.Transactions) > 1048576 \/ Len(e.Withdrawals.list) > 16 THEN {}
      ELSE {Fields(e, <<"ParentHash", "FeeRecipient", "StateRoot", "ReceiptsRoot", "LogsBloom", "Random",
                        "BlockNumber", "GasLimit", "GasUsed", "Timestamp">>)
            \o WriteOffset(o10) \o Fields(e, <<"BaseFeePerGas", "BlockHash">>)
            \o WriteOffset(o13) \o WriteOffset(o14)
            \o e.ExtraData \o Dynamic(e.Transactions)
            \o Cat([i \in DOMAIN e.Withdrawals.list |-> MarshalWithdrawal(e.Withdrawals.list[i])])}

UnmarshalWithdrawals(s) ==
  LET n == Size(s) \div 44
      at(i) == UnmarshalWithdrawal(Slice(s, 44 * (i - 1), 44 * i))
  IN  IF Size(s) % 44 # 0 \/ n > 16 \/ \E i \in 1..n : at(i) = {} THEN {}
      ELSE {[nil |-> FALSE, list |-> [i \in 1..n |-> CHOOSE w \in at(i) : TRUE]]}

(* The offsets of the three lists, each inside the input and after the one before *)
PayloadOffsets(s) ==
  LET o10 == ReadOffset(s, 436)
      o13 == ReadOffset(s, 504)
      o14 == ReadOffset(s, 508)
  IN  IF Size(s) < 512 THEN {}
      ELSE IF o10 > Size(s) \/ o10 < 512 THEN {}
      ELSE IF o13 > Size(s) \/ o10 > o13 THEN {}
      ELSE IF o14 > Size(s) \/ o13 > o14 THEN {}
      ELSE {[o10 |-> o10, o13 |-> o13, o14 |-> o14]}

UnmarshalExecutionPayload(s) ==
  LET payload(extra, txs, ws) ==
        [ParentHash |-> Slice(s, 0, 32), FeeRecipient |-> Slice(s, 32, 52), StateRoot |-> Slice(s, 52, 84),
         ReceiptsRoot |-> Slice(s, 84, 116), LogsBloom |-> Slice(s, 116, 372), Random |-> Slice(s, 372, 404),
         BlockNumber |-> Slice(s, 404, 412), GasLimit |-> Slice(s, 412, 420), GasUsed |-> Slice(s, 420, 428),
         Timestamp |-> Slice(s, 428, 436), ExtraData |-> extra, BaseFeePerGas |-> Slice(s, 440, 472),
         BlockHash |-> Slice(s, 472, 504), Transactions |-> txs, Withdrawals |-> ws]
  IN  UNION {Then(Cut(s, o.o10, o.o13), LAMBDA extra : IF Size(extra) > 32 THEN {} ELSE
             Then(Cut(s, o.o13, o.o14), LAMBDA txs : IF UnmarshalDynamic(txs, 1048576) = {} THEN {} ELSE
             Then(Cut(s, o.o14, Size(s)), LAMBDA ws :
               {Ok(payload(extra, ts, w)) : ts \in UnmarshalDynamic(txs, 1048576), w \in UnmarshalWithdrawals(ws)}))) :
             o \in PayloadOffsets(s)}

\* Mutated form of SizeExecutionPayload: the withdrawals are forgotten.
SizeWithoutWithdrawals(e) == 512 + Size(e.ExtraData) + DynamicSize(e.Transactions)

SizeExecutionPayload(e) == 512 + Size(e.ExtraData) + DynamicSize(e.Transactions) + Len(e.Withdrawals.list) * 44

TransactionsRoot(txs) ==
  ListRoot([i \in DOMAIN txs |-> MerkleizeWithMixin(<<Leaf(txs[i])>>, Size(txs[i]), 33554432)], 1048576)

ExtraDataRoot(d) == MerkleizeWithMixin(<<Leaf(d)>>, Size(d), 1)

PayloadRoot(e) ==
  IF Size(e.ExtraData) > 32 \/ Len(e.Withdrawals.list) > 16 THEN {}
  ELSE {Merkleize(Leaves(e, <<"ParentHash", "FeeRecipient", "StateRoot", "ReceiptsRoot", "LogsBloom", "Random",
                              "BlockNumber", "GasLimit", "GasUsed", "Timestamp">>)
                  \o <<ExtraDataRoot(e.ExtraData)>>
                  \o <<Leaf(e.BaseFeePerGas), Leaf(e.BlockHash), TransactionsRoot(e.Transactions),
                       ListRoot([i \in DOMAIN e.Withdrawals.list |-> WithdrawalRoot(e.Withdrawals.list[i])], 16)>>)}

---------------------------------------------------------------------------
(* ExecutionPayloadHeader *)

MarshalHeader(h) ==
  IF Size(h.ExtraData) > 32 THEN {}
  ELSE {Fields(h, <<"ParentHash", "FeeRecipient", "StateRoot", "ReceiptsRoot", "LogsBloom", "Random",
                    "BlockNumber", "GasLimit", "GasUsed", "Timestamp">>)
        \o WriteOffset(568) \o Fields(h, <<"BaseFeePerGas", "BlockHash", "TransactionsRoot", "WithdrawalsRoot">>)
        \o h.ExtraData}

UnmarshalHeader(s) ==
  LET o10 == ReadOffset(s, 436)
  IN  IF Size(s) < 568 THEN {}
      ELSE IF o10 > Size(s) \/ o10 < 568 THEN {}
      ELSE Then(Cut(s, o10, Size(s)), LAMBDA extra : IF Size(extra) > 32 THEN {} ELSE
        {Ok([ParentHash |-> Slice(s, 0, 32), FeeRecipient |-> Slice(s, 32, 52), StateRoot |-> Slice(s, 52, 84),
             ReceiptsRoot |-> Slice(s, 84, 116), LogsBloom |-> Slice(s, 116, 372), Random |-> Slice(s, 372, 404),
             BlockNumber |-> Slice(s, 404, 412), GasLimit |-> Slice(s, 412, 420), GasUsed |-> Slice(s, 420, 428),
             Timestamp |-> Slice(s, 428, 436), ExtraData |-> extra, BaseFeePerGas |-> Slice(s, 440, 472),
             BlockHash |-> Slice(s, 472, 504), TransactionsRoot |-> Slice(s, 504, 536),
             WithdrawalsRoot |-> Slice(s, 536, 568)])})

SizeHeader(h) == 568 + Size(h.ExtraData)

HeaderRoot(h) ==
  IF Size(h.ExtraData) > 32 THEN {}
  ELSE {Merkleize(Leaves(h, <<"ParentHash", "FeeRecipient", "StateRoot", "ReceiptsRoot", "LogsBloom", "Random",
                              "BlockNumber", "GasLimit", "GasUsed", "Timestamp">>)
                  \o <<ExtraDataRoot(h.ExtraData)>>
                  \o Leaves(h, <<"BaseFeePerGas", "BlockHash", "TransactionsRoot", "WithdrawalsRoot">>))}

\* Mutated form of PayloadToPayloadHeader: an empty list is taken for a nil one.
EmptyAsNilHeader(p) ==
  {Merged([f \in DOMAIN p \ {"Transactions", "Withdrawals"} |-> p[f]],
          [TransactionsRoot |-> RootBytes(TransactionsRoot(p.Transactions)), WithdrawalsRoot |-> wr]) :
     wr \in IF p.Withdrawals.list = << >> THEN {Zeros(32)} ELSE {RootBytes(r) : r \in HashWithdrawals(p.Withdrawals.list)}}

PayloadToPayloadHeader(p) ==
  {Merged([f \in DOMAIN p \ {"Transactions", "Withdrawals"} |-> p[f]],
          [TransactionsRoot |-> RootBytes(TransactionsRoot(p.Transactions)), WithdrawalsRoot |-> wr]) :
     wr \in IF p.Withdrawals.nil THEN {Zeros(32)} ELSE {RootBytes(r) : r \in HashWithdrawals(p.Withdrawals.list)}}

---------------------------------------------------------------------------
(* BuilderBid and BuilderBidExtended *)

\* Mutated form of MarshalBuilderBid: the bytes of the value are not reversed.
MarshalBigEndianBid(b) ==
  {WriteOffset(84) \o b.Value \o b.Pubkey \o h : h \in MarshalHeader(b.Header)}

MarshalBuilderBid(b) ==
  {WriteOffset(84) \o Reversed(b.Value) \o b.Pubkey \o h : h \in MarshalHeader(b.Header)}

UnmarshalBuilderBid(s) ==
  LET o0 == ReadOffset(s, 0)
  IN  IF Size(s) < 84 THEN {}
      ELSE IF o0 > Size(s) \/ o0 < 84 THEN {}
      ELSE Then(Cut(s, o0, Size(s)), LAMBDA tail : Then(UnmarshalHeader(tail), LAMBDA h :
        {Ok([Value |-> Reversed(Slice(s, 4, 36)), Pubkey |-> Slice(s, 36, 84), Header |-> h])}))

SizeBuilderBid(b) == 84 + SizeHeader(b.Header)

BuilderBidRoot(b) == {Merkleize(<<h, Leaf(b.Value), Leaf(b.Pubkey)>>) : h \in HeaderRoot(b.Header)}

MarshalBuilderBidExtended(x) ==
  {WriteOffset(60) \o x.Proposer \o x.Slot \o b : b \in MarshalBuilderBid(x.BuilderBid)}

UnmarshalBuilderBidExtended(s) ==
  LET o0 == ReadOffset(s, 0)
  IN  IF Size(s) < 60 THEN {}
      ELSE IF o0 > Size(s) \/ o0 < 60 THEN {}
      ELSE Then(Cut(s, o0, Size(s)), LAMBDA tail : Then(UnmarshalBuilderBid(tail), LAMBDA b :
        {Ok([BuilderBid |-> b, Proposer |-> Slice(s, 4, 52), Slot |-> Slice(s, 52, 60)])}))

SizeBuilderBidExtended(x) == 60 + SizeBuilderBid(x.BuilderBid)

---------------------------------------------------------------------------
(* GetPayloadResponse and BlockAndTraceExtended *)

MarshalGetPayloadResponse(g) ==
  {WriteOffset(8) \o WriteOffset(8 + Size(g.Version)) \o g.Version \o d : d \in MarshalExecutionPayload(g.Data)}

UnmarshalGetPayloadResponse(s) ==
  LET vo == ReadOffset(s, 0)
      do == ReadOffset(s, 4)
  IN  IF Size(s) < 8 THEN {}
      ELSE IF vo > Size(s) \/ vo < 8 THEN {}
      ELSE IF do > Size(s) \/ vo > do THEN {}
      ELSE Then(Cut(s, vo, do), LAMBDA version : Then(Cut(s, do, Size(s)), LAMBDA data :
             Then(UnmarshalExecutionPayload(data), LAMBDA e : {Ok([Version |-> version, Data |-> e])})))

SizeGetPayloadResponse(g) == 4 + Size(g.Version) + 4 + SizeExecutionPayload(g.Data)

MarshalBlockAndTrace(b) ==
  {WriteOffset(4 + 332 + 32) \o MarshalSignedBidTrace(b.Trace) \o b.ExecutionHeaderHash \o p :
     p \in MarshalGetPayloadResponse(b.Payload)}

UnmarshalBlockAndTrace(s) ==
  LET po == ReadOffset(s, 0)
  IN  IF Size(s) < 368 THEN {}
      ELSE IF po > Size(s) \/ po < 368 THEN {}
      ELSE Then(Cut(s, po, Size(s)), LAMBDA tail : Then(UnmarshalGetPayloadResponse(tail), LAMBDA p :
        {Ok([Trace |-> t, ExecutionHeaderHash |-> Slice(s, 336, 368), Payload |-> p]) :
           t \in UnmarshalSignedBidTrace(Slice(s, 4, 336))}))

SizeBlockAndTrace(b) == 368 + SizeGetPayloadResponse(b.Payload)

(* The trace that is recorded once the payload is delivered. *)
ToDeliveredTrace(b, slot) ==
  [Slot |-> slot, ParentHash |-> b.Payload.Data.ParentHash, BlockHash |-> b.Payload.Data.BlockHash,
   BuilderPubkey |-> b.Trace.Message.BuilderPubkey, ProposerPubkey |-> b.Trace.Message.ProposerPubkey,
   ProposerFeeRecipient |-> b.Trace.Message.ProposerFeeRecipient, GasLimit |-> b.Payload.Data.GasLimit,
   GasUsed |-> b.Payload.Data.GasUsed, Value |-> b.Trace.Message.Value,
   BlockNumber |-> b.Payload.Data.BlockNumber, NumTx |-> Len(b.Payload.Data.Transactions),
   Timestamp |-> b.Payload.Data.Timestamp]

---------------------------------------------------------------------------
(* SubmitBlockRequest *)

Number(s) == IF Len(s) = 1 THEN s[1].at ELSE Unreadable

ValidateSubmission(r) ==
  Number(r.Message.Slot) # 0 /\ Number(r.ExecutionPayload.BlockNumber) > 0 /\ Number(r.ExecutionPayload.Timestamp) > 0

UnmarshalSubmitBlockRequest(s) ==
  LET o1 == ReadOffset(s, 236)
  IN  IF Size(s) < 336 THEN {}
      ELSE IF o1 > Size(s) \/ o1 < 336 THEN {}
      ELSE Then(Cut(s, o1, Size(s)), LAMBDA tail : Then(UnmarshalExecutionPayload(tail), LAMBDA e :
        {Ok([Message |-> m, Signature |-> Slice(s, 240, 336), ExecutionPayload |-> e]) :
           m \in UnmarshalBidTrace(Slice(s, 0, 236))}))

SizeSubmitBlockRequest(r) == 336 + SizeExecutionPayload(r.ExecutionPayload)

ToPayloadKey(r) == <<r.Message.BlockHash, r.Message.ProposerPubkey, r.Message.Slot>>

(* The signature is the relay's, over the root of the bid. *)
toSignedBuilderBid(r, pubkey) ==
  UNION {LET b == [Value |-> r.Message.Value, Header |-> h, Pubkey |-> pubkey]
         IN  {[Message |-> b, Signature |-> <<"signed", root>>] : root \in BuilderBidRoot(b)} :
           h \in PayloadToPayloadHeader(r.ExecutionPayload)}

\* Mutated form of toBlockBidAndTrace: the hash is that of the payload, not of its header.
PayloadHashedTrace(r, sbb) ==
  {[Trace |-> [Signature |-> r.Signature, Message |-> r.Message],
    Payload |-> [Version |-> Chunk("capella", 0, 7), Data |-> r.ExecutionPayload],
    ExecutionHeaderHash |-> RootBytes(root)] : root \in PayloadRoot(r.ExecutionPayload)}

toBlockBidAndTrace(r, sbb) ==
  {[Trace |-> [Signature |-> r.Signature, Message |-> r.Message],
    Payload |-> [Version |-> Chunk("capella", 0, 7), Data |-> r.ExecutionPayload],
    ExecutionHeaderHash |-> RootBytes(root)] : root \in HeaderRoot(sbb.Message.Header)}

PreparePayloadContents(r, pubkey) ==
  UNION {{[Payload |-> bbt, Header |-> sbb.Message.Header,
           Trace |-> Merged([r.Message EXCEPT !.ParentHash = r.ExecutionPayload.ParentHash,
                                              !.BlockHash = r.ExecutionPayload.BlockHash],
                            [BlockNumber |-> r.ExecutionPayload.BlockNumber,
                             NumTx |-> Len(r.ExecutionPayload.Transactions)])] :
            bbt \in toBlockBidAndTrace(r, sbb)} : sbb \in toSignedBuilderBid(r, pubkey)}

---------------------------------------------------------------------------
(* The blinded block a proposer signs, and the block that is published.  A  *)
(* nil pointer and an absent list are both the empty sequence; the elements *)
(* of the lists the relay only passes on are byte strings.                  *)

MarshalBLSToExecutionChange(c) == Fields(c, <<"ValidatorIndex", "FromBLSPubkey", "ToExecutionAddress">>)
SizeBLSToExecutionChange == 76
BLSToExecutionChangeRoot(c) == Merkleize(Leaves(c, <<"ValidatorIndex", "FromBLSPubkey", "ToExecutionAddress">>))

MarshalSignedBLSToExecutionChange(s) == MarshalBLSToExecutionChange(s.Message) \o s.Signature
SizeSignedBLSToExecutionChange == 172
SignedBLSToExecutionChangeRoot(s) == Merkleize(<<BLSToExecutionChangeRoot(s.Message), Leaf(s.Signature)>>)

BodyRoot(b, h) ==
  LET roots(es) == [i \in DOMAIN es |-> Leaf(es[i])]
      changes == [i \in DOMAIN b.BLSToExecutionChanges |-> SignedBLSToExecutionChangeRoot(b.BLSToExecutionChanges[i])]
  IN  IF \/ Len(b.ProposerSlashings) > 16 \/ Len(b.AttesterSlashings) > 2 \/ Len(b.Attestations) > 128
         \/ Len(b.Deposits) > 16 \/ Len(b.VoluntaryExits) > 16 \/ Len(changes) > 16 THEN {}
      ELSE {Merkleize(<<Leaf(b.RandaoReveal), Leaf(b.Eth1Data), Leaf(b.Graffiti),
                        ListRoot(roots(b.ProposerSlashings), 16), ListRoot(roots(b.AttesterSlashings), 2),
                        ListRoot(roots(b.Attestations), 128), ListRoot(roots(b.Deposits), 16),
                        ListRoot(roots(b.VoluntaryExits), 16), Leaf(b.SyncAggregate), h, ListRoot(changes, 16)>>)}

BlindedBodyRoot(b) == UNION {BodyRoot(b, h) : h \in HeaderRoot(b.ExecutionPayloadHeader)}

BlockRoot(m, b) == Merkleize(Leaves(m, <<"Slot", "ProposerIndex", "ParentRoot", "StateRoot">>) \o <<b>>)

BlindedBlockRoot(m) == {BlockRoot(m, b) : b \in BlindedBodyRoot(m.Body)}

ComputeSigningRoot(s) ==
  IF s.Message.Body.Eth1Data = << >> \/ s.Message.Body.SyncAggregate = << >> THEN {}
  ELSE BlindedBlockRoot(s.Message)

ExecutionHeaderHash(s) == HeaderRoot(s.Message.Body.ExecutionPayloadHeader)

BlindedToPayloadKey(s, pk) == <<s.Message.Body.ExecutionPayloadHeader.BlockHash, pk, s.Message.Slot>>

ToBeaconBlock(s, payload) ==
  LET b == s.Message.Body
      orZero(x, n) == IF x = << >> THEN Zeros(n) ELSE x
  IN  [Signature |-> s.Signature,
       Message |-> [s.Message EXCEPT !.Body =
         Merged([ExecutionPayload |-> payload, Eth1Data |-> orZero(b.Eth1Data, 72),
                 SyncAggregate |-> orZero(b.SyncAggregate, 160)],
                [f \in DOMAIN b \ {"ExecutionPayloadHeader", "Eth1Data", "SyncAggregate"} |-> b[f]])]]

MarshalBeaconBlockBody(b) ==
  LET o4 == 388 + Len(b.ProposerSlashings) * 416
      o5 == o4 + DynamicSize(b.AttesterSlashings)
      o6 == o5 + DynamicSize(b.Attestations)
      o7 == o6 + Len(b.Deposits) * 1240
      o9 == o7 + Len(b.VoluntaryExits) * 112
      changes == b.BLSToExecutionChanges
  IN  IF \/ Len(b.ProposerSlashings) > 16 \/ Len(b.AttesterSlashings) > 2 \/ Len(b.Attestations) > 128
         \/ Len(b.Deposits) > 16 \/ Len(b.VoluntaryExits) > 16 \/ Len(changes) > 16 THEN {}
      ELSE {b.RandaoReveal \o b.Eth1Data \o b.Graffiti
            \o WriteOffset(388) \o WriteOffset(o4) \o WriteOffset(o5) \o WriteOffset(o6) \o WriteOffset(o7)
            \o b.SyncAggregate \o WriteOffset(o9) \o WriteOffset(o9 + SizeExecutionPayload(b.ExecutionPayload))
            \o Cat(b.ProposerSlashings) \o Dynamic(b.AttesterSlashings) \o Dynamic(b.Attestations)
            \o Cat(b.Deposits) \o Cat(b.VoluntaryExits) \o p
            \o Cat([i \in DOMAIN changes |-> MarshalSignedBLSToExecutionChange(changes[i])]) :
              p \in MarshalExecutionPayload(b.ExecutionPayload)}

SizeBeaconBlockBody(b) ==
  388 + Len(b.ProposerSlashings) * 416 + DynamicSize(b.AttesterSlashings) + DynamicSize(b.Attestations)
  + Len(b.Deposits) * 1240 + Len(b.VoluntaryExits) * 112 + SizeExecutionPayload(b.ExecutionPayload)
  + Len(b.BLSToExecutionChanges) * 172

\* Mutated form of MarshalBeaconBlock: the offset forgets itself.
MarshalShortBeaconBlock(m) ==
  {Fields(m, <<"Slot", "ProposerIndex", "ParentRoot", "StateRoot">>) \o WriteOffset(80) \o b :
     b \in MarshalBeaconBlockBody(m.Body)}

MarshalBeaconBlock(m) ==
  {Fields(m, <<"Slot", "ProposerIndex", "ParentRoot", "StateRoot">>) \o WriteOffset(84) \o b :
     b \in MarshalBeaconBlockBody(m.Body)}

SizeBeaconBlock(m) == 84 + SizeBeaconBlockBody(m.Body)

MarshalSignedBeaconBlock(s) == {WriteOffset(100) \o s.Signature \o m : m \in MarshalBeaconBlock(s.Message)}

SizeSignedBeaconBlock(s) == 100 + SizeBeaconBlock(s.Message)
=============================================================================
