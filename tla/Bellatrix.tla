----------------------------- MODULE Bellatrix -----------------------------
(***************************************************************************)
(* structs/forks/bellatrix: what the fork before Capella does with the     *)
(* same objects.  Submissions and stream messages of this fork travel as   *)
(* JSON, so the package has encoders for the published block only; the     *)
(* decoders and the header's root are those of the types library.  The     *)
(* payload has no withdrawals and the header no withdrawals root.          *)
(***************************************************************************)
EXTENDS Bytes

Fields(x, names) == Cat([i \in DOMAIN names |-> x[names[i]]])
Leaves(x, names) == [i \in DOMAIN names |-> Leaf(x[names[i]])]

(* types.ExecutionPayloadHeader and types.Transactions of the library *)
TransactionsRoot(txs) ==
  ListRoot([i \in DOMAIN txs |-> MerkleizeWithMixin(<<Leaf(txs[i])>>, Size(txs[i]), 33554432)], 1048576)

HeaderRoot(h) ==
  IF Size(h.ExtraData) > 32 THEN {}
  ELSE {Merkleize(Leaves(h, <<"ParentHash", "FeeRecipient", "StateRoot", "ReceiptsRoot", "LogsBloom", "Random",
                              "BlockNumber", "GasLimit", "GasUsed", "Timestamp">>)
                  \o <<MerkleizeWithMixin(<<Leaf(h.ExtraData)>>, Size(h.ExtraData), 1)>>
                  \o Leaves(h, <<"BaseFeePerGas", "BlockHash", "TransactionsRoot">>))}

---------------------------------------------------------------------------
(* SubmitBlockRequest *)

Number(s) == IF Len(s) = 1 THEN s[1].at ELSE Unreadable

ValidateSubmission(r) ==
  Number(r.Message.Slot) # 0 /\ Number(r.ExecutionPayload.BlockNumber) > 0 /\ Number(r.ExecutionPayload.Timestamp) > 0

ToPayloadKey(r) == <<r.Message.BlockHash, r.Message.ProposerPubkey, r.Message.Slot>>

PayloadToPayloadHeader(p) ==
  Merged([f \in DOMAIN p \ {"Transactions", "Withdrawals"} |-> p[f]],
         [TransactionsRoot |-> RootBytes(TransactionsRoot(p.Transactions))])

BuilderBidRoot(b) == {Merkleize(<<h, Leaf(b.Value), Leaf(b.Pubkey)>>) : h \in HeaderRoot(b.Header)}

toSignedBuilderBid(r, pubkey) ==
  LET b == [Value |-> r.Message.Value, Header |-> PayloadToPayloadHeader(r.ExecutionPayload), Pubkey |-> pubkey]
  IN  {[Message |-> b, Signature |-> <<"signed", root>>] : root \in BuilderBidRoot(b)}

toBlockBidAndTrace(r, sbb) ==
  [Trace |-> [Message |-> r.Message, Signature |-> r.Signature],
   Bid |-> [Version |-> Chunk("bellatrix", 0, 9), Data |-> sbb],
   Payload |-> [Version |-> Chunk("bellatrix", 0, 9), Data |-> r.ExecutionPayload]]

PreparePayloadContents(r, pubkey) ==
  {[Payload |-> toBlockBidAndTrace(r, sbb), Header |-> sbb.Message.Header,
    Trace |-> Merged([r.Message EXCEPT !.ParentHash = r.ExecutionPayload.ParentHash,
                                       !.BlockHash = r.ExecutionPayload.BlockHash],
                     [BlockNumber |-> r.ExecutionPayload.BlockNumber,
                      NumTx |-> Len(r.ExecutionPayload.Transactions)])] : sbb \in toSignedBuilderBid(r, pubkey)}

(* BlockBidAndTrace: the header's hash is computed again from the stored bid. *)
StoredHeaderHash(b) == HeaderRoot(b.Bid.Data.Message.Header)

ToDeliveredTrace(b, slot) ==
  [Slot |-> slot, ParentHash |-> b.Payload.Data.ParentHash, BlockHash |-> b.Payload.Data.BlockHash,
   BuilderPubkey |-> b.Trace.Message.BuilderPubkey, ProposerPubkey |-> b.Trace.Message.ProposerPubkey,
   ProposerFeeRecipient |-> b.Trace.Message.ProposerFeeRecipient, GasLimit |-> b.Payload.Data.GasLimit,
   GasUsed |-> b.Payload.Data.GasUsed, Value |-> b.Trace.Message.Value,
   BlockNumber |-> b.Payload.Data.BlockNumber, NumTx |-> Len(b.Payload.Data.Transactions),
   Timestamp |-> b.Payload.Data.Timestamp]

---------------------------------------------------------------------------
(* The blinded block a proposer signs, and the block that is published *)

ExecutionHeaderHash(s) == HeaderRoot(s.Message.Body.ExecutionPayloadHeader)

BlindedToPayloadKey(s, pk) == <<s.Message.Body.ExecutionPayloadHeader.BlockHash, pk, s.Message.Slot>>

ToBeaconBlock(s, payload) ==
  LET b == s.Message.Body
      orZero(x, n) == IF x = << >> THEN Zeros(n) ELSE x
  IN  [Signature |-> s.Signature,
       Message |-> [s.Message EXCEPT !.Body =
         Merged([ExecutionPayload |-> payload, Eth1Data |-> orZero(b.Eth1Data, 72),
                 SyncAggregate |-> orZero(b.SyncAggregate, 160)],
                [f \in DOMAIN b \ {"ExecutionPayloadHeader", "Eth1Data", "SyncAggregate"} |-> b[f]])]]

MarshalExecutionPayload(e) ==
  LET o10 == 512
      o13 == o10 + Size(e.ExtraData)
  IN  IF Size(e.ExtraData) > 32 \/ Len(e.Transactions) > 1048576 THEN {}
      ELSE {Fields(e, <<"ParentHash", "FeeRecipient", "StateRoot", "ReceiptsRoot", "LogsBloom", "Random",
                        "BlockNumber", "GasLimit", "GasUsed", "Timestamp">>)
            \o WriteOffset(o10) \o Fields(e, <<"BaseFeePerGas", "BlockHash">>)
            \o WriteOffset(o13) \o e.ExtraData \o Dynamic(e.Transactions)}

SizeExecutionPayload(e) == 508 + Size(e.ExtraData) + DynamicSize(e.Transactions)

MarshalBeaconBlockBody(b) ==
  LET o4 == 384 + Len(b.ProposerSlashings) * 416
      o5 == o4 + DynamicSize(b.AttesterSlashings)
      o6 == o5 + DynamicSize(b.Attestations)
      o7 == o6 + Len(b.Deposits) * 1240
      o9 == o7 + Len(b.VoluntaryExits) * 112
  IN  IF \/ Len(b.ProposerSlashings) > 16 \/ Len(b.AttesterSlashings) > 2 \/ Len(b.Attestations) > 128
         \/ Len(b.Deposits) > 16 \/ Len(b.VoluntaryExits) > 16 THEN {}
      ELSE {b.RandaoReveal \o b.Eth1Data \o b.Graffiti
            \o WriteOffset(384) \o WriteOffset(o4) \o WriteOffset(o5) \o WriteOffset(o6) \o WriteOffset(o7)
            \o b.SyncAggregate \o WriteOffset(o9)
            \o Cat(b.ProposerSlashings) \o Dynamic(b.AttesterSlashings) \o Dynamic(b.Attestations)
            \o Cat(b.Deposits) \o Cat(b.VoluntaryExits) \o p : p \in MarshalExecutionPayload(b.ExecutionPayload)}

SizeBeaconBlockBody(b) ==
  384 + Len(b.ProposerSlashings) * 416 + DynamicSize(b.AttesterSlashings) + DynamicSize(b.Attestations)
  + Len(b.Deposits) * 1240 + Len(b.VoluntaryExits) * 112 + SizeExecutionPayload(b.ExecutionPayload)

MarshalBeaconBlock(m) ==
  {Fields(m, <<"Slot", "ProposerIndex", "ParentRoot", "StateRoot">>) \o WriteOffset(84) \o b :
     b \in MarshalBeaconBlockBody(m.Body)}

SizeBeaconBlock(m) == 84 + SizeBeaconBlockBody(m.Body)

MarshalSignedBeaconBlock(s) == {WriteOffset(100) \o s.Signature \o m : m \in MarshalBeaconBlock(s.Message)}

SizeSignedBeaconBlock(s) == 100 + SizeBeaconBlock(s.Message)
=============================================================================
