------------------------------- MODULE Blocks -------------------------------
(***************************************************************************)
(* One block on its way through two relays that share a payload store and  *)
(* a stream: a builder submits it to relay "a" as JSON or SSZ, its bid and *)
(* its payload are encoded for the stream and decoded at relay "b", a      *)
(* proposer signs the header either relay serves, and either relay         *)
(* unblinds and publishes the block.  The module is about data: that what  *)
(* arrives is what was sent.  Which blocks are accepted, which bid wins    *)
(* and which payload may be released are the subjects of Submit,           *)
(* Auctioneer and Delivery.                                                *)
(*                                                                         *)
(* api/api.go, relay/submit.go, relay/relay.go, stream/stream.go and       *)
(* datastore/datastore.go, over the types of Capella and Bellatrix.  JSON  *)
(* (the standard library) keeps every field of the object it encodes.      *)
(***************************************************************************)
EXTENDS Capella

CONSTANTS
  Shapes,    \* the blocks: [fork, early, sends, extra, txs, nil, withdrawals, bare]
  Limits(_)  \* for a shape, the chunks of the body at which the size limit may fall

ASSUME BlocksAssumption ==
  \A x \in Shapes : x.fork \in {"bellatrix", "capella"} /\ x.early \in BOOLEAN /\ x.nil \in BOOLEAN /\ x.txs \in Seq(Nat)

B == INSTANCE Bellatrix

Relays == {"a", "b"}
Topics == {"bid", "cache"}

VARIABLES
  request,   \* the body the builder sends, as SSZ, and how often it still may: [bytes, whole, left]
  shape,     \* the block's shape; shape.fork is the fork of its slot
  head,      \* per relay, the fork of its head slot
  accepted,  \* submissions in flight at relay "a", with the fork they were decoded for
  store,     \* the shared payload store: entries [key, fork, v], as JSON
  bids,      \* per relay, the bids in its auction
  cache,     \* per relay, the payload cache
  stream,    \* messages on the stream, per topic
  served,    \* signed bids served to the proposer
  signed,    \* the proposer's signed blinded block: {} or one
  published, \* blocks given to the beacon nodes
  traces,    \* delivered traces
  errors     \* errors and panics met on the way

vars == <<request, shape, head, accepted, store, bids, cache, stream, served, signed, published, traces, errors>>

---------------------------------------------------------------------------
(* The builder's block *)

RelayKey == Chunk("relay", 0, 48)

Withdrawal(i) == [Index |-> Chunk("Index", i, 8), ValidatorIndex |-> Chunk("ValidatorIndex", i, 8),
                  Address |-> Chunk("Address", i, 20), Amount |-> Chunk("Amount", i, 8)]

Payload(x) ==
  [ParentHash |-> Chunk("ParentHash", 1, 32), FeeRecipient |-> Chunk("FeeRecipient", 1, 20),
   StateRoot |-> Chunk("StateRoot", 1, 32), ReceiptsRoot |-> Chunk("ReceiptsRoot", 1, 32),
   LogsBloom |-> Chunk("LogsBloom", 1, 256), Random |-> Chunk("Random", 1, 32),
   BlockNumber |-> Chunk("BlockNumber", 7, 8), GasLimit |-> Chunk("GasLimit", 1, 8),
   GasUsed |-> Chunk("GasUsed", 1, 8), Timestamp |-> Chunk("Timestamp", 12, 8),
   ExtraData |-> Chunk("ExtraData", 1, x.extra), BaseFeePerGas |-> Chunk("BaseFeePerGas", 1, 32),
   BlockHash |-> Chunk("BlockHash", 1, 32),
   Transactions |-> [i \in DOMAIN x.txs |-> Chunk("tx", i, x.txs[i])],
   Withdrawals |-> [nil |-> x.nil, list |-> [i \in 1..x.withdrawals |-> Withdrawal(i)]]]

Trace == [Slot |-> Chunk("Slot", 1, 8), ParentHash |-> Chunk("ParentHash", 1, 32),
          BlockHash |-> Chunk("BlockHash", 1, 32), BuilderPubkey |-> Chunk("builder", 1, 48),
          ProposerPubkey |-> Chunk("proposer", 1, 48), ProposerFeeRecipient |-> Chunk("recipient", 1, 20),
          GasLimit |-> Chunk("GasLimit", 1, 8), GasUsed |-> Chunk("GasUsed", 1, 8), Value |-> Chunk("Value", 1, 32)]

Block(x) == [Message |-> Trace, Signature |-> Chunk("sig", 1, 96), ExecutionPayload |-> Payload(x)]

(* What SSZ makes of a payload, whoever encodes it. *)
PayloadSSZ(f, p) ==
  Container([i \in 1..10 |-> Fix(p[<<"ParentHash", "FeeRecipient", "StateRoot", "ReceiptsRoot", "LogsBloom",
                                     "Random", "BlockNumber", "GasLimit", "GasUsed", "Timestamp">>[i]])]
            \o <<Var(p.ExtraData), Fix(p.BaseFeePerGas), Fix(p.BlockHash), Var(Dynamic(p.Transactions))>>
            \o IF f = "bellatrix" THEN << >>
               ELSE <<Var(Cat([i \in DOMAIN p.Withdrawals.list |-> Fields(p.Withdrawals.list[i],
                            <<"Index", "ValidatorIndex", "Address", "Amount">>)]))>>)

RequestSSZ(r) == Container(<<Fix(MarshalBidTrace(r.Message)), Var(PayloadSSZ("capella", r.ExecutionPayload)),
                             Fix(r.Signature)>>)

---------------------------------------------------------------------------
(* What the size limit of the API can leave of a body: the cut is at, one *)
(* before or one after the end of a chunk.                                *)
Requests(s) ==
  LET p == Starts(s)
      cuts == UNION {{p[i] + d : d \in {-1, 0, 1}} : i \in Limits(shape) \cap DOMAIN s} \cap 0..(Size(s) - 1)
  IN  {[bytes |-> s, whole |-> TRUE, left |-> shape.sends]}
      \union {[bytes |-> Slice(s, 0, n), whole |-> FALSE, left |-> shape.sends] : n \in cuts}

(* shape.early: the block is sent while the heads are still in the fork *)
(* before its own.                                                      *)
Init ==
  /\ shape \in Shapes
  /\ request \in Requests(RequestSSZ(Block(shape)))
  /\ head = [r \in Relays |-> IF shape.early THEN "bellatrix" ELSE shape.fork]
  /\ accepted = {} /\ store = {} /\ served = {} /\ signed = {} /\ published = {} /\ traces = {} /\ errors = {}
  /\ bids = [r \in Relays |-> {}]
  /\ cache = [r \in Relays |-> {}]
  /\ stream = [t \in Topics |-> {}]

NewHead(r) ==
  /\ head[r] # shape.fork
  /\ head' = [head EXCEPT ![r] = shape.fork]
  /\ UNCHANGED <<request, shape, accepted, store, bids, cache, stream, served, signed, published, traces, errors>>

---------------------------------------------------------------------------
(* The builder *)

(* api.submitBlock: the body is decoded for the fork of the head slot.  JSON *)
(* that is cut short does not parse.  A block with nil withdrawals has no    *)
(* SSZ form.                                                                 *)
Decode(fork, enc) ==
  IF fork = "capella" /\ enc = "ssz" THEN UnmarshalSubmitBlockRequest(request.bytes)
  ELSE IF enc = "json" /\ request.whole THEN {Ok(Block(shape))} ELSE {}

Validate(fork, r) == IF fork = "capella" THEN ValidateSubmission(r) ELSE B!ValidateSubmission(r)

\* Mutated form of verifyWithdrawals: the root is computed and not compared.
HashesOnly(fork, r) ==
  \/ fork = "bellatrix"
  \/ r.ExecutionPayload.Withdrawals.nil
  \/ HashWithdrawals(r.ExecutionPayload.Withdrawals.list) # {}

(* verifyWithdrawals: the root of the withdrawals is the one the beacon node  *)
(* expects, that of the builder's block.  A block without any is not checked. *)
verifyWithdrawals(fork, r) ==
  \/ fork = "bellatrix"
  \/ r.ExecutionPayload.Withdrawals.nil
  \/ LET roots == HashWithdrawals(r.ExecutionPayload.Withdrawals.list)
     IN  roots # {} /\ roots = HashWithdrawals(Payload(shape).Withdrawals.list)

submitBlock ==
  \E enc \in IF shape.nil THEN {"json"} ELSE {"json", "ssz"} :
    LET outs == Decode(head["a"], enc)
    IN  /\ request.left > 0
        /\ request' = [request EXCEPT !.left = @ - 1]
        /\ IF Crash \in outs THEN errors' = errors \union {"panic"} /\ UNCHANGED accepted
           ELSE IF \E o \in outs : Validate(head["a"], o.v) /\ verifyWithdrawals(head["a"], o.v)
           THEN accepted' = accepted \union {[fork |-> head["a"], v |-> o.v] : o \in outs} /\ UNCHANGED errors
           ELSE errors' = errors \union {"submission"} /\ UNCHANGED accepted
        /\ UNCHANGED <<shape, head, store, bids, cache, stream, served, signed, published, traces>>

(* Relay.bidExtended: the type of the header must be that of the slot's fork. *)
bidExtended(s, header) ==
  IF s.fork # shape.fork THEN {}
  ELSE {[BuilderBid |-> [Header |-> header, Value |-> s.v.Message.Value, Pubkey |-> s.v.Message.BuilderPubkey],
         Proposer |-> s.v.Message.ProposerPubkey, Slot |-> s.v.Message.Slot]}

Contents(s) == IF s.fork = "capella" THEN PreparePayloadContents(s.v, RelayKey)
               ELSE B!PreparePayloadContents(s.v, RelayKey)

PayloadKey(s) == IF s.fork = "capella" THEN ToPayloadKey(s.v) ELSE B!ToPayloadKey(s.v)

(* What storeSubmission makes of a submission: the entry of the payload store *)
(* and the bid, if the block has a header.                                    *)
Entries(s) == {[key |-> PayloadKey(s), fork |-> s.fork, v |-> c.Payload] : c \in Contents(s)}
Offers(s) == UNION {bidExtended(s, c.Header) : c \in Contents(s)}

(* Client.encode, in the format of the slot's fork *)
encode(topic, x) ==
  IF shape.fork # "capella" THEN {x}
  ELSE IF topic = "bid" THEN MarshalBuilderBidExtended(x) ELSE MarshalBlockAndTrace(x)

decode(topic, m) ==
  IF shape.fork # "capella" THEN {Ok(m)}
  ELSE IF topic = "bid" THEN UnmarshalBuilderBidExtended(m) ELSE UnmarshalBlockAndTrace(m)

(* Relay.storeSubmission: the payload is stored, over one with the same key, *)
(* before the bid is built; the bid is added and streamed.  It is handled    *)
(* elsewhere at any later time, so that the goroutine of PublishBuilderBid   *)
(* needs no step of its own.                                                 *)
storeSubmission ==
  \E s \in accepted :
    LET sent == UNION {encode("bid", x) : x \in Offers(s)}
    IN  /\ accepted' = accepted \ {s}
        /\ store' = {e \in store : \A n \in Entries(s) : n.key # e.key} \union Entries(s)
        /\ bids' = [bids EXCEPT !["a"] = @ \union Offers(s)]
        /\ stream' = [stream EXCEPT !["bid"] = @ \union {[from |-> "a", payload |-> m] : m \in sent}]
        /\ errors' = errors \union IF Offers(s) = {} THEN {"submission"} ELSE IF sent = {} THEN {"encode"} ELSE {}
        /\ UNCHANGED <<request, shape, head, cache, served, signed, published, traces>>

---------------------------------------------------------------------------
(* The stream.  Subscription.Next drops a relay's own messages. *)

(* Client.handleBid, then Relay.runSubscriberBid *)
handleBid ==
  \E m \in stream["bid"] :
    LET outs == decode("bid", m.payload)
    IN  /\ bids' = [bids EXCEPT !["b"] = @ \union {o.v : o \in outs \ {Crash}}]
        /\ errors' = errors \union IF Crash \in outs THEN {"panic"} ELSE IF outs = {} THEN {"decode"} ELSE {}
        /\ UNCHANGED <<request, shape, head, accepted, store, cache, stream, served, signed, published, traces>>

CacheKey(x) == <<x.Payload.Data.BlockHash, x.Trace.Message.ProposerPubkey, x.Trace.Message.Slot>>

(* Client.handleCache, then Relay.runSubscriberBlockCache *)
handleCache(r) ==
  \E m \in stream["cache"] :
    LET outs == decode("cache", m.payload)
        new == {o.v : o \in outs \ {Crash}}
    IN  /\ m.from # r
        /\ cache' = [cache EXCEPT ![r] = @ \union {[key |-> CacheKey(x), v |-> x] :
             x \in {x \in new : \A e \in cache[r] : e.key # CacheKey(x)}}]
        /\ errors' = errors \union IF Crash \in outs THEN {"panic"} ELSE IF outs = {} THEN {"decode"} ELSE {}
        /\ UNCHANGED <<request, shape, head, accepted, store, bids, stream, served, signed, published, traces>>

---------------------------------------------------------------------------
(* The proposer *)

(* Datastore.GetPayload: the JSON is decoded for the slot's fork.  An object *)
(* written for the fork before has no header hash and no withdrawals.        *)
Read(e) ==
  IF e.fork = shape.fork THEN e.v
  ELSE [Trace |-> e.v.Trace, ExecutionHeaderHash |-> Zeros(32),
        Payload |-> [e.v.Payload EXCEPT !.Data.Withdrawals = [nil |-> TRUE, list |-> << >>]]]

DatastoreGetPayload(key) == {Read(e) : e \in {e \in store : e.key = key}}

(* Relay.GetHeader: the relay signs the bid under its own key. *)
GetHeader(r) ==
  \E x \in bids[r] :
    LET bid == [Header |-> x.BuilderBid.Header, Value |-> x.BuilderBid.Value, Pubkey |-> RelayKey]
        roots == IF shape.fork = "capella" THEN BuilderBidRoot(bid) ELSE B!BuilderBidRoot(bid)
    IN  /\ served' = served \union {[by |-> r, Message |-> bid, Signature |-> <<"signed", root>>] : root \in roots}
        /\ errors' = errors \union IF roots = {} THEN {"header"} ELSE {}
        /\ UNCHANGED <<request, shape, head, accepted, store, bids, cache, stream, signed, published, traces>>

(* The goroutine that GetHeader starts when the payload is not cached: it is *)
(* read from the store, cached and streamed.                                 *)
cachePayload(r) ==
  \E x \in bids[r] :
    LET key == <<x.BuilderBid.Header.BlockHash, x.Proposer, x.Slot>>
    IN  \E p \in DatastoreGetPayload(key) :
          /\ \E h \in served : h.by = r
          /\ \A e \in cache[r] : e.key # key
          /\ cache' = [cache EXCEPT ![r] = @ \union {[key |-> key, v |-> p]}]
          /\ stream' = [stream EXCEPT !["cache"] = @ \union {[from |-> r, payload |-> m] : m \in encode("cache", p)}]
          /\ errors' = errors \union IF encode("cache", p) = {} THEN {"encode"} ELSE {}
          /\ UNCHANGED <<request, shape, head, accepted, store, bids, served, signed, published, traces>>

(* The proposer's beacon node makes the rest of the block and signs it. *)
BlindedBlock(header) ==
  LET some(list) == IF shape.bare THEN << >> ELSE list
  IN  [Signature |-> Chunk("proposerSig", 1, 96),
       Message |-> [Slot |-> Chunk("Slot", 1, 8), ProposerIndex |-> Chunk("ProposerIndex", 1, 8),
         ParentRoot |-> Chunk("ParentRoot", 1, 32), StateRoot |-> Chunk("BeaconState", 1, 32),
         Body |-> [RandaoReveal |-> Chunk("RandaoReveal", 1, 96), Graffiti |-> Chunk("Graffiti", 1, 32),
           Eth1Data |-> Chunk("Eth1Data", 1, 72), SyncAggregate |-> Chunk("SyncAggregate", 1, 160),
           ProposerSlashings |-> some(<<Chunk("slashing", 1, 416)>>),
           AttesterSlashings |-> some(<<Chunk("attester", 1, 700), Chunk("attester", 2, 500)>>),
           Attestations |-> some(<<Chunk("attestation", 1, 230)>>),
           Deposits |-> some(<<Chunk("deposit", 1, 1240)>>),
           VoluntaryExits |-> some(<<Chunk("exit", 1, 112), Chunk("exit", 2, 112)>>),
           BLSToExecutionChanges |-> some(<<[Signature |-> Chunk("changeSig", 1, 96),
             Message |-> [ValidatorIndex |-> Chunk("ChangeIndex", 1, 8),
               FromBLSPubkey |-> Chunk("From", 1, 48), ToExecutionAddress |-> Chunk("To", 1, 20)]]>>),
           ExecutionPayloadHeader |-> header]]]

Sign ==
  /\ signed = {}
  /\ \E h \in served : signed' = {BlindedBlock(h.Message.Header)}
  /\ UNCHANGED <<request, shape, head, accepted, store, bids, cache, stream, served, published, traces, errors>>

BlindedKey(s) == IF shape.fork = "capella" THEN BlindedToPayloadKey(s, Trace.ProposerPubkey)
                 ELSE B!BlindedToPayloadKey(s, Trace.ProposerPubkey)

(* The cached payload, or else the stored one *)
Payloads(r, key) ==
  LET hit == {e.v : e \in {e \in cache[r] : e.key = key}}
  IN  IF hit # {} THEN hit ELSE DatastoreGetPayload(key)

(* validatePayload: the hash of the stored header is that of the signed one. *)
validatePayload(p, s) ==
  IF shape.fork = "capella" THEN {p.ExecutionHeaderHash} = {RootBytes(root) : root \in ExecutionHeaderHash(s)}
  ELSE B!StoredHeaderHash(p) = B!ExecutionHeaderHash(s)

UnblindedBlock(p, s) == IF shape.fork = "capella" THEN ToBeaconBlock(s, p.Payload.Data)
                        ELSE B!ToBeaconBlock(s, p.Payload.Data)

DeliveredTrace(p, s) == IF shape.fork = "capella" THEN ToDeliveredTrace(p, s.Message.Slot)
                        ELSE B!ToDeliveredTrace(p, s.Message.Slot)

(* api.getPayload and Relay.GetPayload: the request is decoded for the fork of *)
(* the head slot; under the wrong one the signature does not match.            *)
GetPayload(r) ==
  \E s \in signed : \E p \in Payloads(r, BlindedKey(s)) :
    /\ IF head[r] # shape.fork THEN errors' = errors \union {"signature"} /\ UNCHANGED <<published, traces>>
       ELSE IF ~validatePayload(p, s) THEN errors' = errors \union {"payload"} /\ UNCHANGED <<published, traces>>
       ELSE /\ published' = published \union {UnblindedBlock(p, s)}
            /\ traces' = traces \union {DeliveredTrace(p, s)}
            /\ UNCHANGED errors
    /\ UNCHANGED <<request, shape, head, accepted, store, bids, cache, stream, served, signed>>

Next ==
  \/ submitBlock \/ storeSubmission \/ handleBid \/ Sign
  \/ \E r \in Relays : NewHead(r) \/ handleCache(r) \/ GetHeader(r) \/ cachePayload(r) \/ GetPayload(r)

Spec == Init /\ [][Next]_vars

---------------------------------------------------------------------------
(* SSZ does not tell nil withdrawals from none. *)
SameBlock(p, q) == [p EXCEPT !.Withdrawals.nil = FALSE] = [q EXCEPT !.Withdrawals.nil = FALSE]

(* What is stored, offered in the auction or recorded of a submission is the *)
(* builder's block, never the beginning of it that fits in the size limit:   *)
(* api.go:396 cuts a body silently, and only the decoder's bounds and the    *)
(* withdrawals root tell (submitBlock, storeSubmission).  A cut body never   *)
(* makes a decoder slice out of range, and the trace recorded for a          *)
(* delivered payload is the builder's, over the block that was released      *)
(* (ToDeliveredTrace).                                                       *)
StoredIsSubmitted ==
  /\ "panic" \notin errors
  /\ \A s \in accepted : \A c \in Contents(s) : \A f \in DOMAIN Trace : c.Trace[f] = Trace[f]
  /\ \A e \in store : e.v.Trace.Message = Trace /\ SameBlock(e.v.Payload.Data, Payload(shape))
  /\ \A r \in Relays : \A x \in bids[r] :
       /\ x.BuilderBid.Value = Trace.Value /\ x.Proposer = Trace.ProposerPubkey /\ x.Slot = Trace.Slot
       /\ \A f \in DOMAIN x.BuilderBid.Header \cap DOMAIN Payload(shape) : x.BuilderBid.Header[f] = Payload(shape)[f]
  /\ \A t \in traces :
       /\ \A f \in DOMAIN Trace : t[f] = Trace[f]
       /\ t.BlockNumber = Payload(shape).BlockNumber /\ t.NumTx = Len(shape.txs)
       /\ t.Timestamp = Payload(shape).Timestamp

(* What another relay decodes from the stream is what was encoded: the bid,  *)
(* byte order of its value included, and the payload (stream.encode,         *)
(* handleBid, handleCache).                                                  *)
RemoteIsLocal ==
  /\ bids["b"] \subseteq bids["a"]
  /\ ~shape.early => \A r \in Relays : \A e \in cache[r] : \E l \in store :
       /\ l.key = e.key /\ l.v.Trace = e.v.Trace
       /\ SameBlock(l.v.Payload.Data, e.v.Payload.Data)

(* Within a fork, a header that a relay serves can be redeemed at every relay *)
(* that has or finds the payload: the hash validatePayload compares was       *)
(* computed from the same header, on whichever path the bid and the payload   *)
(* came.  Across a fork boundary (see README) only an object that was decoded *)
(* for the fork before is refused.                                            *)
HeaderIsRedeemable ==
  /\ errors \cap {"header", "encode", "decode"} = {}
  /\ "payload" \in errors \/ "signature" \in errors => shape.early

(* The hash tree root of the published block, with the whole payload in it,  *)
(* is that of the blinded block the proposer signed: otherwise the signature *)
(* does not cover the block (PayloadToPayloadHeader, ToBeaconBlock).         *)
PublishedKeepsRoot ==
  shape.fork = "capella" /\ ~shape.nil =>
    \A b \in published : \A s \in signed :
      {BlockRoot(b.Message, root) : root \in UNION {BodyRoot(b.Message.Body, p) :
         p \in PayloadRoot(b.Message.Body.ExecutionPayload)}} = ComputeSigningRoot(s)

(* SizeSSZ is the length of what MarshalSSZ writes, for every object that is *)
(* encoded: encoders write the offset after a nested object from its size.   *)
SizesAreExact ==
  /\ request.whole /\ shape.fork = "capella" => Size(request.bytes) = SizeSubmitBlockRequest(Block(shape))
  /\ \A x \in bids["a"] : shape.fork = "capella" =>
       \A m \in MarshalBuilderBidExtended(x) : Size(m) = SizeBuilderBidExtended(x)
  /\ \A r \in Relays : \A e \in cache[r] : shape.fork = "capella" =>
       /\ \A m \in MarshalBlockAndTrace(e.v) : Size(m) = SizeBlockAndTrace(e.v)
       /\ Size(MarshalSignedBidTrace(e.v.Trace)) = SizeSignedBidTrace
       /\ Size(MarshalBidTrace(e.v.Trace.Message)) = SizeBidTrace
  /\ \A b \in published : shape.fork = "capella" =>
       \A i \in DOMAIN b.Message.Body.BLSToExecutionChanges :
         LET c == b.Message.Body.BLSToExecutionChanges[i]
         IN  /\ Size(MarshalSignedBLSToExecutionChange(c)) = SizeSignedBLSToExecutionChange
             /\ Size(MarshalBLSToExecutionChange(c.Message)) = SizeBLSToExecutionChange
  /\ \A b \in published :
       \A m \in IF shape.fork = "capella" THEN MarshalSignedBeaconBlock(b) ELSE B!MarshalSignedBeaconBlock(b) :
         Size(m) = IF shape.fork = "capella" THEN SizeSignedBeaconBlock(b) ELSE B!SizeSignedBeaconBlock(b)

(* The forks the block may have been decoded for, and what it is then: as a  *)
(* submission, in the store, as it is read from there and, when it has come  *)
(* by the stream, in a cache.                                                *)
Forks == IF shape.early THEN {"bellatrix", shape.fork} ELSE {shape.fork}
Submitted(f) == [fork |-> f, v |-> Block(shape)]
Stored == UNION {Entries(Submitted(f)) : f \in Forks}
Readable == {Read(e) : e \in Stored}
NotNil(p) == [p EXCEPT !.Payload.Data.Withdrawals.nil = FALSE]
Cacheable == Readable \union {NotNil(p) : p \in Readable}

(* The decoders undo the encoders for this block, whichever way it goes:     *)
(* UnmarshalSSZ gives the builder's block back from the body of its request, *)
(* or from a cut one something that is refused, and the bid and the payload  *)
(* from the messages of the stream (SubmitBlockRequest, BuilderBidExtended   *)
(* and BlockAndTraceExtended).                                               *)
DecodersUndoEncoders ==
  /\ shape.fork = "capella" /\ ~shape.nil =>
       \/ UnmarshalSubmitBlockRequest(request.bytes) = {Ok(Block(shape))}
       \/ \A o \in UnmarshalSubmitBlockRequest(request.bytes) : ~o.panic /\ ~verifyWithdrawals("capella", o.v)
  /\ \A x \in Offers(Submitted(shape.fork)) :
       encode("bid", x) # {} /\ \A m \in encode("bid", x) : decode("bid", m) = {Ok(x)}
  /\ \A p \in Readable :
       encode("cache", p) # {} /\ \A m \in encode("cache", p) : \E q \in {p, NotNil(p)} : decode("cache", m) = {Ok(q)}

(* The inductive invariant behind the first four: whatever the relays hold,  *)
(* stream, serve and publish is one of these forms of the one block.         *)
BlocksInv ==
  /\ shape \in Shapes
  /\ head \in [Relays -> Forks]
  /\ accepted \subseteq {Submitted(f) : f \in Forks}
  /\ store \subseteq Stored
  /\ bids \in [Relays -> SUBSET Offers(Submitted(shape.fork))] /\ bids["b"] \subseteq bids["a"]
  /\ DOMAIN stream = Topics
  /\ \A m \in stream["bid"] : \E x \in bids["a"] : m.payload \in encode("bid", x)
  /\ \A m \in stream["cache"] : store # {} /\ \E p \in Readable : m.payload \in encode("cache", p)
  /\ DOMAIN cache = Relays
  /\ \A r \in Relays : \A e \in cache[r] : store # {} /\ e.v \in Cacheable /\ e.key = PayloadKey(Submitted(shape.fork))
  /\ \A h \in served : \E x \in Offers(Submitted(shape.fork)) : h.Message.Header = x.BuilderBid.Header
  /\ \A s \in signed : \E x \in Offers(Submitted(shape.fork)) : s = BlindedBlock(x.BuilderBid.Header)
  /\ (\A s, t \in signed : s = t) /\ (published # {} => signed # {})
  /\ \A b \in published : \A s \in signed : \E p \in Cacheable : validatePayload(p, s) /\ b = UnblindedBlock(p, s)
  /\ \A t \in traces : \E p \in Cacheable : t = DeliveredTrace(p, [Message |-> [Slot |-> Trace.Slot]])
  /\ errors \subseteq {"submission"} \union IF shape.early THEN {"payload", "signature"} ELSE {}

(* The SSZ encoding of the published block, by the specification *)
BlockSSZ(f, s) ==
  LET b == s.Message.Body
      changes == [i \in DOMAIN b.BLSToExecutionChanges |-> Fields(b.BLSToExecutionChanges[i].Message,
                   <<"ValidatorIndex", "FromBLSPubkey", "ToExecutionAddress">>) \o b.BLSToExecutionChanges[i].Signature]
      body == Container(<<Fix(b.RandaoReveal), Fix(b.Eth1Data), Fix(b.Graffiti), Var(Cat(b.ProposerSlashings)),
                Var(Dynamic(b.AttesterSlashings)), Var(Dynamic(b.Attestations)), Var(Cat(b.Deposits)),
                Var(Cat(b.VoluntaryExits)), Fix(b.SyncAggregate), Var(PayloadSSZ(f, b.ExecutionPayload))>>
                \o IF f = "bellatrix" THEN << >> ELSE <<Var(Cat(changes))>>)
      message == Container([i \in 1..4 |-> Fix(s.Message[<<"Slot", "ProposerIndex", "ParentRoot", "StateRoot">>[i]])]
                           \o <<Var(body)>>)
  IN  Container(<<Var(message), Fix(s.Signature)>>)

(* SignedBeaconBlock.MarshalSSZ writes the SSZ encoding of the block: a       *)
(* beacon node that reads it finds every field where SSZ puts it.             *)
CapellaBlockIsSSZ ==
  shape.fork = "capella" => \A b \in published : MarshalSignedBeaconBlock(b) = {BlockSSZ("capella", b)}
=============================================================================
