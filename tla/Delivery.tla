------------------------------ MODULE Delivery -------------------------------
(***************************************************************************)
(* GetPayload of relay/relay.go: a proposer's signed request for the       *)
(* payload of a block is checked, the payload is looked up, the block is   *)
(* published, and the payload is handed out unless the relay's record of   *)
(* the last delivery forbids it.  The record is an atomic value that is    *)
(* loaded and stored in two steps, so calls may interleave in between; the *)
(* trace of a delivery is stored by a goroutine that outlives the call.    *)
(***************************************************************************)
EXTENDS Naturals

CONSTANTS
    Requests,      \* concurrent calls of GetPayload
    Slots,         \* slots payloads are for
    Hashes,        \* block hashes
    ZeroHash,      \* the zero hash of the initial record
    PublishBlock   \* configuration: publish before answering

Payload == [slot : Slots, hash : Hashes]

NoDelivery == [slot |-> 0, hash |-> ZeroHash]

ASSUME DeliveryAssumption ==
    /\ Slots \subseteq Nat
    /\ ZeroHash \notin Hashes
    /\ PublishBlock \in BOOLEAN

VARIABLES
    call,            \* where each call of GetPayload is
    req,             \* the payload each call is asked for
    loaded,          \* the record each call has loaded
    lastDelivered,   \* the record of the last delivery
    pending,         \* traces that goroutines are about to store
    traces,          \* delivered traces in the evidence store
    published,       \* blocks some beacon node accepted
    sent             \* payloads handed to a proposer

calls == <<call, req, loaded>>
deliveryVars == <<calls, lastDelivered, pending, traces, published, sent>>

DeliveryInit ==
    /\ call = [r \in Requests |-> "idle"]
    /\ req = [r \in Requests |-> NoDelivery]
    /\ loaded = [r \in Requests |-> NoDelivery]
    /\ lastDelivered = NoDelivery
    /\ pending = {}
    /\ traces = {}
    /\ published = {}
    /\ sent = {}

Goto(r, l) == call' = [call EXCEPT ![r] = l]

-----------------------------------------------------------------------------
\* A request for a payload arrives.
Ask(r, p) ==
    /\ call[r] = "idle"
    /\ Goto(r, "check")
    /\ req' = [req EXCEPT ![r] = p]
    /\ loaded' = [loaded EXCEPT ![r] = NoDelivery]
    /\ UNCHANGED <<lastDelivered, pending, traces, published, sent>>

\* The request is in time, of a known validator and well signed, the payload
\* is in the cache or the datastore, and its header hash is the requested
\* one.  A request that is early waits for its slot.
Check(r) ==
    /\ call[r] = "check"
    /\ Goto(r, IF PublishBlock THEN "publish" ELSE "load")
    /\ UNCHANGED <<req, loaded, lastDelivered, pending, traces, published, sent>>

\* One of these checks fails: ErrLateRequest, ErrUnknownValidator,
\* ErrInvalidSignature, ErrNoPayloadFound or ErrInvalidExecutionPayload; or
\* no block can be made of the payload for publication, ErrWrongPayload.
CheckFails(r) ==
    /\ call[r] = "check"
    /\ Goto(r, "idle")
    /\ UNCHANGED <<req, loaded, lastDelivered, pending, traces, published, sent>>

\* A beacon node accepts the block.
Publish(r) ==
    /\ call[r] \in {"publish", "republish"}
    /\ published' = published \cup {req[r]}
    /\ Goto(r, "load")
    /\ UNCHANGED <<req, loaded, lastDelivered, pending, traces, sent>>

\* Mutated form of PublishFails: the result of the retry is not looked at.
RetryIgnored(r) ==
    /\ call[r] \in {"publish", "republish"}
    /\ Goto(r, IF call[r] = "publish" THEN "republish" ELSE "load")
    /\ UNCHANGED <<req, loaded, lastDelivered, pending, traces, published, sent>>

\* No beacon node accepts it: it is tried once more after half a second,
\* and then the call fails with ErrFailedToPublish.
PublishFails(r) ==
    /\ call[r] \in {"publish", "republish"}
    /\ Goto(r, IF call[r] = "publish" THEN "republish" ELSE "idle")
    /\ UNCHANGED <<req, loaded, lastDelivered, pending, traces, published, sent>>

\* The record of the last delivery is loaded.
Load(r) ==
    /\ call[r] = "load"
    /\ loaded' = [loaded EXCEPT ![r] = lastDelivered]
    /\ Goto(r, "decide")
    /\ UNCHANGED <<req, lastDelivered, pending, traces, published, sent>>

\* Mutated form of Record: a request for the recorded slot passes as well.
RecordSameSlot(r, p) ==
    /\ loaded[r].slot <= p.slot
    /\ lastDelivered' = p
    /\ sent' = sent \cup {p}

\* The three answers, by the record as it was loaded: a higher slot is
\* recorded and delivered, the recorded block is delivered again, and any
\* other request fails with ErrPayloadDiffBlockHash or ErrHigherSlotDelivered.
Record(r, p) ==
    /\ loaded[r].slot < p.slot
    /\ lastDelivered' = p
    /\ sent' = sent \cup {p}

Resend(r, p) ==
    /\ loaded[r] = p
    /\ sent' = sent \cup {p}
    /\ UNCHANGED lastDelivered

Refuse(r, p) ==
    /\ loaded[r].slot >= p.slot
    /\ loaded[r] # p
    /\ UNCHANGED <<lastDelivered, sent>>

\* The call returns; storeTrace has been set on every path from here, so the
\* deferred goroutine is to store the trace whatever the answer.
Decide(r) ==
    LET p == req[r] IN
    /\ call[r] = "decide"
    /\ Record(r, p) \/ Resend(r, p) \/ Refuse(r, p)
    /\ pending' = pending \cup {p}
    /\ Goto(r, "idle")
    /\ UNCHANGED <<req, loaded, traces, published>>

\* The goroutine stores the trace, or PutDelivered fails and it is lost.
StoreTrace(p) ==
    /\ p \in pending
    /\ pending' = pending \ {p}
    /\ traces' \in {traces, traces \cup {p}}
    /\ UNCHANGED <<calls, lastDelivered, published, sent>>

GetPayload(r) ==
    \/ Check(r) \/ CheckFails(r) \/ Publish(r) \/ PublishFails(r) \/ Load(r) \/ Decide(r)

DeliveryNext ==
    \/ \E r \in Requests : GetPayload(r) \/ \E p \in Payload : Ask(r, p)
    \/ \E p \in Payload : StoreTrace(p)

DeliverySpec == DeliveryInit /\ [][DeliveryNext]_deliveryVars

-----------------------------------------------------------------------------
DeliveryTypeOK ==
    /\ call \in [Requests -> {"idle", "check", "publish", "republish", "load", "decide"}]
    /\ req \in [Requests -> Payload \cup {NoDelivery}]
    /\ loaded \in [Requests -> Payload \cup {NoDelivery}]
    /\ lastDelivered \in Payload \cup {NoDelivery}
    /\ pending \subseteq Payload
    /\ traces \subseteq Payload
    /\ published \subseteq Payload
    /\ sent \subseteq Payload

\* Payloads of two different blocks are never handed out for one slot: the
\* second request is to fail with "slot payload already delivered with
\* different blockHash".
OneBlockPerSlot == \A p, q \in sent : p.slot = q.slot => p = q

\* No payload is handed out for a slot below one already delivered: such a
\* request is to fail with "slot already delivered with higher slot".
NeverSendsLower ==
    [][\A p \in sent' \ sent : \A q \in sent : q.slot <= p.slot]_deliveryVars

\* With PublishBlock on, the proposer gets a payload, and the evidence store
\* the trace of a delivery, only after a beacon node has accepted the block,
\* on the first attempt or on the retry.
SentWasPublished == PublishBlock => sent \cup traces \subseteq published

\* Every payload handed out is for a slot that the record of the last
\* delivery has reached: the record never loses a delivery to an older one.
RecordCoversSent == \A p \in sent : p.slot <= lastDelivered.slot

-----------------------------------------------------------------------------
\* The inductive invariant for any number of calls: a call past publication
\* has seen its block accepted.
PublishedInv ==
    /\ DeliveryTypeOK
    /\ \A r \in Requests : call[r] # "idle" => req[r] \in Payload
    /\ PublishBlock =>
          /\ sent \cup pending \cup traces \subseteq published
          /\ \A r \in Requests : call[r] \in {"load", "decide"} => req[r] \in published

\* The inductive invariant when calls do not overlap: what a call has loaded
\* is still the record, and the record is the one delivery of its slot and
\* above every other.
SequentialInv ==
    /\ DeliveryTypeOK
    /\ \A r \in Requests : call[r] # "idle" => req[r] \in Payload
    /\ \A r \in Requests : call[r] = "decide" => loaded[r] = lastDelivered
    /\ \A p \in sent : p.slot < lastDelivered.slot \/ p = lastDelivered
    /\ OneBlockPerSlot
==============================================================================
