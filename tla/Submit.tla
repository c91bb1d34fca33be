------------------------------- MODULE Submit --------------------------------
(***************************************************************************)
(* Block submissions at relay "a" and the auctions of relays "a" and "b":  *)
(* SubmitBlock of relay/submit.go, step by step, while the beacon manager  *)
(* goes from slot to slot (BeaconState), and the stream that carries bids  *)
(* to the other relay.                                                     *)
(*                                                                         *)
(* The auction is what Auctioneer is proved to implement: the last bid of  *)
(* each builder, the best of which is served.  Registration, signature,    *)
(* validation and the stores are outcomes.  The payload store is shared.   *)
(* Bids of slots the ring has left stay in the books: more is on offer     *)
(* here than in the program.                                               *)
(***************************************************************************)
EXTENDS Integers, FiniteSets

CONSTANTS
    Calls,         \* calls of SubmitBlock
    Submissions,   \* what they may be given
    Hash, NoHash,
    FirstSlot, LastSlot

ASSUME SubmitAssumption ==
    /\ FirstSlot \in Nat \ {0} /\ LastSlot \in Nat /\ FirstSlot <= LastSlot
    /\ Submissions \subseteq
         [slot : Nat, parent : Hash, traceParent : Hash, hash : Nat, traceHash : Nat, builder : Nat,
          value : Nat, numTx : Nat, random : BOOLEAN, withdrawals : {"nil", "right", "wrong"}]

VARIABLES
    headSlot, slots,  \* the state the beacon manager fills
    pc,               \* where each call is
    sbr,              \* its submission
    retried,          \* verifyBlock found the randao only at the recheck
    valErr,           \* the verdict validateBlock is to reach, then what is in its channel
    das,              \* the goroutine that stores the submission's trace
    result,           \* what the call returned
    payloads,         \* keys in the payload store
    bids,             \* per relay, the bids in its auction
    stream            \* bids published for the other relay

beaconVars == <<headSlot, slots>>
callVars == <<pc, sbr, retried, valErr, das, result>>
marketVars == <<payloads, bids, stream>>
vars == <<beaconVars, callVars, marketVars>>

State == INSTANCE BeaconState WITH
    SlotsPerEpoch <- 32, CapellaEpoch <- 1, parentBlockHash <- NoHash, duties <- {}, knownValidators <- 0, fork <- TRUE

NoSubmission == [slot |-> 0]
Relays == {"a", "b"}

Init ==
    /\ headSlot = FirstSlot
    /\ slots = [i \in 0 .. 1 |-> State!AtomicState(0)]
    /\ pc = [c \in Calls |-> "idle"]
    /\ sbr = [c \in Calls |-> NoSubmission]
    /\ retried = [c \in Calls |-> FALSE]
    /\ valErr = [c \in Calls |-> "none"]
    /\ das = [c \in Calls |-> "none"]
    /\ result = [c \in Calls |-> "none"]
    /\ payloads = {}
    /\ bids = [r \in Relays |-> {}]
    /\ stream = {}

-----------------------------------------------------------------------------
(* The beacon manager: the head first, then withdrawals, then randao *)

NextSlot ==
    /\ headSlot < LastSlot
    /\ State!SetHeadSlotIfHigher(headSlot + 1)
    /\ UNCHANGED <<slots, callVars, marketVars>>

Announce(h) ==
    /\ LET a == State!Attributes(headSlot, h)
       IN  IF State!Withdrawals(headSlot, h) = {} THEN State!SetWithdrawals(a) ELSE State!SetRandao(a)
    /\ UNCHANGED <<headSlot, callVars, marketVars>>

-----------------------------------------------------------------------------
(* SubmitBlock *)

Go(c, to) == pc' = [pc EXCEPT ![c] = to]

\* The call goes on, or ends and forgets its submission.
Continue(c, to) ==
    /\ Go(c, to)
    /\ UNCHANGED <<sbr, retried, result>>

Return(c, r) ==
    /\ Go(c, "done")
    /\ sbr' = [sbr EXCEPT ![c] = NoSubmission]
    /\ retried' = [retried EXCEPT ![c] = FALSE]
    /\ result' = [result EXCEPT ![c] = r]

\* verifyBlock up to the range of slots; a timestamp that is not the slot's is
\* refused whatever the state is.
Receive(c, s) ==
    /\ pc[c] = "idle"
    /\ \/ Return(c, "error")
       \/ IF s.slot = 0 \/ s.slot > headSlot + 1 \/ s.slot < headSlot + 1 - (State!NumberOfSlotsInState - 1)
          THEN Return(c, "error")
          ELSE Go(c, "randao") /\ sbr' = [sbr EXCEPT ![c] = s] /\ UNCHANGED <<retried, result>>
    /\ UNCHANGED <<beaconVars, valErr, das, marketVars>>

\* The randao of the slot before on this parent is known and is the block's.
RandaoMatches(s) == State!Randao(s.slot - 1, s.parent) # {} /\ s.random

ZeroBid(s) == s.value = 0 /\ s.numTx = 0
TraceMismatch(s) == s.hash # s.traceHash \/ s.parent # s.traceParent

Randao(c) ==
    /\ pc[c] = "randao"
    /\ IF ~RandaoMatches(sbr[c]) THEN Continue(c, "recheck")
       ELSE IF ZeroBid(sbr[c]) \/ TraceMismatch(sbr[c]) THEN Return(c, "error")
       ELSE Continue(c, "registration")
    /\ UNCHANGED <<beaconVars, valErr, das, marketVars>>

\* Mutated form of RandaoAgain: it is enough that there is a randao.
AnyRandao(c) ==
    /\ pc[c] = "recheck"
    /\ IF State!Randao(sbr[c].slot - 1, sbr[c].parent) = {} THEN Return(c, "error")
       ELSE Go(c, "registration") /\ retried' = [retried EXCEPT ![c] = TRUE] /\ UNCHANGED <<sbr, result>>
    /\ UNCHANGED <<beaconVars, valErr, das, marketVars>>

\* After StateRecheckDelay; the checks that follow in verifyBlock are not made.
RandaoAgain(c) ==
    /\ pc[c] = "recheck"
    /\ IF ~RandaoMatches(sbr[c]) THEN Return(c, "error")
       ELSE Go(c, "registration") /\ retried' = [retried EXCEPT ![c] = TRUE] /\ UNCHANGED <<sbr, result>>
    /\ UNCHANGED <<beaconVars, valErr, das, marketVars>>

verifySignature(c) == Return(c, "error") \/ Continue(c, "withdrawals")

\* checkRegistration; the goroutine of validateBlock is started, and then the
\* signature is verified, which reads nothing that others write.
Registration(c) ==
    /\ pc[c] = "registration"
    /\ \/ Return(c, "error") /\ UNCHANGED valErr
       \/ /\ \E v \in {"valid", "invalid"} : valErr' = [valErr EXCEPT ![c] = v]
          /\ verifySignature(c)
    /\ UNCHANGED <<beaconVars, das, marketVars>>

\* The goroutine puts the error in its channel, which has room for it, or
\* closes the channel: nil to whoever receives.
validateBlock(c) ==
    /\ \/ valErr[c] = "valid" /\ valErr' = [valErr EXCEPT ![c] = "nil"]
       \/ valErr[c] = "invalid" /\ valErr' = [valErr EXCEPT ![c] = "error"]
    /\ UNCHANGED <<beaconVars, pc, sbr, retried, das, result, marketVars>>

\* Mutated form of verifyWithdrawals: the root is looked for until it is there.
WaitForWithdrawals(c) ==
    /\ pc[c] \in {"withdrawals", "wrecheck"}
    /\ LET known == State!Withdrawals(sbr[c].slot - 1, sbr[c].parent) # {}
       IN  IF sbr[c].withdrawals = "nil" \/ (known /\ sbr[c].withdrawals = "right")
           THEN Continue(c, "wait")
           ELSE IF ~known THEN Continue(c, "wrecheck")
           ELSE Return(c, "error")
    /\ UNCHANGED <<beaconVars, valErr, das, marketVars>>

\* No withdrawals, the expected ones, or a second look after a delay.
verifyWithdrawals(c) ==
    /\ pc[c] \in {"withdrawals", "wrecheck"}
    /\ LET known == State!Withdrawals(sbr[c].slot - 1, sbr[c].parent) # {}
       IN  IF sbr[c].withdrawals = "nil" \/ (known /\ sbr[c].withdrawals = "right")
           THEN Continue(c, "wait")
           ELSE IF ~known /\ pc[c] = "withdrawals" THEN Continue(c, "wrecheck")
           ELSE Return(c, "error")
    /\ UNCHANGED <<beaconVars, valErr, das, marketVars>>

\* The answer of the validation, or the end of the request's context.
WaitValidation(c) ==
    /\ pc[c] = "wait"
    /\ \/ Return(c, "error")
       \/ valErr[c] = "nil" /\ Continue(c, "put")
    /\ UNCHANGED <<beaconVars, valErr, das, marketVars>>

-----------------------------------------------------------------------------
(* storeSubmission *)

Key(hash, s) == [hash |-> hash, slot |-> s.slot]

Bid(c) == [by |-> c, sbr |-> sbr[c], unchecked |-> retried[c]]

\* A bid replaces the one its builder had for the slot and the parent.
Entered(book, b) ==
    { d \in book : \/ d.sbr.builder # b.sbr.builder
                   \/ d.sbr.slot # b.sbr.slot
                   \/ d.sbr.parent # b.sbr.parent } \cup {b}

\* Mutated form of PutPayload: the bid is added before the payload is stored.
AddThenPut(c) ==
    /\ pc[c] = "put"
    /\ bids' = [bids EXCEPT !["a"] = Entered(bids["a"], Bid(c))]
    /\ \/ Return(c, "error") /\ UNCHANGED payloads
       \/ /\ payloads' = payloads \cup {Key(sbr[c].traceHash, sbr[c])}
          /\ Continue(c, "add")
    /\ UNCHANGED <<beaconVars, valErr, das, stream>>

\* The payload is stored under the hash of the trace (ToPayloadKey).
PutPayload(c) ==
    /\ pc[c] = "put"
    /\ \/ Return(c, "error") /\ UNCHANGED payloads
       \/ /\ payloads' = payloads \cup {Key(sbr[c].traceHash, sbr[c])}
          /\ Continue(c, "add")
    /\ UNCHANGED <<beaconVars, valErr, das, bids, stream>>

\* bidExtended may fail; the payload then stays in the store.
AddBlock(c) ==
    /\ pc[c] = "add"
    /\ \/ Return(c, "error") /\ UNCHANGED <<bids, stream, das>>
       \/ /\ bids' = [bids EXCEPT !["a"] = Entered(bids["a"], Bid(c))]
          /\ stream' = stream \cup {Bid(c)}
          /\ das' = [das EXCEPT ![c] = "running"]
          /\ Continue(c, "return")
    /\ UNCHANGED <<beaconVars, valErr, payloads>>

\* The goroutine of PutBuilderBlockSubmission; a failure is written to err, the
\* result of storeSubmission.
PutBuilderBlockSubmission(c) ==
    /\ das[c] = "running"
    /\ \E end \in {"stored", "failed"} : das' = [das EXCEPT ![c] = end]
    /\ UNCHANGED <<beaconVars, pc, sbr, retried, valErr, result, marketVars>>

\* The data race on err: once the goroutine has failed, the caller may read
\* its error or the nil of the return statement.  The request has then gone to
\* the warehouse, which takes it (AsyncsEnd of Shutdown).
SubmitReturn(c) ==
    /\ pc[c] = "return"
    /\ Return(c, "nil") \/ (das[c] = "failed" /\ Return(c, "error"))
    /\ UNCHANGED <<beaconVars, valErr, das, marketVars>>

-----------------------------------------------------------------------------
(* The other relay *)

\* runSubscriberBid: bids of the other relay arrive late, in any order or never.
runSubscriberBid ==
    /\ \E b \in stream :
          /\ bids' = [bids EXCEPT !["b"] = Entered(bids["b"], b)]
          /\ stream' = stream \ {b}
    /\ UNCHANGED <<beaconVars, callVars, payloads>>

-----------------------------------------------------------------------------
SubmitBlock(c) ==
    \/ Randao(c) \/ RandaoAgain(c) \/ Registration(c) \/ verifyWithdrawals(c)
    \/ WaitValidation(c) \/ PutPayload(c) \/ AddBlock(c) \/ SubmitReturn(c)

Next ==
    \/ NextSlot
    \/ \E h \in Hash : Announce(h)
    \/ \E c \in Calls : \/ \E s \in Submissions : Receive(c, s)
                        \/ SubmitBlock(c)
                        \/ validateBlock(c)
                        \/ PutBuilderBlockSubmission(c)
    \/ runSubscriberBid

\* The handler's goroutine runs on, and so does the validation: it ends with the
\* node's answer or with the request's context, which ends when the handler has
\* returned or the builder has gone.  Every step of the one changes pc, and of the
\* other valErr.
Fairness == \A c \in Calls : WF_pc(SubmitBlock(c)) /\ WF_valErr(validateBlock(c))

Spec == Init /\ [][Next]_vars /\ Fairness

-----------------------------------------------------------------------------
Places == {"idle", "randao", "recheck", "registration", "withdrawals", "wrecheck",
           "wait", "put", "add", "return", "done"}

TypeOK ==
    /\ headSlot \in FirstSlot .. LastSlot
    /\ \A c \in Calls :
          /\ pc[c] \in Places
          /\ valErr[c] \in {"none", "valid", "invalid", "nil", "error"}
          /\ result[c] # "none" <=> pc[c] = "done"
    /\ \A r \in Relays : \A b \in bids[r] : b.sbr \in Submissions

\* Whatever GetHeader of either relay can take from its auction has its payload
\* in the store, under the key GetPayload will ask for: the hash in the header.
\* What verifyBlock let through after a recheck, without comparing that hash to
\* the trace's, is left out.
OfferedHasPayload ==
    \A r \in Relays : \A b \in bids[r] :
        \/ Key(b.sbr.hash, b.sbr) \in payloads
        \/ b.unchecked /\ TraceMismatch(b.sbr)

\* What is offered agrees with the chain, though the head, the randao and the
\* withdrawals are read at different moments and the ring moves in between: the
\* randao is the announced one and the withdrawals, if there are any, too.
OfferedFitsChain ==
    \A r \in Relays : \A b \in bids[r] :
        b.sbr.random /\ b.sbr.withdrawals # "wrong"

\* A submission that was refused is not offered, unless it is the storing of
\* its trace that failed.
RefusedIsNotOffered ==
    \A c \in Calls : result[c] = "error" /\ das[c] # "failed" => \A r \in Relays : \A b \in bids[r] : b.by # c

\* The inductive invariant behind these: what the checks a call has passed have
\* established of its submission ...
CallInv(c) ==
    /\ pc[c] \notin {"idle", "done"} => sbr[c] \in Submissions
    /\ result[c] # "none" <=> pc[c] = "done"
    /\ pc[c] \in {"registration", "withdrawals", "wrecheck", "wait", "put", "add", "return"} =>
          sbr[c].random /\ (retried[c] \/ ~TraceMismatch(sbr[c]))
    /\ pc[c] \in {"wait", "put", "add", "return"} => sbr[c].withdrawals # "wrong"
    /\ pc[c] \in {"add", "return"} => Key(sbr[c].traceHash, sbr[c]) \in payloads

\* ... and of the bids, on offer or on the way to the other relay.
BidInv(b) ==
    /\ b.sbr.random /\ b.sbr.withdrawals # "wrong"
    /\ Key(b.sbr.hash, b.sbr) \in payloads \/ (b.unchecked /\ TraceMismatch(b.sbr))
    /\ pc[b.by] \in {"return", "done"}
    /\ pc[b.by] = "done" => result[b.by] = "nil" \/ das[b.by] = "failed"

Bids == [by : Calls, sbr : Submissions, unchecked : BOOLEAN]

SubmitInv ==
    /\ headSlot \in FirstSlot .. LastSlot
    /\ pc \in [Calls -> Places]
    /\ sbr \in [Calls -> Submissions \cup {NoSubmission}]
    /\ retried \in [Calls -> BOOLEAN]
    /\ valErr \in [Calls -> {"none", "valid", "invalid", "nil", "error"}]
    /\ das \in [Calls -> {"none", "running", "stored", "failed"}]
    /\ result \in [Calls -> {"none", "nil", "error"}]
    /\ bids \in [Relays -> SUBSET Bids] /\ stream \subseteq Bids
    /\ \A c \in Calls : CallInv(c)
    /\ \A b \in bids["a"] \cup bids["b"] \cup stream : BidInv(b)

\* Every submission is answered, and the goroutine that validates its block ends
\* even if the call has returned before it: neither a call that is done nor a
\* validation that is over goes on again.
SubmitReturns ==
    \A c \in Calls : (pc[c] # "idle") ~> (pc[c] = "done" /\ valErr[c] \notin {"valid", "invalid"})
==============================================================================
