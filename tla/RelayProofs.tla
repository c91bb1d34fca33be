---------------------------- MODULE RelayProofs ------------------------------
(***************************************************************************)
(* Theorems about the two calls of the relay package.                      *)
(*                                                                         *)
(* SubmitBlock, for any number of calls, any submissions and any slots:    *)
(* what the auctions of the two relays offer has its payload in the store  *)
(* and passed the checks, and a submission that was refused is not on      *)
(* offer.                                                                  *)
(*                                                                         *)
(* GetPayload, for any number of calls: what the proposer gets was         *)
(* published; and for calls that do not overlap, the record of the last    *)
(* delivery does what its two errors say.                                  *)
(***************************************************************************)
EXTENDS Submit, Delivery, TLAPS

OnOffer == bids["a"] \cup bids["b"] \cup stream

-----------------------------------------------------------------------------
\* A step of one call that adds no bid keeps the invariant if it keeps that of
\* the call, and if a call whose bid is on offer does not take back its answer.
LEMMA CallStep ==
    ASSUME SubmitInv, NEW c \in Calls,
           UNCHANGED <<headSlot, bids, stream>>,
           payloads \subseteq payloads',
           pc' \in [Calls -> Places], sbr' \in [Calls -> Submissions \cup {NoSubmission}],
           retried' \in [Calls -> BOOLEAN],
           valErr' \in [Calls -> {"none", "valid", "invalid", "nil", "error"}],
           das' \in [Calls -> {"none", "running", "stored", "failed"}],
           result' \in [Calls -> {"none", "nil", "error"}],
           \A d \in Calls \ {c} : /\ pc'[d] = pc[d] /\ sbr'[d] = sbr[d] /\ retried'[d] = retried[d]
                                  /\ das'[d] = das[d] /\ result'[d] = result[d],
           CallInv(c)',
           pc[c] \in {"return", "done"} =>
              /\ pc'[c] \in {"return", "done"}
              /\ pc[c] = "done" /\ (result[c] = "nil" \/ das[c] = "failed") =>
                    result'[c] = "nil" \/ das'[c] = "failed"
              /\ pc[c] = "return" /\ pc'[c] = "done" => result'[c] = "nil" \/ das'[c] = "failed"
    PROVE  SubmitInv'
<1>1. ASSUME NEW d \in Calls PROVE CallInv(d)'
  <2>1. CASE d # c
    BY <2>1 DEF SubmitInv, CallInv
  <2> QED
    BY <2>1, Zenon
<1>2. ASSUME NEW b \in OnOffer PROVE BidInv(b)'
  <2>1. b \in Bids /\ b.by \in Calls /\ BidInv(b)
    BY DEF SubmitInv, OnOffer, Bids, Relays
  <2>2. CASE b.by # c
    BY <2>1, <2>2, Zenon DEF BidInv
  <2>3. CASE b.by = c
    BY <2>1, <2>3, Zenon DEF BidInv
  <2> QED
    BY <2>2, <2>3, Zenon
<1>3. OnOffer' = OnOffer
  BY Zenon DEF OnOffer
<1> QED
  BY <1>1, <1>2, <1>3, Zenon DEF SubmitInv, OnOffer

\* A call that returns is done with its submission.
LEMMA ReturnInv ==
    ASSUME SubmitInv, NEW c \in Calls, NEW r \in {"nil", "error"}, Return(c, r),
           pc[c] = "return" => r = "nil" \/ das[c] = "failed", pc[c] # "done",
           valErr' \in [Calls -> {"none", "valid", "invalid", "nil", "error"}],
           UNCHANGED <<headSlot, das, payloads, bids, stream>>
    PROVE  SubmitInv'
<1>1. /\ pc' = [pc EXCEPT ![c] = "done"] /\ sbr' = [sbr EXCEPT ![c] = NoSubmission]
      /\ retried' = [retried EXCEPT ![c] = FALSE] /\ result' = [result EXCEPT ![c] = r]
  BY Zenon DEF Return, Go
<1>2. /\ pc \in [Calls -> Places] /\ sbr \in [Calls -> Submissions \cup {NoSubmission}]
      /\ retried \in [Calls -> BOOLEAN] /\ result \in [Calls -> {"none", "nil", "error"}]
      /\ das \in [Calls -> {"none", "running", "stored", "failed"}]
  BY Zenon DEF SubmitInv
<1>3. /\ pc' \in [Calls -> Places] /\ sbr' \in [Calls -> Submissions \cup {NoSubmission}]
      /\ retried' \in [Calls -> BOOLEAN] /\ result' \in [Calls -> {"none", "nil", "error"}]
      /\ pc'[c] = "done" /\ result'[c] = r
      /\ \A d \in Calls \ {c} : /\ pc'[d] = pc[d] /\ sbr'[d] = sbr[d] /\ retried'[d] = retried[d]
                                /\ result'[d] = result[d]
  BY <1>1, <1>2, Zenon DEF Places
<1>4. CallInv(c)'
  BY <1>3, Zenon DEF CallInv
<1> QED
  BY <1>2, <1>3, <1>4, CallStep, Zenon

\* A call that goes on to a place for which its submission has what it needs.
LEMMA ContinueInv ==
    ASSUME SubmitInv, NEW c \in Calls, NEW to \in Places \ {"idle", "done"}, Continue(c, to),
           pc[c] \notin {"idle", "return", "done"},
           payloads \subseteq payloads',
           to = "registration" => sbr[c].random /\ (retried[c] \/ ~TraceMismatch(sbr[c])),
           to \in {"withdrawals", "wrecheck", "wait", "put", "add", "return"} =>
              pc[c] \in {"registration", "withdrawals", "wrecheck", "wait", "put", "add"},
           to = "wait" => sbr[c].withdrawals # "wrong",
           to \in {"put", "add", "return"} => pc[c] \in {"wait", "put", "add"},
           to = "add" => Key(sbr[c].traceHash, sbr[c]) \in payloads',
           to # "return",
           valErr' \in [Calls -> {"none", "valid", "invalid", "nil", "error"}],
           UNCHANGED <<headSlot, das, bids, stream>>
    PROVE  SubmitInv'
<1>1. pc' = [pc EXCEPT ![c] = to] /\ UNCHANGED <<sbr, retried, result>>
  BY Zenon DEF Continue, Go
<1>2. /\ pc \in [Calls -> Places] /\ sbr \in [Calls -> Submissions \cup {NoSubmission}]
      /\ retried \in [Calls -> BOOLEAN] /\ result \in [Calls -> {"none", "nil", "error"}]
      /\ das \in [Calls -> {"none", "running", "stored", "failed"}] /\ CallInv(c)
  BY Zenon DEF SubmitInv
<1>3. pc' \in [Calls -> Places] /\ pc'[c] = to /\ \A d \in Calls \ {c} : pc'[d] = pc[d]
  BY <1>1, <1>2, Zenon
<1>4. CallInv(c)'
  BY <1>1, <1>2, <1>3, Zenon DEF CallInv
<1> QED
  BY <1>1, <1>2, <1>3, <1>4, CallStep, Zenon

-----------------------------------------------------------------------------
(* The steps of a call *)

\* A new call has established nothing yet.
LEMMA ReceiveInv ==
    ASSUME SubmitInv, NEW c \in Calls, NEW s \in Submissions, Receive(c, s)
    PROVE  SubmitInv'
<1>1. pc[c] = "idle" /\ UNCHANGED <<headSlot, valErr, das, payloads, bids, stream>>
  BY Zenon DEF Receive, beaconVars, marketVars
<1>2. CASE Return(c, "error")
  BY <1>1, <1>2, ReturnInv, Zenon DEF SubmitInv
<1>3. CASE Go(c, "randao") /\ sbr' = [sbr EXCEPT ![c] = s] /\ UNCHANGED <<retried, result>>
  <2>1. /\ pc \in [Calls -> Places] /\ sbr \in [Calls -> Submissions \cup {NoSubmission}]
        /\ retried \in [Calls -> BOOLEAN] /\ result \in [Calls -> {"none", "nil", "error"}]
        /\ valErr \in [Calls -> {"none", "valid", "invalid", "nil", "error"}]
        /\ das \in [Calls -> {"none", "running", "stored", "failed"}] /\ CallInv(c)
    BY Zenon DEF SubmitInv
  <2>2. /\ pc' \in [Calls -> Places] /\ sbr' \in [Calls -> Submissions \cup {NoSubmission}]
        /\ pc'[c] = "randao" /\ sbr'[c] = s
        /\ \A d \in Calls \ {c} : pc'[d] = pc[d] /\ sbr'[d] = sbr[d]
    BY <1>3, <2>1, Zenon DEF Go, Places
  <2>3. CallInv(c)'
    BY <1>1, <1>3, <2>1, <2>2, Zenon DEF CallInv
  <2> QED
    BY <1>1, <1>3, <2>1, <2>2, <2>3, CallStep, Zenon
<1> QED
  BY <1>2, <1>3, Zenon DEF Receive

\* The first check of the randao lets a block pass only if it fits, or puts it
\* off.
LEMMA RandaoInv ==
    ASSUME SubmitInv, NEW c \in Calls, Randao(c)
    PROVE  SubmitInv'
<1>1. pc[c] = "randao" /\ UNCHANGED <<headSlot, valErr, das, payloads, bids, stream>>
  BY Zenon DEF Randao, beaconVars, marketVars
<1>2. valErr' \in [Calls -> {"none", "valid", "invalid", "nil", "error"}]
  BY <1>1, Zenon DEF SubmitInv
<1>3. CASE Return(c, "error")
  BY <1>1, <1>2, <1>3, ReturnInv, Zenon
<1>4. CASE Continue(c, "recheck")
  BY <1>1, <1>2, <1>4, ContinueInv, Zenon DEF Places
<1>5. CASE RandaoMatches(sbr[c]) /\ ~TraceMismatch(sbr[c]) /\ Continue(c, "registration")
  <2>1. sbr[c].random
    BY <1>5, Zenon DEF RandaoMatches
  <2> QED
    BY <1>1, <1>2, <1>5, <2>1, ContinueInv, Zenon DEF Places
<1> QED
  BY <1>3, <1>4, <1>5, Zenon DEF Randao

\* After the recheck the trace has not been compared, which retried remembers.
LEMMA RandaoAgainInv ==
    ASSUME SubmitInv, NEW c \in Calls, RandaoAgain(c)
    PROVE  SubmitInv'
<1>1. pc[c] = "recheck" /\ UNCHANGED <<headSlot, valErr, das, payloads, bids, stream>>
  BY Zenon DEF RandaoAgain, beaconVars, marketVars
<1>2. CASE Return(c, "error")
  BY <1>1, <1>2, ReturnInv, Zenon DEF SubmitInv
<1>3. CASE /\ RandaoMatches(sbr[c]) /\ Go(c, "registration")
           /\ retried' = [retried EXCEPT ![c] = TRUE] /\ UNCHANGED <<sbr, result>>
  <2>1. /\ pc \in [Calls -> Places] /\ sbr \in [Calls -> Submissions \cup {NoSubmission}]
        /\ retried \in [Calls -> BOOLEAN] /\ result \in [Calls -> {"none", "nil", "error"}]
        /\ valErr \in [Calls -> {"none", "valid", "invalid", "nil", "error"}]
        /\ das \in [Calls -> {"none", "running", "stored", "failed"}] /\ CallInv(c)
    BY Zenon DEF SubmitInv
  <2>2. /\ pc' \in [Calls -> Places] /\ retried' \in [Calls -> BOOLEAN]
        /\ pc'[c] = "registration" /\ retried'[c] = TRUE
        /\ \A d \in Calls \ {c} : pc'[d] = pc[d] /\ retried'[d] = retried[d]
    BY <1>3, <2>1, Zenon DEF Go, Places
  <2>3. sbr[c].random
    BY <1>3, Zenon DEF RandaoMatches
  <2>4. CallInv(c)'
    BY <1>1, <1>3, <2>1, <2>2, <2>3, Zenon DEF CallInv
  <2> QED
    BY <1>1, <1>3, <2>1, <2>2, <2>4, CallStep, Zenon
<1> QED
  BY <1>2, <1>3, Zenon DEF RandaoAgain

\* The check of the registration starts the validation and nothing else.
LEMMA RegistrationInv ==
    ASSUME SubmitInv, NEW c \in Calls, Registration(c)
    PROVE  SubmitInv'
<1>1. pc[c] = "registration" /\ UNCHANGED <<headSlot, das, payloads, bids, stream>>
  BY Zenon DEF Registration, beaconVars, marketVars
<1>2. valErr' \in [Calls -> {"none", "valid", "invalid", "nil", "error"}]
  BY Zenon DEF Registration, SubmitInv
<1>3. CASE Return(c, "error")
  BY <1>1, <1>2, <1>3, ReturnInv, Zenon
<1>4. CASE Continue(c, "withdrawals")
  BY <1>1, <1>2, <1>4, ContinueInv, Zenon DEF Places
<1> QED
  BY <1>3, <1>4, Zenon DEF Registration, verifySignature

\* The check of the withdrawals, at first and when it is repeated.
LEMMA WithdrawalsInv ==
    ASSUME SubmitInv, NEW c \in Calls, verifyWithdrawals(c)
    PROVE  SubmitInv'
<1>1. pc[c] \in {"withdrawals", "wrecheck"} /\ UNCHANGED <<headSlot, valErr, das, payloads, bids, stream>>
  BY Zenon DEF verifyWithdrawals, beaconVars, marketVars
<1>2. valErr' \in [Calls -> {"none", "valid", "invalid", "nil", "error"}]
  BY <1>1, Zenon DEF SubmitInv
<1>3. CASE Return(c, "error")
  BY <1>1, <1>2, <1>3, ReturnInv, Zenon
<1>4. CASE Continue(c, "wrecheck")
  BY <1>1, <1>2, <1>4, ContinueInv, Zenon DEF Places
<1>5. CASE sbr[c].withdrawals # "wrong" /\ Continue(c, "wait")
  BY <1>1, <1>2, <1>5, ContinueInv, Zenon DEF Places
<1> QED
  BY <1>3, <1>4, <1>5, Zenon DEF verifyWithdrawals

\* A call goes on to store its payload only after a good validation.
LEMMA WaitInv ==
    ASSUME SubmitInv, NEW c \in Calls, WaitValidation(c)
    PROVE  SubmitInv'
<1>1. pc[c] = "wait" /\ UNCHANGED <<headSlot, valErr, das, payloads, bids, stream>>
  BY Zenon DEF WaitValidation, beaconVars, marketVars
<1>2. valErr' \in [Calls -> {"none", "valid", "invalid", "nil", "error"}]
  BY <1>1, Zenon DEF SubmitInv
<1>3. CASE Return(c, "error")
  BY <1>1, <1>2, <1>3, ReturnInv, Zenon
<1>4. CASE Continue(c, "put")
  BY <1>1, <1>2, <1>4, ContinueInv, Zenon DEF Places
<1> QED
  BY <1>3, <1>4, Zenon DEF WaitValidation

\* The payload is stored before the bid is entered.
LEMMA PutInv ==
    ASSUME SubmitInv, NEW c \in Calls, PutPayload(c)
    PROVE  SubmitInv'
<1>1. pc[c] = "put" /\ UNCHANGED <<headSlot, valErr, das, bids, stream>>
  BY Zenon DEF PutPayload, beaconVars
<1>2. valErr' \in [Calls -> {"none", "valid", "invalid", "nil", "error"}]
  BY <1>1, Zenon DEF SubmitInv
<1>3. CASE Return(c, "error") /\ UNCHANGED payloads
  BY <1>1, <1>2, <1>3, ReturnInv, Zenon
<1>4. CASE payloads' = payloads \cup {Key(sbr[c].traceHash, sbr[c])} /\ Continue(c, "add")
  <2>1. payloads \subseteq payloads' /\ Key(sbr[c].traceHash, sbr[c]) \in payloads'
    BY <1>4, Zenon
  <2> QED
    BY <1>1, <1>2, <1>4, <2>1, ContinueInv, Zenon DEF Places
<1> QED
  BY <1>3, <1>4, Zenon DEF PutPayload

\* The bid of a call that has stored its payload: what the checks established
\* of the submission holds of the bid.
LEMMA AddInv ==
    ASSUME SubmitInv, NEW c \in Calls, AddBlock(c)
    PROVE  SubmitInv'
<1>1. pc[c] = "add" /\ UNCHANGED <<headSlot, valErr, payloads>>
  BY Zenon DEF AddBlock, beaconVars
<1>2. /\ pc \in [Calls -> Places] /\ sbr \in [Calls -> Submissions \cup {NoSubmission}]
      /\ retried \in [Calls -> BOOLEAN] /\ result \in [Calls -> {"none", "nil", "error"}]
      /\ valErr \in [Calls -> {"none", "valid", "invalid", "nil", "error"}]
      /\ das \in [Calls -> {"none", "running", "stored", "failed"}] /\ CallInv(c)
      /\ bids \in [Relays -> SUBSET Bids] /\ stream \subseteq Bids
  BY Zenon DEF SubmitInv
<1>3. CASE Return(c, "error") /\ UNCHANGED <<bids, stream, das>>
  BY <1>1, <1>2, <1>3, ReturnInv, Zenon
<1>4. CASE /\ bids' = [bids EXCEPT !["a"] = Entered(bids["a"], Bid(c))]
           /\ stream' = stream \cup {Bid(c)}
           /\ das' = [das EXCEPT ![c] = "running"]
           /\ Continue(c, "return")
  <2>1. UNCHANGED <<sbr, retried, result>> /\ pc' = [pc EXCEPT ![c] = "return"]
    BY <1>4, Zenon DEF Continue, Go
  <2>2. /\ pc' \in [Calls -> Places] /\ pc'[c] = "return" /\ \A d \in Calls \ {c} : pc'[d] = pc[d]
        /\ das' \in [Calls -> {"none", "running", "stored", "failed"}]
        /\ \A d \in Calls \ {c} : das'[d] = das[d]
    BY <1>2, <1>4, <2>1, Zenon DEF Places
  <2>3. Bid(c) \in Bids /\ Bid(c).by = c /\ Bid(c).sbr = sbr[c] /\ Bid(c).unchecked = retried[c]
    BY <1>1, <1>2, Zenon DEF Bid, Bids, CallInv
  <2>4. /\ bids' \in [Relays -> SUBSET Bids] /\ stream' \subseteq Bids
        /\ OnOffer' \subseteq OnOffer \cup {Bid(c)}
    <3>1. Entered(bids["a"], Bid(c)) \subseteq bids["a"] \cup {Bid(c)} /\ bids["a"] \subseteq Bids
      BY <1>2, Zenon DEF Entered, Relays
    <3> QED
      BY <1>2, <1>4, <2>3, <3>1, Zenon DEF OnOffer, Relays
  <2>5. ASSUME NEW d \in Calls PROVE CallInv(d)'
    BY <1>1, <1>2, <2>1, <2>2, ZenonT(30) DEF SubmitInv, CallInv
  <2>6. BidInv(Bid(c))'
    <3>1. /\ sbr[c].random /\ sbr[c].withdrawals # "wrong"
          /\ retried[c] \/ ~TraceMismatch(sbr[c])
          /\ Key(sbr[c].traceHash, sbr[c]) \in payloads
      BY <1>1, <1>2, Zenon DEF CallInv
    <3>2. Key(sbr[c].hash, sbr[c]) \in payloads \/ (retried[c] /\ TraceMismatch(sbr[c]))
      BY <3>1, Zenon DEF TraceMismatch
    <3>3. Bid(c)' = Bid(c)
      BY <2>1, Zenon DEF Bid
    <3> QED
      BY <1>1, <2>2, <2>3, <3>1, <3>2, <3>3, Zenon DEF BidInv
  <2>7. ASSUME NEW b \in OnOffer PROVE BidInv(b)'
    <3>1. b \in Bids /\ b.by \in Calls /\ BidInv(b)
      BY Zenon DEF SubmitInv, OnOffer, Bids, Relays
    <3>2. b.by # c
      BY <1>1, <3>1, Zenon DEF BidInv
    <3> QED
      BY <1>1, <2>1, <2>2, <3>1, <3>2, Zenon DEF BidInv
  <2>8. \A b \in OnOffer' : BidInv(b)'
    <3>1. Bid(c)' = Bid(c)
      BY <2>1, Zenon DEF Bid
    <3> QED
      BY <2>4, <2>6, <2>7, <3>1, Zenon DEF BidInv
  <2> QED
    BY <1>1, <1>2, <2>1, <2>2, <2>4, <2>5, <2>8, Zenon DEF SubmitInv, OnOffer
<1> QED
  BY <1>3, <1>4, Zenon DEF AddBlock

\* Storing the trace ends either way; only a failure can turn the answer of a
\* call whose bid is on offer into an error.
LEMMA TraceInv ==
    ASSUME SubmitInv, NEW c \in Calls, PutBuilderBlockSubmission(c)
    PROVE  SubmitInv'
<1>1. /\ das[c] = "running" /\ UNCHANGED <<headSlot, pc, sbr, retried, valErr, result, payloads, bids, stream>>
      /\ \E end \in {"stored", "failed"} : das' = [das EXCEPT ![c] = end]
  BY Zenon DEF PutBuilderBlockSubmission, beaconVars, marketVars
<1>2. /\ pc \in [Calls -> Places] /\ sbr \in [Calls -> Submissions \cup {NoSubmission}]
      /\ retried \in [Calls -> BOOLEAN] /\ result \in [Calls -> {"none", "nil", "error"}]
      /\ valErr \in [Calls -> {"none", "valid", "invalid", "nil", "error"}]
      /\ das \in [Calls -> {"none", "running", "stored", "failed"}] /\ CallInv(c)
  BY Zenon DEF SubmitInv
<1>3. /\ das' \in [Calls -> {"none", "running", "stored", "failed"}]
      /\ \A d \in Calls \ {c} : das'[d] = das[d]
  BY <1>1, <1>2, ZenonT(30)
<1>4. CallInv(c)'
  BY <1>1, <1>2, Zenon DEF CallInv
<1> QED
  BY <1>1, <1>2, <1>3, <1>4, CallStep, Zenon

\* The result of a call says no more than its checks and writes did.
LEMMA SubmitReturnInv ==
    ASSUME SubmitInv, NEW c \in Calls, SubmitReturn(c)
    PROVE  SubmitInv'
<1>1. pc[c] = "return" /\ UNCHANGED <<headSlot, valErr, das, payloads, bids, stream>>
  BY Zenon DEF SubmitReturn, beaconVars, marketVars
<1>2. valErr' \in [Calls -> {"none", "valid", "invalid", "nil", "error"}]
  BY <1>1, Zenon DEF SubmitInv
<1>3. CASE Return(c, "nil")
  BY <1>1, <1>2, <1>3, ReturnInv, Zenon
<1>4. CASE das[c] = "failed" /\ Return(c, "error")
  BY <1>1, <1>2, <1>4, ReturnInv, Zenon
<1> QED
  BY <1>3, <1>4, Zenon DEF SubmitReturn

\* A bid that reaches the other relay was on offer already.
LEMMA SubscriberInv ==
    ASSUME SubmitInv, runSubscriberBid
    PROVE  SubmitInv'
<1>1. PICK b \in stream : /\ bids' = [bids EXCEPT !["b"] = Entered(bids["b"], b)]
                          /\ stream' = stream \ {b}
  BY Zenon DEF runSubscriberBid
<1>2. UNCHANGED <<headSlot, pc, sbr, retried, valErr, das, result, payloads>>
  BY Zenon DEF runSubscriberBid, beaconVars, callVars
<1>3. bids \in [Relays -> SUBSET Bids] /\ stream \subseteq Bids /\ "a" \in Relays /\ "b" \in Relays
  BY Zenon DEF SubmitInv, Relays
<1>4. Entered(bids["b"], b) \subseteq bids["b"] \cup {b}
  BY Zenon DEF Entered
<1>5. bids' \in [Relays -> SUBSET Bids] /\ stream' \subseteq Bids /\ OnOffer' \subseteq OnOffer
  BY <1>1, <1>3, <1>4, Zenon DEF OnOffer, Relays
<1>6. \A d \in OnOffer' : BidInv(d)'
  BY <1>2, <1>5, Zenon DEF SubmitInv, OnOffer, BidInv
<1>7. \A c \in Calls : CallInv(c)'
  BY <1>2, Zenon DEF SubmitInv, CallInv
<1> QED
  BY <1>2, <1>5, <1>6, <1>7, Zenon DEF SubmitInv, OnOffer

\* The rest: the beacon manager, the goroutine that validates, a stuttering step.
LEMMA OtherInv ==
    ASSUME SubmitInv,
           NextSlot \/ (\E h \in Hash : Announce(h)) \/ (\E c \in Calls : validateBlock(c)) \/ UNCHANGED vars
    PROVE  SubmitInv'
<1>1. UNCHANGED <<pc, sbr, retried, das, result, payloads, bids, stream>>
  BY Zenon DEF NextSlot, Announce, validateBlock, vars, callVars, marketVars
<1>2. valErr' \in [Calls -> {"none", "valid", "invalid", "nil", "error"}]
  BY ZenonT(30) DEF NextSlot, Announce, validateBlock, vars, callVars, SubmitInv
<1>3. headSlot' \in FirstSlot .. LastSlot
  <2>1. headSlot \in FirstSlot .. LastSlot
    BY Zenon DEF SubmitInv
  <2>2. CASE NextSlot
    BY <2>1, <2>2, SubmitAssumption DEF NextSlot, State!SetHeadSlotIfHigher
  <2>3. CASE (\E h \in Hash : Announce(h)) \/ (\E c \in Calls : validateBlock(c)) \/ UNCHANGED vars
    BY <2>1, <2>3, Zenon DEF Announce, validateBlock, vars, beaconVars
  <2> QED
    BY <2>2, <2>3, Zenon
<1>4. \A c \in Calls : CallInv(c)'
  BY <1>1, Zenon DEF SubmitInv, CallInv
<1>5. \A b \in OnOffer' : BidInv(b)'
  BY <1>1, Zenon DEF SubmitInv, OnOffer, BidInv
<1> QED
  BY <1>1, <1>2, <1>3, <1>4, <1>5, Zenon DEF SubmitInv, OnOffer

-----------------------------------------------------------------------------
\* At first nothing is on offer.
LEMMA Init_SubmitInv == Init => SubmitInv
<1> SUFFICES ASSUME Init PROVE SubmitInv
  BY Zenon
<1>1. headSlot \in FirstSlot .. LastSlot
  BY SubmitAssumption DEF Init
<1>2. \A c \in Calls : CallInv(c)
  BY Zenon DEF Init, CallInv
<1>3. bids["a"] \cup bids["b"] \cup stream = {}
  BY Zenon DEF Init, Relays
<1> QED
  BY <1>1, <1>2, <1>3, Zenon DEF Init, SubmitInv, Places, Relays

\* Every step, of a call, the stream or the beacon manager, keeps SubmitInv.
LEMMA Next_SubmitInv == SubmitInv /\ [Next]_vars => SubmitInv'
  BY ReceiveInv, RandaoInv, RandaoAgainInv, RegistrationInv, WithdrawalsInv, WaitInv, PutInv, AddInv,
     TraceInv, SubmitReturnInv, SubscriberInv, OtherInv, Zenon DEF Next, SubmitBlock

\* Calls keep their types: each ends with exactly one answer.
THEOREM TypeCorrect == Spec => []TypeOK
<1>1. SubmitInv => TypeOK
  <2> SUFFICES ASSUME SubmitInv PROVE TypeOK
    BY Zenon
  <2>1. \A r \in Relays : \A b \in bids[r] : b.sbr \in Submissions
    BY DEF SubmitInv, Bids
  <2> QED
    BY <2>1, Zenon DEF SubmitInv, CallInv, TypeOK
<1> QED
  BY <1>1, Init_SubmitInv, Next_SubmitInv, PTL DEF Spec

\* Every bid either relay can serve has its payload in the store under the hash
\* of its header, unless the recheck let a trace with another hash through.
THEOREM PayloadTheorem == Spec => []OfferedHasPayload
<1>1. SubmitInv => OfferedHasPayload
  BY Zenon DEF SubmitInv, OfferedHasPayload, BidInv, Relays
<1> QED
  BY <1>1, Init_SubmitInv, Next_SubmitInv, PTL DEF Spec

\* What is on offer passed the checks against the chain.
THEOREM ChainTheorem == Spec => []OfferedFitsChain
<1>1. SubmitInv => OfferedFitsChain
  BY Zenon DEF SubmitInv, OfferedFitsChain, BidInv, Relays
<1> QED
  BY <1>1, Init_SubmitInv, Next_SubmitInv, PTL DEF Spec

\* A refused submission is not on offer, unless storing its trace failed.
THEOREM RefusedTheorem == Spec => []RefusedIsNotOffered
<1>1. SubmitInv => RefusedIsNotOffered
  <2> SUFFICES ASSUME SubmitInv, NEW c \in Calls, result[c] = "error", das[c] # "failed",
                      NEW r \in Relays, NEW b \in bids[r]
               PROVE  b.by # c
    BY Zenon DEF RefusedIsNotOffered
  <2>1. BidInv(b) /\ CallInv(c)
    BY Zenon DEF SubmitInv, Relays
  <2> QED
    BY <2>1, Zenon DEF BidInv, CallInv
<1> QED
  BY <1>1, Init_SubmitInv, Next_SubmitInv, PTL DEF Spec

-----------------------------------------------------------------------------
(* GetPayload *)

\* The inductive invariant of all calls, overlapping or not.
LEMMA PublishedInvariant == DeliverySpec => []PublishedInv
<1>1. DeliveryInit => PublishedInv
  BY Zenon DEF DeliveryInit, PublishedInv, DeliveryTypeOK, NoDelivery
<1>2. PublishedInv /\ [DeliveryNext]_deliveryVars => PublishedInv'
  <2> SUFFICES ASSUME PublishedInv, [DeliveryNext]_deliveryVars
               PROVE  PublishedInv'
    BY Zenon
  <2> USE DEF PublishedInv, DeliveryTypeOK, Goto, calls
  <2>1. ASSUME NEW r \in Requests, NEW p \in Payload, Ask(r, p)
        PROVE  PublishedInv'
    BY <2>1, Zenon DEF Ask
  <2>2. ASSUME NEW r \in Requests, Check(r)
        PROVE  PublishedInv'
    BY <2>2, Zenon DEF Check
  <2>3. ASSUME NEW r \in Requests, CheckFails(r)
        PROVE  PublishedInv'
    BY <2>3, Zenon DEF CheckFails
  <2>4. ASSUME NEW r \in Requests, Publish(r)
        PROVE  PublishedInv'
    BY <2>4, Zenon DEF Publish
  <2>5. ASSUME NEW r \in Requests, PublishFails(r)
        PROVE  PublishedInv'
    BY <2>5, Zenon DEF PublishFails
  <2>6. ASSUME NEW r \in Requests, Load(r)
        PROVE  PublishedInv'
    BY <2>6, Zenon DEF Load
  <2>7. ASSUME NEW r \in Requests, Decide(r)
        PROVE  PublishedInv'
    BY <2>7, ZenonT(30) DEF Decide, Record, Resend, Refuse
  <2>8. ASSUME NEW p \in Payload, StoreTrace(p)
        PROVE  PublishedInv'
    BY <2>8, Zenon DEF StoreTrace
  <2>9. CASE UNCHANGED deliveryVars
    BY <2>9, Zenon DEF deliveryVars
  <2> QED
    BY <2>1, <2>2, <2>3, <2>4, <2>5, <2>6, <2>7, <2>8, <2>9, Zenon DEF DeliveryNext, GetPayload
<1> QED
  BY <1>1, <1>2, PTL DEF DeliverySpec

\* The types of the calls and of the record of the last delivery.
THEOREM DeliveryTypeCorrect == DeliverySpec => []DeliveryTypeOK
<1>1. PublishedInv => DeliveryTypeOK
  BY Zenon DEF PublishedInv
<1> QED
  BY <1>1, PublishedInvariant, PTL

\* With publication on, every payload handed out was accepted by a beacon
\* node first, however the calls interleave.
THEOREM PublicationTheorem == DeliverySpec => []SentWasPublished
<1>1. PublishedInv => SentWasPublished
  BY Zenon DEF PublishedInv, SentWasPublished
<1> QED
  BY <1>1, PublishedInvariant, PTL

\* Slots are comparable.
LEMMA SlotType ==
    \A p \in Payload \cup {NoDelivery} : p.slot \in Nat
<1>1. \A p \in Payload : p.slot \in Nat
  BY DeliveryAssumption, Zenon DEF Payload
<1>2. NoDelivery.slot \in Nat
  BY Zenon DEF NoDelivery
<1> QED
  BY <1>1, <1>2, Zenon

\* The invariant of calls that do not overlap holds in every state.
LEMMA SequentialInvariant ==
    ASSUME NEW c, Requests = {c}
    PROVE  DeliverySpec => []SequentialInv
<1>1. DeliveryInit => SequentialInv
  BY Zenon DEF DeliveryInit, SequentialInv, DeliveryTypeOK, NoDelivery, OneBlockPerSlot
<1>2. SequentialInv /\ [DeliveryNext]_deliveryVars => SequentialInv'
  <2> SUFFICES ASSUME SequentialInv, [DeliveryNext]_deliveryVars
               PROVE  SequentialInv'
    BY Zenon
  <2> USE DEF SequentialInv, DeliveryTypeOK, Goto, calls, OneBlockPerSlot
  <2>1. ASSUME NEW r \in Requests, NEW p \in Payload, Ask(r, p)
        PROVE  SequentialInv'
    BY <2>1, Zenon DEF Ask
  <2>2. ASSUME NEW r \in Requests, Check(r)
        PROVE  SequentialInv'
    BY <2>2, Zenon DEF Check
  <2>3. ASSUME NEW r \in Requests, CheckFails(r)
        PROVE  SequentialInv'
    BY <2>3, Zenon DEF CheckFails
  <2>4. ASSUME NEW r \in Requests, Publish(r)
        PROVE  SequentialInv'
    BY <2>4, Zenon DEF Publish
  <2>5. ASSUME NEW r \in Requests, PublishFails(r)
        PROVE  SequentialInv'
    BY <2>5, Zenon DEF PublishFails
  <2>6. ASSUME NEW r \in Requests, Load(r)
        PROVE  SequentialInv'
    BY <2>6, Zenon DEF Load
  <2>7. ASSUME NEW r \in Requests, Decide(r)
        PROVE  SequentialInv'
    <3> DEFINE p == req[r]
    <3>1. p \in Payload /\ loaded[r] = lastDelivered /\ p.slot \in Nat /\ lastDelivered.slot \in Nat
      BY <2>7, SlotType, Zenon DEF Decide
    <3>2. CASE Record(r, p)
      <4>1. /\ sent' = sent \cup {p} /\ lastDelivered' = p
            /\ lastDelivered.slot < p.slot
        BY <3>1, <3>2, Zenon DEF Record
      <4>2. \A q \in sent : q.slot \in Nat /\ q.slot < p.slot
        BY <3>1, <4>1, SlotType
      <4>3. DeliveryTypeOK' /\ \A x \in Requests : call'[x] # "idle" => req'[x] \in Payload
        BY <2>7, <3>1, <4>1, Zenon DEF Decide
      <4>4. \A x \in Requests : call'[x] = "decide" => loaded'[x] = lastDelivered'
        BY <2>7, Zenon DEF Decide
      <4>5. \A q \in sent' : q.slot < lastDelivered'.slot \/ q = lastDelivered'
        BY <4>1, <4>2, Zenon
      <4>6. OneBlockPerSlot'
        BY <3>1, <4>1, <4>2
      <4> QED
        BY <4>3, <4>4, <4>5, <4>6, Zenon
    <3>3. CASE Resend(r, p)
      <4>1. sent' = sent \cup {p} /\ lastDelivered' = p /\ lastDelivered = p
        BY <3>1, <3>3, Zenon DEF Resend
      <4>2. DeliveryTypeOK' /\ \A x \in Requests : call'[x] # "idle" => req'[x] \in Payload
        BY <2>7, <3>1, <4>1, Zenon DEF Decide
      <4>3. \A x \in Requests : call'[x] = "decide" => loaded'[x] = lastDelivered'
        BY <2>7, Zenon DEF Decide
      <4>4. OneBlockPerSlot'
        BY <3>1, <4>1, SlotType
      <4> QED
        BY <4>1, <4>2, <4>3, <4>4, Zenon
    <3>4. CASE Refuse(r, p)
      BY <2>7, <3>1, <3>4, Zenon DEF Decide, Refuse
    <3> QED
      BY <2>7, <3>2, <3>3, <3>4, Zenon DEF Decide
  <2>8. ASSUME NEW p \in Payload, StoreTrace(p)
        PROVE  SequentialInv'
    BY <2>8, Zenon DEF StoreTrace
  <2>9. CASE UNCHANGED deliveryVars
    BY <2>9, Zenon DEF deliveryVars
  <2> QED
    BY <2>1, <2>2, <2>3, <2>4, <2>5, <2>6, <2>7, <2>8, <2>9, Zenon DEF DeliveryNext, GetPayload
<1> QED
  BY <1>1, <1>2, PTL DEF DeliverySpec

\* When calls do not overlap, one block is delivered per slot.
THEOREM SequentialDelivery ==
    ASSUME NEW c, Requests = {c}
    PROVE  DeliverySpec => []OneBlockPerSlot
<1>1. SequentialInv => OneBlockPerSlot
  BY Zenon DEF SequentialInv
<1> QED
  BY <1>1, SequentialInvariant, PTL

\* When calls do not overlap, the record covers every delivery.
THEOREM SequentialRecord ==
    ASSUME NEW c, Requests = {c}
    PROVE  DeliverySpec => []RecordCoversSent
<1>1. SequentialInv => RecordCoversSent
  BY SlotType DEF SequentialInv, RecordCoversSent, DeliveryTypeOK
<1> QED
  BY <1>1, SequentialInvariant, PTL

\* When calls do not overlap, no payload is delivered for a slot below one
\* that was delivered before.
THEOREM SequentialOrder ==
    ASSUME NEW c, Requests = {c}
    PROVE  DeliverySpec => NeverSendsLower
<1>1. SequentialInv /\ [DeliveryNext]_deliveryVars
      => [\A p \in sent' \ sent : \A q \in sent : q.slot <= p.slot]_deliveryVars
  <2> SUFFICES ASSUME SequentialInv, DeliveryNext, NEW p \in sent' \ sent, NEW q \in sent
               PROVE  q.slot <= p.slot
    BY Zenon
  <2>1. PICK r \in Requests : Decide(r) /\ p = req[r] /\ (Record(r, p) \/ Resend(r, p))
    BY Zenon DEF DeliveryNext, GetPayload, Ask, Check, CheckFails, Publish, PublishFails, Load,
           Decide, Record, Resend, Refuse, StoreTrace
  <2>2. loaded[r] = lastDelivered /\ p \in Payload \cup {NoDelivery}
    BY <2>1, Zenon DEF Decide, SequentialInv, Record, Resend, DeliveryTypeOK
  <2>3. lastDelivered.slot <= p.slot
    BY <2>1, <2>2, SlotType DEF Record, Resend, SequentialInv, DeliveryTypeOK
  <2> QED
    BY <2>2, <2>3, SlotType DEF SequentialInv, DeliveryTypeOK
<1> QED
  BY <1>1, SequentialInvariant, PTL DEF DeliverySpec, NeverSendsLower
==============================================================================
