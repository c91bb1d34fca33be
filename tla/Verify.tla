------------------------------- MODULE Verify --------------------------------
(***************************************************************************)
(* Signature verification: the two queues of verify/manager.go and their   *)
(* workers, the shared response object of verify/verify.go, and the two    *)
(* callers that wait on it: RegisterValidator of validators/validators.go, *)
(* which sends one request for each registration of a batch, and Enqueue,  *)
(* which sends the one request of a block submission.                      *)
(*                                                                         *)
(* A registration is abstracted to what the code finds when it looks at    *)
(* it: "cached" (the same one was stored lately), "refused" (unknown       *)
(* validator or a time in the future), "good" or "bad" (its signature).    *)
(***************************************************************************)
EXTENDS Integers, Sequences, FiniteSets

CONSTANTS
    Registers,   \* calls of RegisterValidator
    Submits,     \* calls of Enqueue
    Workers,     \* goroutines running VerifyParallel
    MaxItems,    \* bound on the registrations of a batch
    QueueSize,   \* capacity of each queue
    Nil          \* a worker that holds no request

Callers == Registers \cup Submits
Kinds == {"cached", "refused", "good", "bad"}
Batches == UNION { [1 .. n -> Kinds] : n \in 0 .. MaxItems }
Request == [caller : Callers, id : 1 .. MaxItems]

ASSUME VerifyAssumption ==
    /\ Registers \cap Submits = {}
    /\ MaxItems \in Nat \ {0}
    /\ QueueSize \in Nat \ {0}
    /\ Nil \notin Request

VARIABLES
    pc,          \* where each call is
    batch,       \* the registrations of each call
    next,        \* the index each RegisterValidator has reached
    cancelled,   \* whether the call's context is done
    resp,        \* the StoreResp of each call
    queue,       \* VerifySubmitBlockCh and VerifyRegisterValidatorCh
    held,        \* the request each worker has taken
    looked,      \* whether that worker has found the response open
    stored,      \* indexes RegisterValidator passed to SendStore
    result       \* what the call returned: "none" while it is running

callVars == <<pc, batch, next, cancelled, stored, result>>
workVars == <<held, looked>>
vars == <<callVars, workVars, resp, queue>>

-----------------------------------------------------------------------------
\* StoreResp.  nonErrors is a set here: its order is never looked at and an
\* index is sent once.
NewRespC(numAll) == [nonErrors |-> {}, numAll |-> numAll, closed |-> FALSE, err |-> "nil"]

\* Mutated form of CloseIfAll: it waits for one answer too many.
CloseIfMore(s) == [s EXCEPT !.closed = @ \/ s.numAll < Cardinality(s.nonErrors)]

\* The response, closed if every request that was not skipped has succeeded.
CloseIfAll(s) == [s EXCEPT !.closed = @ \/ s.numAll = Cardinality(s.nonErrors)]

Close(s, err) == [s EXCEPT !.closed = TRUE, !.err = IF err = "nil" THEN @ ELSE err]

\* Mutated form of Send: an error counts as an answer like any other.
SendAny(s, id, err) ==
    IF s.closed THEN s ELSE CloseIfAll([s EXCEPT !.nonErrors = @ \cup {id}])

Send(s, id, err) ==
    IF s.closed THEN s
    ELSE IF err # "nil" THEN Close(s, err)
    ELSE CloseIfAll([s EXCEPT !.nonErrors = @ \cup {id}])

\* Mutated form of SkipOne: the number is lowered by two.
SkipTwo(s) == IF s.closed THEN s ELSE CloseIfAll([s EXCEPT !.numAll = @ - 2])

\* Mutated form of SkipOne: the number is lowered and nothing is closed.
SkipOnly(s) == IF s.closed THEN s ELSE [s EXCEPT !.numAll = @ - 1]

SkipOne(s) == IF s.closed THEN s ELSE CloseIfAll([s EXCEPT !.numAll = @ - 1])

\* What verifyUnit finds for request r.
Verdict(r) == IF batch[r.caller][r.id] = "good" THEN "nil" ELSE "signature"

Goto(c, l) == pc' = [pc EXCEPT ![c] = l]

Init ==
    /\ pc = [c \in Callers |-> "idle"]
    /\ batch = [c \in Callers |-> <<>>]
    /\ next = [c \in Callers |-> 1]
    /\ cancelled = [c \in Callers |-> FALSE]
    /\ resp = [c \in Callers |-> NewRespC(0)]
    /\ queue = [q \in {"submit", "register"} |-> <<>>]
    /\ held = [w \in Workers |-> Nil]
    /\ looked = [w \in Workers |-> FALSE]
    /\ stored = [c \in Callers |-> {}]
    /\ result = [c \in Callers |-> "none"]

\* Some request still refers to the response of caller c.
Referred(c) ==
    \/ \E q \in DOMAIN queue : \E i \in DOMAIN queue[q] : queue[q][i].caller = c
    \/ \E w \in Workers : held[w] # Nil /\ held[w].caller = c

-----------------------------------------------------------------------------
\* A call starts, with a new response.  A caller starts over only when no
\* request refers to its last response, so that one name is one response.
Begin(c, b) ==
    /\ pc[c] = "idle"
    /\ ~Referred(c)
    /\ Goto(c, IF c \in Submits THEN "send" ELSE IF b = <<>> THEN "wait" ELSE "loop")
    /\ batch' = [batch EXCEPT ![c] = b]
    /\ next' = [next EXCEPT ![c] = 1]
    /\ cancelled' = [cancelled EXCEPT ![c] = FALSE]
    /\ resp' = [resp EXCEPT ![c] = NewRespC(Len(b))]
    /\ stored' = [stored EXCEPT ![c] = {}]
    /\ result' = [result EXCEPT ![c] = "none"]
    /\ UNCHANGED <<queue, workVars>>

\* The context of a running call ends: its client has gone.
Cancel(c) ==
    /\ pc[c] # "idle"
    /\ ~cancelled[c]
    /\ cancelled' = [cancelled EXCEPT ![c] = TRUE]
    /\ UNCHANGED <<pc, batch, next, stored, result, resp, queue, workVars>>

\* The call returns res having stored ids.
Return(c, res, ids) ==
    /\ Goto(c, "idle")
    /\ result' = [result EXCEPT ![c] = res]
    /\ stored' = [stored EXCEPT ![c] = ids]
    /\ UNCHANGED <<batch, next, cancelled, queue, workVars>>

\* A call that sees its context done closes the response and returns.
GiveUp(c) ==
    /\ pc[c] \in {"loop", "wait"}
    /\ cancelled[c]
    /\ resp' = [resp EXCEPT ![c] = Close(@, "context")]
    /\ Return(c, "context", {})

\* The loop of RegisterValidator goes to the next registration, or ends.
Advance(c) ==
    /\ next' = [next EXCEPT ![c] = @ + 1]
    /\ Goto(c, IF next[c] = Len(batch[c]) THEN "wait" ELSE "loop")

\* One turn of the loop, up to the send: the context is looked at, a cached
\* registration is skipped, a refused one closes the response and ends it.
Turn(c) ==
    LET kind == batch[c][next[c]] IN
    /\ pc[c] = "loop"
    /\ ~cancelled[c]
    /\ \/ /\ kind = "cached"
          /\ resp' = [resp EXCEPT ![c] = SkipOne(@)]
          /\ Advance(c)
       \/ /\ kind = "refused"
          /\ resp' = [resp EXCEPT ![c] = Close(@, "refused")]
          /\ Goto(c, "wait")
          /\ UNCHANGED next
       \/ /\ kind \in {"good", "bad"}
          /\ Goto(c, "send")
          /\ UNCHANGED <<resp, next>>
    /\ UNCHANGED <<batch, cancelled, stored, result, queue, workVars>>

\* The request is sent to the caller's queue once there is room for it; the
\* context is not looked at here.
Push(c) ==
    LET q == IF c \in Submits THEN "submit" ELSE "register" IN
    /\ pc[c] = "send"
    /\ Len(queue[q]) < QueueSize
    /\ queue' = [queue EXCEPT ![q] = Append(@, [caller |-> c, id |-> next[c]])]
    /\ Advance(c)
    /\ UNCHANGED <<batch, cancelled, stored, result, resp, workVars>>

\* RegisterValidator wakes when the response is closed: what was verified is
\* stored, even if another registration failed, and the error is returned.
Registered(c) ==
    /\ c \in Registers
    /\ pc[c] = "wait"
    /\ resp[c].closed
    /\ Return(c, resp[c].err, resp[c].nonErrors)
    /\ UNCHANGED resp

\* Enqueue receives from the closed channel done, on which nothing is ever
\* sent: it gets the zero value, nil.
Enqueued(c) ==
    /\ c \in Submits
    /\ pc[c] = "wait"
    /\ resp[c].closed
    /\ Return(c, "nil", {})
    /\ UNCHANGED resp

-----------------------------------------------------------------------------
\* A worker takes the first request of either queue.
Take(w, q) ==
    /\ held[w] = Nil
    /\ queue[q] # <<>>
    /\ held' = [held EXCEPT ![w] = Head(queue[q])]
    /\ queue' = [queue EXCEPT ![q] = Tail(@)]
    /\ UNCHANGED <<callVars, resp, looked>>

\* verifyCheck drops the request if the response is closed by now.
Look(w) ==
    /\ held[w] # Nil
    /\ ~looked[w]
    /\ IF resp[held[w].caller].closed
       THEN held' = [held EXCEPT ![w] = Nil] /\ UNCHANGED looked
       ELSE looked' = [looked EXCEPT ![w] = TRUE] /\ UNCHANGED held
    /\ UNCHANGED <<callVars, resp, queue>>

\* The signature is verified and the verdict sent, under the response's lock.
Answer(w) ==
    LET r == held[w] IN
    /\ looked[w]
    /\ resp' = [resp EXCEPT ![r.caller] = Send(@, r.id, Verdict(r))]
    /\ held' = [held EXCEPT ![w] = Nil]
    /\ looked' = [looked EXCEPT ![w] = FALSE]
    /\ UNCHANGED <<callVars, queue>>

RegisterValidator(c) == GiveUp(c) \/ Turn(c) \/ Push(c) \/ Registered(c)
Enqueue(c) == GiveUp(c) \/ Push(c) \/ Enqueued(c)
VerifyParallel(w) == (\E q \in DOMAIN queue : Take(w, q)) \/ Look(w) \/ Answer(w)

Next ==
    \/ \E c \in Registers : RegisterValidator(c) \/ Cancel(c) \/ \E b \in Batches : Begin(c, b)
    \/ \E c \in Submits :
          Enqueue(c) \/ Cancel(c) \/ \E kind \in {"good", "bad"} : Begin(c, <<kind>>)
    \/ \E w \in Workers : VerifyParallel(w)

Spec == Init /\ [][Next]_vars

\* Goroutines run.  A select with several ready channels picks one of them at
\* random, and senders blocked on a channel are served in turn, so neither a
\* queue nor a sender is passed over forever.  No context has to end.
Fairness ==
    /\ \A c \in Registers : WF_vars(Turn(c) \/ Registered(c)) /\ SF_vars(Push(c))
    /\ \A c \in Submits : WF_vars(Enqueued(c)) /\ SF_vars(Push(c))
    /\ \A c \in Callers : WF_vars(GiveUp(c))
    /\ \A w \in Workers :
          /\ WF_vars(Look(w) \/ Answer(w))
          /\ \A q \in {"submit", "register"} : SF_vars(Take(w, q))

FairSpec == Spec /\ Fairness

-----------------------------------------------------------------------------
TypeOK ==
    /\ pc \in [Callers -> {"idle", "loop", "send", "wait"}]
    /\ batch \in [Callers -> Batches]
    /\ next \in [Callers -> 1 .. MaxItems + 1]
    /\ cancelled \in [Callers -> BOOLEAN]
    /\ resp \in [Callers -> [nonErrors : SUBSET (1 .. MaxItems), numAll : 0 .. MaxItems,
                             closed : BOOLEAN,
                             err : {"nil", "signature", "refused", "context"}]]
    /\ queue \in [{"submit", "register"} -> Seq(Request)]
    /\ \A q \in DOMAIN queue : Len(queue[q]) <= QueueSize
    /\ held \in [Workers -> Request \cup {Nil}]
    /\ looked \in [Workers -> BOOLEAN]
    /\ stored \in [Callers -> SUBSET (1 .. MaxItems)]
    /\ result \in [Callers -> {"none", "nil", "signature", "refused", "context"}]

\* RegisterValidator hands only registrations with a verified signature to
\* the store manager, also when the batch fails halfway or is cancelled.
StoresOnlyVerified ==
    \A c \in Registers : \A i \in stored[c] : batch[c][i] = "good"

\* When RegisterValidator returns no error, every registration of the batch
\* was stored or is the one already in the cache: the count of answers never
\* closes the response before the last of them, whatever was skipped in
\* between by SkipOne.
NilMeansRegistered ==
    \A c \in Registers :
        result[c] = "nil" =>
            \A i \in DOMAIN batch[c] : batch[c][i] = "cached" \/ i \in stored[c]

\* The inductive invariant behind these two.  What a worker may answer is a
\* registration that was sent for its signature, so only good ones are among
\* the answers; until the response is closed its number is that of the
\* registrations not skipped so far; and once it has been closed without an
\* error, answers and skips together make the batch.
Sent(r) ==
    /\ r.id \in DOMAIN batch[r.caller]
    /\ batch[r.caller][r.id] \in {"good", "bad"}

Skipped(c) == { i \in DOMAIN batch[c] : i < next[c] /\ batch[c][i] = "cached" }

RespInv(c) ==
    /\ \A i \in resp[c].nonErrors : i \in DOMAIN batch[c] /\ batch[c][i] = "good"
    /\ ~resp[c].closed => resp[c].numAll = Len(batch[c]) - Cardinality(Skipped(c))
    /\ resp[c].closed /\ resp[c].err = "nil" =>
          \A i \in DOMAIN batch[c] : batch[c][i] = "cached" \/ i \in resp[c].nonErrors

CallInv(c) ==
    /\ pc[c] \in {"loop", "send"} => next[c] \in DOMAIN batch[c]
    /\ pc[c] = "send" => batch[c][next[c]] \in {"good", "bad"}

VerifyInv ==
    /\ TypeOK
    /\ \A q \in DOMAIN queue : \A i \in DOMAIN queue[q] : Sent(queue[q][i])
    /\ \A w \in Workers : held[w] # Nil => Sent(held[w])
    /\ \A w \in Workers : looked[w] => held[w] # Nil
    /\ \A c \in Callers : CallInv(c) /\ RespInv(c)
    /\ StoresOnlyVerified
    /\ NilMeansRegistered

\* A call that waits on an open response is not forgotten: some request of
\* it is in a queue or with a worker, whose answer may close the response.  No
\* order of skips and answers leaves a counter that nobody will look at again.
\* An empty batch is the exception: RegisterValidator then waits for its
\* client to go away.
NoLostWakeup ==
    \A c \in Callers :
        pc[c] = "wait" /\ ~resp[c].closed /\ batch[c] # <<>> => Referred(c)

\* What it needs besides VerifyInv: as long as the response is open, each
\* registration the loop has passed was skipped, has been answered or is still
\* to be, and the answers do not make up the number, which is compared after
\* every change of either.
Outstanding(c, i) ==
    \/ \E q \in DOMAIN queue : \E k \in DOMAIN queue[q] : queue[q][k] = [caller |-> c, id |-> i]
    \/ \E w \in Workers : held[w] = [caller |-> c, id |-> i]

WakeInv(c) ==
    ~resp[c].closed =>
        /\ \A i \in DOMAIN batch[c] : i < next[c] =>
              batch[c][i] = "cached" \/ i \in resp[c].nonErrors \/ Outstanding(c, i)
        /\ batch[c] # <<>> => resp[c].numAll # Cardinality(resp[c].nonErrors)
        /\ pc[c] = "wait" => next[c] = Len(batch[c]) + 1

\* Once a response is closed the indexes that RegisterValidator reads from it
\* without its lock do not change, and its error is not taken back.
ClosedIsFinal ==
    [][\A c \in Callers :
         (resp[c].closed /\ resp'[c].closed) =>
            /\ resp'[c].nonErrors = resp[c].nonErrors
            /\ resp[c].err # "nil" => resp'[c].err # "nil"]_vars

\* A call of RegisterValidator with at least one registration returns: some
\* request, skip or failure closes its response.
RegisterReturns ==
    \A c \in Registers :
        (pc[c] # "idle" /\ batch[c] # <<>>) ~> pc[c] = "idle"

\* Every call of Enqueue returns, however many registrations are queued: the
\* queues are separate so that a "huge number of request would not bring
\* other from being processed".
EnqueueReturns == \A c \in Submits : pc[c] # "idle" ~> pc[c] = "idle"

\* Enqueue returns nil only when the signature is right: the sender waits on
\* the channel "to get the response".
EnqueueReturnsVerdict ==
    \A c \in Submits : result[c] = "nil" => batch[c] = <<"good">>
==============================================================================
