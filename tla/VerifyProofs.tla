---------------------------- MODULE VerifyProofs -----------------------------
(***************************************************************************)
(* Theorems about signature verification, for any number of callers and    *)
(* workers and any size of batches and queues: RegisterValidator stores    *)
(* nothing but verified registrations, returns nil only when the whole     *)
(* batch is registered, a closed response does not change, and a call      *)
(* that waits on an open one still has a request under way.                *)
(***************************************************************************)
EXTENDS Verify, FiniteSetTheorems, TLAPS

Errors == {"nil", "signature", "refused", "context"}
Resp == [nonErrors : SUBSET (1 .. MaxItems), numAll : 0 .. MaxItems, closed : BOOLEAN, err : Errors]

\* A batch is a sequence of at most MaxItems registrations.
LEMMA BatchType ==
    ASSUME NEW b \in Batches
    PROVE  /\ b \in Seq(Kinds) /\ Len(b) \in Nat /\ Len(b) <= MaxItems
           /\ DOMAIN b = 1 .. Len(b)
           /\ \A i \in DOMAIN b : i \in 1 .. MaxItems /\ b[i] \in Kinds
<1>1. PICK n \in 0 .. MaxItems : b \in [1 .. n -> Kinds]
  BY DEF Batches
<1>2. b \in Seq(Kinds) /\ Len(b) = n
  BY <1>1, VerifyAssumption
<1> QED
  BY <1>1, <1>2, VerifyAssumption

\* The sets of indexes of a batch are finite.
LEMMA IndexSets ==
    ASSUME NEW b \in Batches
    PROVE  /\ IsFiniteSet(DOMAIN b) /\ Cardinality(DOMAIN b) = Len(b)
           /\ \A S \in SUBSET DOMAIN b :
                 IsFiniteSet(S) /\ Cardinality(S) \in Nat /\ Cardinality(S) <= Len(b)
<1>1. DOMAIN b = 1 .. Len(b) /\ Len(b) \in Nat
  BY BatchType
<1>2. IsFiniteSet(1 .. Len(b)) /\ Cardinality(1 .. Len(b)) = Len(b)
  <2>1. 1 \in Int /\ Len(b) \in Int
    BY <1>1
  <2>2. /\ IsFiniteSet(1 .. Len(b))
        /\ Cardinality(1 .. Len(b)) = IF 1 > Len(b) THEN 0 ELSE Len(b) - 1 + 1
    BY <2>1, FS_Interval
  <2> QED
    BY <1>1, <2>2
<1>3. ASSUME NEW S \in SUBSET DOMAIN b
      PROVE  IsFiniteSet(S) /\ Cardinality(S) \in Nat /\ Cardinality(S) <= Len(b)
  BY <1>1, <1>2, FS_Subset, FS_CardinalityType
<1> QED
  BY <1>1, <1>2, <1>3

\* When the answers are as many as the registrations not skipped, skips and
\* answers make the batch.
LEMMA Complete ==
    ASSUME NEW b \in Batches, NEW S \in SUBSET DOMAIN b, NEW N \in SUBSET DOMAIN b,
           S \cap N = {}, Cardinality(N) = Len(b) - Cardinality(S)
    PROVE  S \cup N = DOMAIN b
<1>1. IsFiniteSet(DOMAIN b) /\ Cardinality(DOMAIN b) = Len(b) /\ Len(b) \in Nat
  BY IndexSets, BatchType
<1>2. /\ IsFiniteSet(S) /\ Cardinality(S) \in Nat
      /\ IsFiniteSet(N) /\ Cardinality(N) \in Nat
  BY IndexSets
<1>3. Cardinality(S \cup N) = Cardinality(S) + Cardinality(N) - Cardinality(S \cap N)
  BY <1>2, FS_Union
<1>4. Cardinality(S \cap N) = 0
  BY FS_EmptySet, Zenon
<1>5. Cardinality(S \cup N) = Cardinality(DOMAIN b)
  BY <1>1, <1>2, <1>3, <1>4
<1>6. S \cup N \in SUBSET DOMAIN b
  OBVIOUS
<1> QED
  BY <1>1, <1>5, <1>6, FS_Subset

-----------------------------------------------------------------------------
\* RespInv of one response: s is that of a call with batch b, and the indexes
\* S have been skipped.
GoodResp(b, S, s) ==
    /\ s \in Resp
    /\ \A i \in s.nonErrors : i \in DOMAIN b /\ b[i] = "good"
    /\ ~s.closed => s.numAll = Len(b) - Cardinality(S)
    /\ s.closed /\ s.err = "nil" => \A i \in DOMAIN b : b[i] = "cached" \/ i \in s.nonErrors

\* The response is closed without an error only when it is complete.
LEMMA CloseIfAllGood ==
    ASSUME NEW b \in Batches, NEW S \in SUBSET DOMAIN b, \A i \in S : b[i] = "cached",
           NEW s, GoodResp(b, S, s), ~s.closed
    PROVE  GoodResp(b, S, CloseIfAll(s))
<1>1. /\ CloseIfAll(s) \in Resp
      /\ CloseIfAll(s).nonErrors = s.nonErrors
      /\ CloseIfAll(s).numAll = s.numAll
      /\ CloseIfAll(s).err = s.err
      /\ CloseIfAll(s).closed => s.numAll = Cardinality(s.nonErrors)
  BY Zenon DEF GoodResp, Resp, CloseIfAll
<1>2. ASSUME CloseIfAll(s).closed, NEW i \in DOMAIN b PROVE b[i] = "cached" \/ i \in s.nonErrors
  <2>1. s.nonErrors \in SUBSET DOMAIN b /\ S \cap s.nonErrors = {}
    BY DEF GoodResp
  <2>2. Cardinality(s.nonErrors) = Len(b) - Cardinality(S)
    BY <1>1, <1>2 DEF GoodResp
  <2>3. S \cup s.nonErrors = DOMAIN b
    BY <2>1, <2>2, Complete, Zenon
  <2> QED
    BY <2>3
<1> QED
  BY <1>1, <1>2 DEF GoodResp

\* Send adds a good answer or closes with an error.
LEMMA SendGood ==
    ASSUME NEW b \in Batches, NEW S \in SUBSET DOMAIN b, \A i \in S : b[i] = "cached",
           NEW s, GoodResp(b, S, s), NEW id \in DOMAIN b, NEW err \in {"nil", "signature"},
           err = "nil" => b[id] = "good"
    PROVE  GoodResp(b, S, Send(s, id, err))
<1>1. CASE s.closed
  BY <1>1 DEF Send
<1>2. CASE ~s.closed /\ err # "nil"
  BY <1>2, Zenon DEF Send, Close, GoodResp, Resp, Errors
<1>3. CASE ~s.closed /\ err = "nil"
  <2> DEFINE t == [s EXCEPT !.nonErrors = @ \cup {id}]
  <2>1. id \in 1 .. MaxItems
    BY BatchType
  <2>2. /\ t \in Resp /\ t.nonErrors = s.nonErrors \cup {id}
        /\ t.numAll = s.numAll /\ t.closed = s.closed
    BY <2>1 DEF GoodResp, Resp
  <2>3. GoodResp(b, S, t)
    BY <1>3, <2>2 DEF GoodResp
  <2>4. GoodResp(b, S, CloseIfAll(t))
    BY <1>3, <2>2, <2>3, CloseIfAllGood, Zenon
  <2> QED
    BY <1>3, <2>4 DEF Send
<1> QED
  BY <1>1, <1>2, <1>3

\* SkipOne counts the skipped registration off.
LEMMA SkipGood ==
    ASSUME NEW b \in Batches, NEW S \in SUBSET DOMAIN b, \A i \in S : b[i] = "cached",
           NEW s, GoodResp(b, S, s), NEW id \in DOMAIN b, id \notin S, b[id] = "cached"
    PROVE  GoodResp(b, S \cup {id}, SkipOne(s))
<1>1. CASE s.closed
  BY <1>1 DEF SkipOne, GoodResp
<1>2. CASE ~s.closed
  <2> DEFINE t == [s EXCEPT !.numAll = @ - 1]
             T == S \cup {id}
  <2>1. T \in SUBSET DOMAIN b /\ \A i \in T : b[i] = "cached"
    OBVIOUS
  <2>2. Cardinality(T) = Cardinality(S) + 1
    BY IndexSets, FS_AddElement, Zenon
  <2>3. /\ Cardinality(T) \in Nat /\ Cardinality(T) <= Len(b) /\ Cardinality(S) \in Nat
        /\ Len(b) \in Nat /\ Len(b) <= MaxItems
    BY <2>1, IndexSets, BatchType
  <2>4. s.numAll = Len(b) - Cardinality(S)
    BY <1>2 DEF GoodResp
  <2>5. s.numAll - 1 = Len(b) - Cardinality(T) /\ s.numAll - 1 \in 0 .. MaxItems
    BY <2>2, <2>3, <2>4, VerifyAssumption
  <2>6. /\ t \in Resp /\ t.nonErrors = s.nonErrors
        /\ t.numAll = s.numAll - 1 /\ t.closed = s.closed
    BY <2>5 DEF GoodResp, Resp
  <2> HIDE DEF T
  <2>7. GoodResp(b, T, t)
    BY <1>2, <2>5, <2>6 DEF GoodResp
  <2>8. GoodResp(b, T, CloseIfAll(t))
    BY <1>2, <2>1, <2>6, <2>7, CloseIfAllGood, Zenon
  <2> QED
    BY <1>2, <2>8 DEF SkipOne, T
<1> QED
  BY <1>1, <1>2

\* Close with an error leaves nothing to be complete.
LEMMA CloseGood ==
    ASSUME NEW b, NEW S, NEW s, GoodResp(b, S, s), NEW err \in Errors \ {"nil"}
    PROVE  GoodResp(b, S, Close(s, err))
  BY Zenon DEF Close, GoodResp, Resp, Errors

-----------------------------------------------------------------------------
\* RespInv is GoodResp of the call's response.
LEMMA RespInvGood ==
    ASSUME TypeOK, NEW c \in Callers
    PROVE  /\ RespInv(c) <=> GoodResp(batch[c], Skipped(c), resp[c])
           /\ batch[c] \in Batches
           /\ Skipped(c) \in SUBSET DOMAIN batch[c]
           /\ \A i \in Skipped(c) : batch[c][i] = "cached"
<1>1. resp[c] \in Resp
  BY DEF TypeOK, Resp, Errors
<1> QED
  BY <1>1 DEF TypeOK, RespInv, GoodResp, Skipped

\* The initial response and that of a new call.
LEMMA NewGood ==
    ASSUME NEW b \in Batches
    PROVE  GoodResp(b, {}, NewRespC(Len(b)))
<1>1. Len(b) \in 0 .. MaxItems /\ Len(b) - 0 = Len(b)
  BY BatchType, VerifyAssumption
<1> QED
  BY <1>1, FS_EmptySet DEF GoodResp, NewRespC, Resp, Errors

\* A batch may be empty.
LEMMA EmptyBatch == <<>> \in Batches /\ Len(<<>>) = 0
<1>1. <<>> \in [1 .. 0 -> Kinds] /\ 0 \in 0 .. MaxItems
  BY VerifyAssumption
<1> QED
  BY <1>1 DEF Batches

\* Enqueue's one signature is a batch.
LEMMA SingleBatch == \A kind \in {"good", "bad"} : <<kind>> \in Batches
<1> SUFFICES ASSUME NEW kind \in {"good", "bad"} PROVE <<kind>> \in Batches
  OBVIOUS
<1>1. <<kind>> \in [1 .. 1 -> Kinds] /\ 1 \in 0 .. MaxItems
  BY VerifyAssumption DEF Kinds
<1> QED
  BY <1>1 DEF Batches

\* At first no request is anywhere and no response is open.
LEMMA Init_VerifyInv == Init => VerifyInv
<1> SUFFICES ASSUME Init PROVE VerifyInv
  OBVIOUS
<1>1. TypeOK
  <2>1. batch \in [Callers -> Batches]
    BY EmptyBatch DEF Init
  <2>2. resp \in [Callers -> Resp]
    BY EmptyBatch, NewGood DEF Init, GoodResp
  <2>3. queue \in [{"submit", "register"} -> Seq(Request)] /\ \A q \in DOMAIN queue : Len(queue[q]) <= QueueSize
    BY VerifyAssumption DEF Init
  <2>4. next \in [Callers -> 1 .. MaxItems + 1]
    BY VerifyAssumption DEF Init
  <2> QED
    BY <2>1, <2>2, <2>3, <2>4 DEF Init, TypeOK, Resp, Errors
<1>2. ASSUME NEW c \in Callers PROVE CallInv(c) /\ RespInv(c)
  <2>1. batch[c] = <<>> /\ resp[c] = NewRespC(0) /\ pc[c] = "idle"
    BY DEF Init
  <2>2. Skipped(c) = {}
    BY <2>1 DEF Skipped
  <2>3. RespInv(c)
    BY <1>1, <2>1, <2>2, RespInvGood, EmptyBatch, NewGood, Zenon
  <2> QED
    BY <2>1, <2>3 DEF CallInv
<1> QED
  BY <1>1, <1>2 DEF Init, VerifyInv, StoresOnlyVerified, NilMeansRegistered, Callers

-----------------------------------------------------------------------------
\* A step of one call leaves the others as they are.
LEMMA OtherCalls ==
    ASSUME VerifyInv, NEW d \in Callers,
           pc'[d] = pc[d], batch'[d] = batch[d], next'[d] = next[d], resp'[d] = resp[d]
    PROVE  CallInv(d)' /\ RespInv(d)'
<1>1. CallInv(d) /\ RespInv(d)
  BY DEF VerifyInv
<1>2. CallInv(d)'
  BY <1>1 DEF CallInv
<1>3. Skipped(d)' = Skipped(d)
  BY DEF Skipped
<1>4. RespInv(d)'
  BY <1>1, <1>3 DEF RespInv
<1> QED
  BY <1>2, <1>4

\* A call that keeps its batch keeps what its requests are about.
LEMMA RequestsStay ==
    ASSUME VerifyInv, UNCHANGED <<batch, queue, held, looked>>
    PROVE  /\ (\A q \in DOMAIN queue : \A i \in DOMAIN queue[q] : Sent(queue[q][i]))'
           /\ (\A w \in Workers : held[w] # Nil => Sent(held[w]))'
           /\ (\A w \in Workers : looked[w] => held[w] # Nil)'
  BY DEF VerifyInv, Sent

\* A new call: no request refers to the response it replaces.
LEMMA BeginInv ==
    ASSUME VerifyInv, NEW c \in Callers, NEW b \in Batches, Begin(c, b),
           c \in Submits => b # <<>> /\ b[1] \in {"good", "bad"}
    PROVE  VerifyInv'
<1> USE DEF VerifyInv
<1>1. /\ batch' = [batch EXCEPT ![c] = b] /\ next' = [next EXCEPT ![c] = 1]
      /\ resp' = [resp EXCEPT ![c] = NewRespC(Len(b))]
      /\ stored' = [stored EXCEPT ![c] = {}] /\ result' = [result EXCEPT ![c] = "none"]
      /\ pc' = [pc EXCEPT ![c] = IF c \in Submits THEN "send" ELSE IF b = <<>> THEN "wait" ELSE "loop"]
      /\ cancelled' = [cancelled EXCEPT ![c] = FALSE]
      /\ UNCHANGED <<queue, held, looked>> /\ ~Referred(c)
  BY DEF Begin, Goto, workVars
<1>2. NewRespC(Len(b)) \in Resp
  BY NewGood DEF GoodResp
<1>3. TypeOK'
  <2>1. /\ batch' \in [Callers -> Batches] /\ next' \in [Callers -> 1 .. MaxItems + 1]
        /\ resp' \in [Callers -> Resp]
    BY <1>1, <1>2, VerifyAssumption DEF TypeOK, Resp, Errors
  <2>2. /\ pc' \in [Callers -> {"idle", "loop", "send", "wait"}]
        /\ cancelled' \in [Callers -> BOOLEAN]
        /\ stored' \in [Callers -> SUBSET (1 .. MaxItems)]
        /\ result' \in [Callers -> {"none", "nil", "signature", "refused", "context"}]
    BY <1>1, Zenon DEF TypeOK
  <2> QED
    BY <1>1, <2>1, <2>2 DEF TypeOK, Resp, Errors
<1>4. (\A q \in DOMAIN queue : \A i \in DOMAIN queue[q] : Sent(queue[q][i]))'
  <2> SUFFICES ASSUME NEW q \in DOMAIN queue, NEW i \in DOMAIN queue[q] PROVE Sent(queue[q][i])'
    BY <1>1
  <2>1. queue[q][i] \in Request /\ queue[q][i].caller # c
    BY <1>1, SMTT(30) DEF TypeOK, Referred
  <2>2. batch'[queue[q][i].caller] = batch[queue[q][i].caller]
    BY <1>1, <2>1, Zenon DEF TypeOK, Request
  <2> QED
    BY <1>1, <2>2, Zenon DEF Sent
<1>5. (\A w \in Workers : held[w] # Nil => Sent(held[w]))'
  <2> SUFFICES ASSUME NEW w \in Workers, held[w] # Nil PROVE Sent(held[w])'
    BY <1>1
  <2>1. held[w] \in Request /\ held[w].caller # c
    BY <1>1, Zenon DEF TypeOK, Referred
  <2>2. batch'[held[w].caller] = batch[held[w].caller]
    BY <1>1, <2>1 DEF TypeOK, Request
  <2> QED
    BY <1>1, <2>2, Zenon DEF Sent
<1>6. CallInv(c)'
  <2>1. b # <<>> => 1 \in DOMAIN b
    BY BatchType
  <2>2. /\ batch'[c] = b /\ next'[c] = 1
        /\ pc'[c] = IF c \in Submits THEN "send" ELSE IF b = <<>> THEN "wait" ELSE "loop"
    BY <1>1 DEF TypeOK
  <2> QED
    BY <2>1, <2>2 DEF CallInv
<1>7. RespInv(c)'
  <2>1. batch'[c] = b /\ next'[c] = 1 /\ resp'[c] = NewRespC(Len(b))
    BY <1>1 DEF TypeOK
  <2>2. Skipped(c)' = {}
    BY <2>1, BatchType DEF Skipped
  <2>3. GoodResp(b, {}, NewRespC(Len(b)))
    BY NewGood, Zenon
  <2> QED
    BY <2>1, <2>2, <2>3 DEF GoodResp, RespInv
<1>8. ASSUME NEW d \in Callers, d # c PROVE CallInv(d)' /\ RespInv(d)'
  BY <1>1, <1>8, OtherCalls, Zenon DEF TypeOK
<1>9. StoresOnlyVerified' /\ NilMeansRegistered'
  BY <1>1, Zenon DEF TypeOK, StoresOnlyVerified, NilMeansRegistered, Callers
<1>10. (\A w \in Workers : looked[w] => held[w] # Nil)'
  BY <1>1, Zenon
<1> QED
  BY <1>3, <1>4, <1>5, <1>6, <1>7, <1>8, <1>9, <1>10, Zenon

\* A call returns, having stored answers of its response if it is a
\* RegisterValidator.
LEMMA ReturnInv ==
    ASSUME VerifyInv, NEW c \in Callers, NEW res \in Errors, NEW ids \in SUBSET resp[c].nonErrors,
           Return(c, res, ids),
           \A d \in Callers \ {c} : resp'[d] = resp[d],
           resp' \in [Callers -> Resp], RespInv(c)',
           c \in Registers /\ res = "nil" =>
              \A i \in DOMAIN batch[c] : batch[c][i] = "cached" \/ i \in ids
    PROVE  VerifyInv'
<1> USE DEF VerifyInv
<1>1. /\ pc' = [pc EXCEPT ![c] = "idle"]
      /\ result' = [result EXCEPT ![c] = res] /\ stored' = [stored EXCEPT ![c] = ids]
      /\ UNCHANGED <<batch, next, cancelled, queue, held, looked>>
  BY DEF Return, Goto, workVars
<1>2. TypeOK'
  <2>1. ids \in SUBSET (1 .. MaxItems)
    BY DEF TypeOK
  <2> QED
    BY <1>1, <2>1 DEF TypeOK, Errors, Resp
<1>3. CallInv(c)'
  BY <1>1, Zenon DEF CallInv, TypeOK
<1>4. ASSUME NEW d \in Callers, d # c PROVE CallInv(d)' /\ RespInv(d)'
  BY <1>1, <1>4, OtherCalls, Zenon DEF TypeOK
<1>5. StoresOnlyVerified'
  BY <1>1, SMTT(30) DEF TypeOK, StoresOnlyVerified, RespInv, Callers
<1>6. NilMeansRegistered'
  BY <1>1, Zenon DEF TypeOK, NilMeansRegistered, Callers
<1> QED
  BY <1>1, <1>2, <1>3, <1>4, <1>5, <1>6, RequestsStay, Zenon

\* The context ends, or a call that sees it gives up.
LEMMA CancelInv == ASSUME VerifyInv, NEW c \in Callers, Cancel(c) PROVE VerifyInv'
<1>1. /\ cancelled' = [cancelled EXCEPT ![c] = TRUE]
      /\ UNCHANGED <<pc, batch, next, stored, result, resp, queue, held, looked>>
  BY DEF Cancel, workVars
<1>2. TypeOK'
  BY <1>1 DEF VerifyInv, TypeOK
<1>3. \A d \in Callers : CallInv(d)' /\ RespInv(d)'
  BY <1>1, OtherCalls
<1>4. StoresOnlyVerified' /\ NilMeansRegistered'
  BY <1>1 DEF VerifyInv, StoresOnlyVerified, NilMeansRegistered
<1> QED
  BY <1>1, <1>2, <1>3, <1>4, RequestsStay DEF VerifyInv

\* A cancelled caller closes its response.
LEMMA GiveUpInv == ASSUME VerifyInv, NEW c \in Callers, GiveUp(c) PROVE VerifyInv'
<1>1. /\ resp' = [resp EXCEPT ![c] = Close(@, "context")]
      /\ Return(c, "context", {}) /\ UNCHANGED <<batch, next>>
  BY DEF GiveUp, Return
<1>2. GoodResp(batch[c], Skipped(c), Close(resp[c], "context"))
  BY RespInvGood, CloseGood, Zenon DEF VerifyInv, Errors
<1>3. /\ resp' \in [Callers -> Resp] /\ resp'[c] = Close(resp[c], "context")
      /\ \A d \in Callers \ {c} : resp'[d] = resp[d]
  BY <1>1, <1>2, Zenon DEF VerifyInv, TypeOK, GoodResp, Resp, Errors
<1>4. RespInv(c)'
  <2>1. Skipped(c)' = Skipped(c)
    BY <1>1, Zenon DEF Skipped
  <2> QED
    BY <1>1, <1>2, <1>3, <2>1 DEF GoodResp, RespInv
<1> QED
  BY <1>1, <1>3, <1>4, ReturnInv, Zenon DEF Errors

\* The response was closed: with no error, it is complete.
LEMMA RegisteredInv == ASSUME VerifyInv, NEW c \in Callers, Registered(c) PROVE VerifyInv'
<1>1. /\ c \in Registers /\ resp[c].closed
      /\ Return(c, resp[c].err, resp[c].nonErrors) /\ UNCHANGED <<batch, next, resp>>
  BY DEF Registered, Return
<1>2. resp \in [Callers -> Resp] /\ resp[c].err \in Errors
  BY DEF VerifyInv, TypeOK, Resp, Errors
<1>3. RespInv(c)'
  BY <1>1, Zenon DEF VerifyInv, RespInv, Skipped
<1>4. resp[c].err = "nil" =>
        \A i \in DOMAIN batch[c] : batch[c][i] = "cached" \/ i \in resp[c].nonErrors
  BY <1>1 DEF VerifyInv, RespInv
<1> QED
  BY <1>1, <1>2, <1>3, <1>4, ReturnInv

\* Enqueue returns once its response is closed.
LEMMA EnqueuedInv == ASSUME VerifyInv, NEW c \in Callers, Enqueued(c) PROVE VerifyInv'
<1>1. /\ c \notin Registers
      /\ Return(c, "nil", {}) /\ UNCHANGED <<batch, next, resp>>
  BY VerifyAssumption DEF Enqueued, Return
<1>2. resp \in [Callers -> Resp]
  BY DEF VerifyInv, TypeOK, Resp, Errors
<1>3. RespInv(c)'
  BY <1>1, Zenon DEF VerifyInv, RespInv, Skipped
<1> QED
  BY <1>1, <1>2, <1>3, ReturnInv DEF Errors

-----------------------------------------------------------------------------
\* The loop moves on past the registration at next: the indexes skipped are
\* those before, and this one if it is cached.
LEMMA AdvanceStep ==
    ASSUME VerifyInv, NEW c \in Callers, pc[c] \in {"loop", "send"}, Advance(c), UNCHANGED batch
    PROVE  /\ pc' \in [Callers -> {"idle", "loop", "send", "wait"}]
           /\ next' \in [Callers -> 1 .. MaxItems + 1]
           /\ CallInv(c)'
           /\ Skipped(c)' = Skipped(c) \cup {i \in {next[c]} : batch[c][i] = "cached"}
           /\ next[c] \notin Skipped(c)
           /\ \A d \in Callers \ {c} : pc'[d] = pc[d] /\ next'[d] = next[d]
<1>1. /\ next' = [next EXCEPT ![c] = next[c] + 1]
      /\ pc' = [pc EXCEPT ![c] = IF next[c] = Len(batch[c]) THEN "wait" ELSE "loop"]
      /\ pc \in [Callers -> {"idle", "loop", "send", "wait"}]
      /\ next \in [Callers -> 1 .. MaxItems + 1]
  BY DEF Advance, Goto, VerifyInv, TypeOK
<1>2. /\ batch[c] \in Batches /\ next[c] \in DOMAIN batch[c]
      /\ DOMAIN batch[c] = 1 .. Len(batch[c]) /\ Len(batch[c]) \in Nat /\ Len(batch[c]) <= MaxItems
  BY BatchType DEF VerifyInv, TypeOK, CallInv
<1>3. next[c] + 1 \in 1 .. MaxItems + 1
  BY <1>2, VerifyAssumption
<1>4. next'[c] = next[c] + 1 /\ pc'[c] = IF next[c] = Len(batch[c]) THEN "wait" ELSE "loop"
  BY <1>1
<1>5. CallInv(c)'
  BY <1>2, <1>4 DEF CallInv
<1>6. /\ Skipped(c)' = Skipped(c) \cup {i \in {next[c]} : batch[c][i] = "cached"}
      /\ next[c] \notin Skipped(c)
  BY <1>2, <1>4, SMTT(30) DEF Skipped
<1> QED
  BY <1>1, <1>3, <1>5, <1>6

\* A turn of the loop over the batch skips, refuses or sets out to send.
LEMMA TurnInv == ASSUME VerifyInv, NEW c \in Callers, Turn(c) PROVE VerifyInv'
<1>1. pc[c] = "loop" /\ UNCHANGED <<batch, cancelled, stored, result, queue, held, looked>>
  BY Zenon DEF Turn, workVars
<1>2. GoodResp(batch[c], Skipped(c), resp[c]) /\ next[c] \in DOMAIN batch[c]
  BY <1>1, RespInvGood, Zenon DEF VerifyInv, CallInv
<1>3. ASSUME pc' \in [Callers -> {"idle", "loop", "send", "wait"}],
             next' \in [Callers -> 1 .. MaxItems + 1],
             \A d \in Callers \ {c} : pc'[d] = pc[d] /\ next'[d] = next[d],
             CallInv(c)', NEW s, resp' = [resp EXCEPT ![c] = s],
             GoodResp(batch[c], Skipped(c)', s)
      PROVE  VerifyInv'
  <2>1. resp' \in [Callers -> Resp] /\ resp'[c] = s /\ \A d \in Callers \ {c} : resp'[d] = resp[d]
    BY <1>3, Zenon DEF VerifyInv, TypeOK, GoodResp, Resp, Errors
  <2>2. TypeOK'
    BY <1>1, <1>3, <2>1, Zenon DEF VerifyInv, TypeOK, Resp, Errors
  <2>3. RespInv(c)'
    BY <1>1, <1>3, <2>1, Zenon DEF RespInv, GoodResp
  <2>4. \A d \in Callers \ {c} : CallInv(d)' /\ RespInv(d)'
    BY <1>1, <1>3, <2>1, OtherCalls, Zenon
  <2>5. StoresOnlyVerified' /\ NilMeansRegistered'
    BY <1>1 DEF VerifyInv, StoresOnlyVerified, NilMeansRegistered
  <2> QED
    BY <1>1, <1>3, <2>2, <2>3, <2>4, <2>5, RequestsStay, Zenon DEF VerifyInv
<1>4. CASE batch[c][next[c]] = "cached"
  <2>1. resp' = [resp EXCEPT ![c] = SkipOne(resp[c])] /\ Advance(c)
    BY <1>4, Zenon DEF Turn
  <2>2. Skipped(c)' = Skipped(c) \cup {next[c]} /\ next[c] \notin Skipped(c)
    BY <1>1, <1>4, <2>1, AdvanceStep, Zenon
  <2>3. GoodResp(batch[c], Skipped(c)', SkipOne(resp[c]))
    BY <1>2, <1>4, <2>2, RespInvGood, SkipGood DEF VerifyInv
  <2> QED
    BY <1>1, <1>3, <2>1, <2>3, AdvanceStep, Zenon
<1>5. CASE batch[c][next[c]] = "refused"
  <2>1. /\ resp' = [resp EXCEPT ![c] = Close(resp[c], "refused")]
        /\ pc' = [pc EXCEPT ![c] = "wait"] /\ UNCHANGED next
    BY <1>5, Zenon DEF Turn, Goto
  <2>2. GoodResp(batch[c], Skipped(c), Close(resp[c], "refused"))
    BY <1>2, CloseGood DEF Errors
  <2>3. Skipped(c)' = Skipped(c)
    BY <1>1, <2>1, Zenon DEF Skipped
  <2>4. CallInv(c)'
    BY <2>1, Zenon DEF CallInv, VerifyInv, TypeOK
  <2>5. /\ pc' \in [Callers -> {"idle", "loop", "send", "wait"}]
        /\ next' \in [Callers -> 1 .. MaxItems + 1]
        /\ \A d \in Callers \ {c} : pc'[d] = pc[d] /\ next'[d] = next[d]
    BY <2>1 DEF VerifyInv, TypeOK
  <2> QED
    BY <1>3, <2>1, <2>2, <2>3, <2>4, <2>5, Zenon
<1>6. CASE batch[c][next[c]] \in {"good", "bad"}
  <2>1. pc' = [pc EXCEPT ![c] = "send"] /\ UNCHANGED <<resp, next>>
    BY <1>6 DEF Turn, Goto
  <2>2. Skipped(c)' = Skipped(c)
    BY <1>1, <2>1, Zenon DEF Skipped
  <2>3. CallInv(c)'
    BY <1>1, <1>2, <1>6, <2>1, Zenon DEF CallInv, VerifyInv, TypeOK
  <2>4. /\ pc' \in [Callers -> {"idle", "loop", "send", "wait"}]
        /\ next' \in [Callers -> 1 .. MaxItems + 1]
        /\ resp' = [resp EXCEPT ![c] = resp[c]]
        /\ \A d \in Callers \ {c} : pc'[d] = pc[d] /\ next'[d] = next[d]
    BY <2>1, Zenon DEF VerifyInv, TypeOK
  <2> QED
    BY <1>2, <1>3, <2>2, <2>3, <2>4, Zenon
<1> QED
  BY <1>4, <1>5, <1>6, Zenon DEF Turn

\* The request that is queued is one for a signature.
LEMMA PushInv == ASSUME VerifyInv, NEW c \in Callers, Push(c) PROVE VerifyInv'
<1> DEFINE p == IF c \in Submits THEN "submit" ELSE "register"
           r == [caller |-> c, id |-> next[c]]
<1>1. /\ pc[c] = "send" /\ Len(queue[p]) < QueueSize /\ Advance(c)
      /\ queue' = [queue EXCEPT ![p] = Append(queue[p], r)]
      /\ UNCHANGED <<batch, cancelled, stored, result, resp, held, looked>>
  BY Zenon DEF Push, workVars
<1>2. /\ next[c] \in DOMAIN batch[c] /\ batch[c][next[c]] \in {"good", "bad"}
      /\ next[c] \in 1 .. MaxItems
  BY <1>1, BatchType, Zenon DEF VerifyInv, CallInv, TypeOK
<1>3. r \in Request /\ Sent(r)
  BY <1>1, <1>2 DEF Request, Sent
<1>4. p \in {"submit", "register"} /\ queue \in [{"submit", "register"} -> Seq(Request)]
  BY DEF VerifyInv, TypeOK
<1> HIDE DEF p, r
<1>5. /\ queue' \in [{"submit", "register"} -> Seq(Request)]
      /\ \A q \in {"submit", "register"} : queue'[q] = IF q = p THEN Append(queue[p], r) ELSE queue[q]
  BY <1>1, <1>3, <1>4, SMTT(30)
<1>6. ASSUME NEW q \in DOMAIN queue' PROVE Len(queue'[q]) <= QueueSize
  BY <1>1, <1>4, <1>5, VerifyAssumption, SMTT(30) DEF VerifyInv, TypeOK
<1>7. ASSUME NEW q \in DOMAIN queue', NEW i \in DOMAIN queue'[q] PROVE Sent(queue'[q][i])
  <2>1. queue'[q][i] = r \/ (i \in DOMAIN queue[q] /\ queue'[q][i] = queue[q][i])
    <3>1. q \in {"submit", "register"} /\ queue[q] \in Seq(Request) /\ DOMAIN queue = DOMAIN queue'
      BY <1>4, <1>5
    <3>2. CASE q = p
      <4>1. queue'[q] = Append(queue[q], r)
        BY <1>5, <3>1, <3>2
      <4> QED
        BY <1>3, <3>1, <4>1
    <3>3. CASE q # p
      BY <1>5, <3>1, <3>3, Zenon
    <3> QED
      BY <3>2, <3>3
  <2>2. i \in DOMAIN queue[q] => Sent(queue[q][i])
    BY <1>4, <1>5, Zenon DEF VerifyInv
  <2> QED
    BY <1>3, <2>1, <2>2, Zenon
<1>8. TypeOK'
  BY <1>1, <1>5, <1>6, AdvanceStep, Zenon DEF VerifyInv, TypeOK
<1>9. RespInv(c)'
  <2>1. Skipped(c)' = Skipped(c)
    BY <1>1, <1>2, AdvanceStep, Zenon
  <2> QED
    BY <1>1, <2>1, Zenon DEF VerifyInv, RespInv
<1>10. \A d \in Callers \ {c} : CallInv(d)' /\ RespInv(d)'
  BY <1>1, AdvanceStep, OtherCalls, Zenon
<1>11. StoresOnlyVerified' /\ NilMeansRegistered'
  BY <1>1, Zenon DEF VerifyInv, StoresOnlyVerified, NilMeansRegistered
<1>12. /\ (\A w \in Workers : held[w] # Nil => Sent(held[w]))'
       /\ (\A w \in Workers : looked[w] => held[w] # Nil)'
  BY <1>1, Zenon DEF VerifyInv, Sent
<1>13. (\A q \in DOMAIN queue : \A i \in DOMAIN queue[q] : Sent(queue[q][i]))'
  <2>1. ASSUME NEW q \in DOMAIN queue', NEW i \in DOMAIN queue'[q]
        PROVE  /\ queue'[q][i].id \in DOMAIN batch'[queue'[q][i].caller]
               /\ batch'[queue'[q][i].caller][queue'[q][i].id] \in {"good", "bad"}
    BY <1>1, <1>7, Zenon DEF Sent
  <2> QED
    BY <2>1 DEF Sent
<1> QED
  BY <1>1, <1>8, <1>9, <1>10, <1>11, <1>12, <1>13, AdvanceStep, Zenon DEF VerifyInv

-----------------------------------------------------------------------------
\* A worker takes a request, drops it, or answers it.
LEMMA TakeInv ==
    ASSUME VerifyInv, NEW w \in Workers, NEW p \in DOMAIN queue, Take(w, p)
    PROVE  VerifyInv'
<1>1. /\ held' = [held EXCEPT ![w] = Head(queue[p])] /\ queue[p] # <<>>
      /\ queue' = [queue EXCEPT ![p] = Tail(queue[p])]
      /\ UNCHANGED <<pc, batch, next, cancelled, stored, result, resp, looked>>
  BY DEF Take, callVars
<1>2. /\ queue \in [{"submit", "register"} -> Seq(Request)] /\ p \in {"submit", "register"}
      /\ queue[p] \in Seq(Request)
  BY DEF VerifyInv, TypeOK
<1>3. /\ Head(queue[p]) \in Request /\ Head(queue[p]) = queue[p][1] /\ 1 \in DOMAIN queue[p]
      /\ Tail(queue[p]) \in Seq(Request) /\ Len(Tail(queue[p])) <= Len(queue[p])
      /\ \A i \in DOMAIN Tail(queue[p]) : i + 1 \in DOMAIN queue[p] /\ Tail(queue[p])[i] = queue[p][i + 1]
  BY <1>1, <1>2, SMTT(30)
<1>4. Sent(Head(queue[p])) /\ Head(queue[p]) # Nil
  BY <1>3, VerifyAssumption DEF VerifyInv
<1>5. /\ queue' \in [{"submit", "register"} -> Seq(Request)]
      /\ \A q \in {"submit", "register"} : queue'[q] = IF q = p THEN Tail(queue[p]) ELSE queue[q]
  BY <1>1, <1>2, <1>3, Zenon
<1>6. ASSUME NEW q \in DOMAIN queue' PROVE Len(queue'[q]) <= QueueSize
  BY <1>2, <1>3, <1>5, VerifyAssumption, SMTT(30) DEF VerifyInv, TypeOK
<1>7. TypeOK'
  BY <1>1, <1>3, <1>5, <1>6, Zenon DEF VerifyInv, TypeOK
<1>8. (\A q \in DOMAIN queue : \A i \in DOMAIN queue[q] : Sent(queue[q][i]))'
  <2>1. ASSUME NEW q \in DOMAIN queue', NEW i \in DOMAIN queue'[q] PROVE Sent(queue'[q][i])
    <3>1. q \in {"submit", "register"} /\ q \in DOMAIN queue
      BY <1>2, <1>5
    <3>2. CASE q = p
      BY <1>3, <1>5, <3>1, <3>2, Zenon DEF VerifyInv
    <3>3. CASE q # p
      BY <1>5, <3>1, <3>3, Zenon DEF VerifyInv
    <3> QED
      BY <3>2, <3>3
  <2>2. ASSUME NEW q \in DOMAIN queue', NEW i \in DOMAIN queue'[q]
        PROVE  /\ queue'[q][i].id \in DOMAIN batch'[queue'[q][i].caller]
               /\ batch'[queue'[q][i].caller][queue'[q][i].id] \in {"good", "bad"}
    BY <1>1, <2>1 DEF Sent
  <2> QED
    BY <2>2, Zenon DEF Sent
<1>9. /\ (\A u \in Workers : held[u] # Nil => Sent(held[u]))'
      /\ (\A u \in Workers : looked[u] => held[u] # Nil)'
  BY <1>1, <1>4, Zenon DEF VerifyInv, Sent, TypeOK
<1>10. \A d \in Callers : CallInv(d)' /\ RespInv(d)'
  BY <1>1, OtherCalls
<1>11. StoresOnlyVerified' /\ NilMeansRegistered'
  BY <1>1 DEF VerifyInv, StoresOnlyVerified, NilMeansRegistered
<1> QED
  BY <1>7, <1>8, <1>9, <1>10, <1>11, Zenon DEF VerifyInv

\* A worker looks at the response of its request before it verifies.
LEMMA LookInv == ASSUME VerifyInv, NEW w \in Workers, Look(w) PROVE VerifyInv'
<1>1. /\ held[w] # Nil /\ UNCHANGED <<pc, batch, next, cancelled, stored, result, resp, queue>>
      /\ \/ held' = [held EXCEPT ![w] = Nil] /\ UNCHANGED looked /\ ~looked[w]
         \/ looked' = [looked EXCEPT ![w] = TRUE] /\ UNCHANGED held
  BY DEF Look, callVars
<1>2. TypeOK'
  BY <1>1, Zenon DEF VerifyInv, TypeOK
<1>3. /\ (\A u \in Workers : held[u] # Nil => Sent(held[u]))'
      /\ (\A u \in Workers : looked[u] => held[u] # Nil)'
  <2>1. CASE held' = [held EXCEPT ![w] = Nil] /\ UNCHANGED looked /\ ~looked[w]
    BY <1>1, <2>1 DEF VerifyInv, Sent, TypeOK
  <2>2. CASE looked' = [looked EXCEPT ![w] = TRUE] /\ UNCHANGED held
    <3>1. \A u \in Workers : looked'[u] => looked[u] \/ u = w
      BY <2>2, Zenon DEF VerifyInv, TypeOK
    <3> QED
      BY <1>1, <2>2, <3>1, Zenon DEF VerifyInv, Sent
  <2> QED
    BY <1>1, <2>1, <2>2, Zenon
<1>4. \A d \in Callers : CallInv(d)' /\ RespInv(d)'
  BY <1>1, OtherCalls, Zenon
<1>5. StoresOnlyVerified' /\ NilMeansRegistered'
  BY <1>1, Zenon DEF VerifyInv, StoresOnlyVerified, NilMeansRegistered
<1>6. (\A q \in DOMAIN queue : \A i \in DOMAIN queue[q] : Sent(queue[q][i]))'
  BY <1>1, Zenon DEF VerifyInv, Sent
<1> QED
  BY <1>2, <1>3, <1>4, <1>5, <1>6, Zenon DEF VerifyInv

\* An answer is counted once, for a request that is then nowhere.
LEMMA AnswerInv == ASSUME VerifyInv, NEW w \in Workers, Answer(w) PROVE VerifyInv'
<1>1. PICK r \in Request : r = held[w] /\ Sent(r)
  BY DEF VerifyInv, TypeOK, Answer
<1>2. /\ resp' = [resp EXCEPT ![r.caller] = Send(resp[r.caller], r.id, Verdict(r))]
      /\ held' = [held EXCEPT ![w] = Nil] /\ looked' = [looked EXCEPT ![w] = FALSE]
      /\ UNCHANGED <<pc, batch, next, cancelled, stored, result, queue>>
  BY <1>1 DEF Answer, callVars
<1>3. PICK c \in Callers : c = r.caller
  BY DEF Request
<1>4. PICK s : s = Send(resp[c], r.id, Verdict(r))
  BY Zenon
<1>5. GoodResp(batch[c], Skipped(c), s)
  <2>1. r.id \in DOMAIN batch[c] /\ Verdict(r) \in {"nil", "signature"}
        /\ (Verdict(r) = "nil" => batch[c][r.id] = "good")
    BY <1>1, <1>3, Zenon DEF Sent, Verdict
  <2> QED
    BY <1>3, <1>4, <2>1, RespInvGood, SendGood, Zenon DEF VerifyInv
<1>6. resp' \in [Callers -> Resp] /\ resp'[c] = s /\ \A d \in Callers \ {c} : resp'[d] = resp[d]
  BY <1>2, <1>3, <1>4, <1>5, Zenon DEF VerifyInv, TypeOK, GoodResp, Resp, Errors
<1>7. TypeOK'
  BY <1>2, <1>6, Zenon DEF VerifyInv, TypeOK, Resp, Errors
<1>8. RespInv(c)' /\ CallInv(c)'
  <2>1. Skipped(c)' = Skipped(c)
    BY <1>2, Zenon DEF Skipped
  <2>2. RespInv(c)'
    BY <1>2, <1>5, <1>6, <2>1, Zenon DEF RespInv, GoodResp
  <2> QED
    BY <1>2, <2>2, Zenon DEF VerifyInv, CallInv
<1>9. \A d \in Callers \ {c} : CallInv(d)' /\ RespInv(d)'
  BY <1>2, <1>6, OtherCalls, Zenon
<1>10. /\ (\A u \in Workers : held[u] # Nil => Sent(held[u]))'
       /\ (\A u \in Workers : looked[u] => held[u] # Nil)'
  BY <1>2, SMTT(30) DEF VerifyInv, Sent, TypeOK
<1>11. /\ StoresOnlyVerified' /\ NilMeansRegistered'
       /\ (\A q \in DOMAIN queue : \A i \in DOMAIN queue[q] : Sent(queue[q][i]))'
  BY <1>2, Zenon DEF VerifyInv, StoresOnlyVerified, NilMeansRegistered, Sent
<1> QED
  BY <1>7, <1>8, <1>9, <1>10, <1>11, Zenon DEF VerifyInv

-----------------------------------------------------------------------------
\* Every step of a caller or a worker keeps VerifyInv.
LEMMA Next_VerifyInv == VerifyInv /\ [Next]_vars => VerifyInv'
<1> SUFFICES ASSUME VerifyInv, [Next]_vars PROVE VerifyInv'
  OBVIOUS
<1>1. ASSUME NEW c \in Registers, RegisterValidator(c) \/ Cancel(c) \/ \E b \in Batches : Begin(c, b)
      PROVE  VerifyInv'
  <2>1. c \in Callers /\ c \notin Submits
    BY VerifyAssumption DEF Callers
  <2> QED
    BY <1>1, <2>1, GiveUpInv, TurnInv, PushInv, RegisteredInv, CancelInv, BeginInv, Zenon
    DEF RegisterValidator
<1>2. ASSUME NEW c \in Submits, Enqueue(c) \/ Cancel(c)
      PROVE  VerifyInv'
  <2>1. c \in Callers
    BY DEF Callers
  <2> QED
    BY <1>2, <2>1, GiveUpInv, PushInv, EnqueuedInv, CancelInv DEF Enqueue
<1>3. ASSUME NEW c \in Submits, NEW kind \in {"good", "bad"}, Begin(c, <<kind>>)
      PROVE  VerifyInv'
  <2>1. c \in Callers /\ <<kind>> \in Batches /\ <<kind>> # <<>> /\ <<kind>>[1] \in {"good", "bad"}
    BY SingleBatch DEF Callers
  <2>2. ASSUME NEW b \in Batches, b = <<kind>> PROVE VerifyInv'
    BY <1>3, <2>1, <2>2, BeginInv
  <2> QED
    BY <2>1, <2>2
<1>4. ASSUME NEW w \in Workers, VerifyParallel(w) PROVE VerifyInv'
  BY <1>4, TakeInv, LookInv, AnswerInv, Zenon DEF VerifyParallel
<1>5. CASE UNCHANGED vars
  <2>1. UNCHANGED <<pc, batch, next, cancelled, stored, result, resp, queue, held, looked>>
    BY <1>5, Zenon DEF vars, callVars, workVars
  <2>2. TypeOK'
    BY <2>1, Zenon DEF VerifyInv, TypeOK
  <2>3. \A d \in Callers : CallInv(d)' /\ RespInv(d)'
    BY <2>1, OtherCalls, Zenon
  <2>4. StoresOnlyVerified' /\ NilMeansRegistered'
    BY <2>1 DEF VerifyInv, StoresOnlyVerified, NilMeansRegistered
  <2> QED
    BY <2>1, <2>2, <2>3, <2>4, RequestsStay, Zenon DEF VerifyInv
<1> QED
  BY <1>1, <1>2, <1>3, <1>4, <1>5 DEF Next

\* The queues stay within their capacity, and the count of a response between
\* zero and the size of its batch.
THEOREM TypeCorrect == Spec => []TypeOK
<1>1. VerifyInv => TypeOK
  BY DEF VerifyInv
<1> QED
  BY <1>1, Init_VerifyInv, Next_VerifyInv, PTL DEF Spec

\* RegisterValidator hands only verified registrations to the store manager.
THEOREM StoresTheorem == Spec => []StoresOnlyVerified
<1>1. VerifyInv => StoresOnlyVerified
  BY Zenon DEF VerifyInv
<1> QED
  BY <1>1, Init_VerifyInv, Next_VerifyInv, PTL DEF Spec

\* RegisterValidator returns nil only when every registration of the batch was
\* handed over or is the one in the cache.
THEOREM NilTheorem == Spec => []NilMeansRegistered
<1>1. VerifyInv => NilMeansRegistered
  BY DEF VerifyInv
<1> QED
  BY <1>1, Init_VerifyInv, Next_VerifyInv, PTL DEF Spec

\* A closed response gets no further answer and does not lose its error.
THEOREM ClosedTheorem == Spec => ClosedIsFinal
<1> DEFINE Final(c) == (resp[c].closed /\ resp'[c].closed) =>
                          /\ resp'[c].nonErrors = resp[c].nonErrors
                          /\ resp[c].err # "nil" => resp'[c].err # "nil"
<1>1. VerifyInv /\ [Next]_vars => [\A c \in Callers : Final(c)]_vars
  <2> SUFFICES ASSUME VerifyInv, Next, NEW c \in Callers PROVE Final(c)
    BY Zenon
  <2>1. resp \in [Callers -> Resp]
    BY Zenon DEF VerifyInv, TypeOK, Resp, Errors
  <2>2. \/ resp'[c] = resp[c]
        \/ \E err \in Errors \ {"nil"} : resp'[c] = Close(resp[c], err)
        \/ \E b : resp'[c] = NewRespC(Len(b))
        \/ resp'[c] = SkipOne(resp[c])
        \/ \E id, err : resp'[c] = Send(resp[c], id, err)
    <3>1. ASSUME NEW d \in Callers, GiveUp(d) \/ Turn(d) PROVE <2>2
      BY <2>1, <3>1, Zenon DEF GiveUp, Turn, Errors
    <3>2. ASSUME NEW d \in Callers, Push(d) \/ Registered(d) \/ Enqueued(d) \/ Cancel(d)
          PROVE  UNCHANGED resp
      BY <3>2, Zenon DEF Push, Registered, Enqueued, Cancel
    <3>3. ASSUME NEW d \in Callers, NEW b, Begin(d, b) PROVE <2>2
      BY <2>1, <3>3, Zenon DEF Begin
    <3>4. ASSUME NEW w \in Workers, VerifyParallel(w) PROVE <2>2
      <4>1. CASE Answer(w)
        <5>1. resp' = [resp EXCEPT ![held[w].caller] = Send(@, held[w].id, Verdict(held[w]))]
          BY <4>1, Zenon DEF Answer
        <5> QED
          BY <2>1, <5>1, Zenon
      <4>2. CASE ~Answer(w)
        BY <3>4, <4>2 DEF VerifyParallel, Take, Look
      <4> QED
        BY <4>1, <4>2, Zenon
    <3> QED
      BY <3>1, <3>2, <3>3, <3>4 DEF Next, RegisterValidator, Enqueue, Callers
  <2>3. resp[c] \in Resp
    BY <2>1, Zenon
  <2> SUFFICES ASSUME resp[c].closed, resp'[c].closed
               PROVE  /\ resp'[c].nonErrors = resp[c].nonErrors
                      /\ resp[c].err # "nil" => resp'[c].err # "nil"
    BY Zenon
  <2>4. ASSUME NEW b PROVE resp'[c] # NewRespC(Len(b))
    BY DEF NewRespC
  <2>5. SkipOne(resp[c]) = resp[c] /\ \A id, err : Send(resp[c], id, err) = resp[c]
    BY DEF SkipOne, Send
  <2>6. ASSUME NEW err \in Errors \ {"nil"}
        PROVE  Close(resp[c], err).nonErrors = resp[c].nonErrors /\ Close(resp[c], err).err = err
    BY <2>3 DEF Close, Resp
  <2> QED
    BY <2>2, <2>4, <2>5, <2>6, Zenon
<1> QED
  BY <1>1, Init_VerifyInv, Next_VerifyInv, PTL DEF Spec, ClosedIsFinal
-----------------------------------------------------------------------------
\* A call whose response stays as it is, or is closed, keeps WakeInv unless it
\* loses a request.
LEMMA WakeKept ==
    ASSUME NEW d \in Callers, WakeInv(d), batch'[d] = batch[d], next'[d] = next[d],
           resp'[d] = resp[d] \/ resp'[d].closed,
           pc'[d] = "wait" => pc[d] = "wait" \/ resp'[d].closed,
           \A i \in DOMAIN batch[d] : Outstanding(d, i) => Outstanding(d, i)' \/ resp[d].closed
    PROVE  WakeInv(d)'
<1>1. CASE resp'[d].closed
  BY <1>1, Zenon DEF WakeInv
<1>2. CASE ~resp'[d].closed
  BY <1>2, Zenon DEF WakeInv
<1> QED
  BY <1>1, <1>2, Zenon

\* Where no request moves, the same ones are outstanding.
LEMMA SameOutstanding ==
    ASSUME UNCHANGED <<queue, held>>
    PROVE  \A c, i : Outstanding(c, i)' <=> Outstanding(c, i)
  BY Zenon DEF Outstanding

\* A response before it is compared with its number.
Counting == [nonErrors : SUBSET (1 .. MaxItems), numAll : Int, closed : BOOLEAN, err : Errors]

\* A response that CloseIfAll leaves open lacks an answer.
LEMMA OpenLacks ==
    ASSUME NEW s \in Counting, ~CloseIfAll(s).closed
    PROVE  /\ ~s.closed /\ s.numAll # Cardinality(s.nonErrors)
           /\ CloseIfAll(s).numAll = s.numAll /\ CloseIfAll(s).nonErrors = s.nonErrors
  BY Zenon DEF CloseIfAll, Counting

\* Close closes, with an error or without.
LEMMA CloseCloses ==
    ASSUME NEW s \in Resp, NEW err
    PROVE  Close(s, err).closed
  BY Zenon DEF Close, Resp

\* A new call has passed nothing yet.
LEMMA BeginWake ==
    ASSUME VerifyInv, NEW c \in Callers, NEW b \in Batches, Begin(c, b),
           \A d \in Callers : WakeInv(d), NEW d \in Callers
    PROVE  WakeInv(d)'
<1>1. /\ batch' = [batch EXCEPT ![c] = b] /\ next' = [next EXCEPT ![c] = 1]
      /\ resp' = [resp EXCEPT ![c] = NewRespC(Len(b))]
      /\ pc' = [pc EXCEPT ![c] = IF c \in Submits THEN "send" ELSE IF b = <<>> THEN "wait" ELSE "loop"]
      /\ UNCHANGED <<queue, held>>
  BY Zenon DEF Begin, Goto, workVars
<1>2. CASE d = c
  <2>1. /\ batch'[c] = b /\ next'[c] = 1 /\ resp'[c] = NewRespC(Len(b))
        /\ pc'[c] = "wait" => b = <<>>
    BY <1>1, Zenon DEF VerifyInv, TypeOK
  <2>2. /\ NewRespC(Len(b)).numAll = Len(b) /\ Cardinality(NewRespC(Len(b)).nonErrors) = 0
    BY FS_EmptySet, Zenon DEF NewRespC
  <2>3. /\ \A i \in DOMAIN b : ~(i < 1)
        /\ b # <<>> => Len(b) # 0
        /\ b = <<>> => 1 = Len(b) + 1
    BY BatchType, SMTT(30)
  <2> QED
    BY <1>2, <2>1, <2>2, <2>3, SMTT(30) DEF WakeInv
<1>3. CASE d # c
  BY <1>1, <1>3, WakeKept, SameOutstanding, Zenon DEF VerifyInv, TypeOK
<1> QED
  BY <1>2, <1>3, Zenon

\* A call returns only with its response closed.
LEMMA ReturnWake ==
    ASSUME VerifyInv, NEW c \in Callers, GiveUp(c) \/ Registered(c) \/ Enqueued(c),
           \A d \in Callers : WakeInv(d), NEW d \in Callers
    PROVE  WakeInv(d)'
<1>1. /\ UNCHANGED <<batch, next, queue, held>> /\ pc' = [pc EXCEPT ![c] = "idle"]
      /\ resp' = [resp EXCEPT ![c] = Close(resp[c], "context")] \/ UNCHANGED resp
  BY Zenon DEF GiveUp, Registered, Enqueued, Return, Goto, workVars
<1>2. resp'[d] = resp[d] \/ resp'[d].closed
  <2>1. resp \in [Callers -> Resp]
    BY Zenon DEF VerifyInv, TypeOK, Resp, Errors
  <2>2. Close(resp[c], "context").closed
    BY <2>1, CloseCloses, Zenon
  <2> QED
    BY <1>1, <2>1, <2>2, Zenon
<1>3. pc'[d] = "wait" => pc[d] = "wait"
  BY <1>1, Zenon DEF VerifyInv, TypeOK
<1> QED
  BY <1>1, <1>2, <1>3, WakeKept, SameOutstanding, Zenon

\* The loop moves on past a registration that is cached or whose request is
\* outstanding now.
LEMMA AdvanceWake ==
    ASSUME VerifyInv, NEW c \in Callers, NEW n, n = next[c], pc[c] \in {"loop", "send"}, Advance(c), UNCHANGED batch,
           WakeInv(c), ~resp[c].closed, resp'[c].nonErrors = resp[c].nonErrors,
           resp'[c].numAll # Cardinality(resp'[c].nonErrors),
           batch[c][n] = "cached" \/ Outstanding(c, n)',
           \A i \in DOMAIN batch[c] : Outstanding(c, i) => Outstanding(c, i)'
    PROVE  WakeInv(c)'
<1>1. /\ next'[c] = next[c] + 1
      /\ pc'[c] = IF next[c] = Len(batch[c]) THEN "wait" ELSE "loop"
  BY Zenon DEF Advance, Goto, VerifyInv, TypeOK
<1>2. next[c] \in Nat /\ DOMAIN batch[c] = 1 .. Len(batch[c]) /\ Len(batch[c]) \in Nat
  BY BatchType, SMTT(30) DEF VerifyInv, TypeOK
<1>3. ASSUME NEW i \in DOMAIN batch[c], i < next'[c]
      PROVE  batch[c][i] = "cached" \/ i \in resp'[c].nonErrors \/ Outstanding(c, i)'
  <2>1. i = n \/ i < next[c]
    BY <1>1, <1>2, <1>3, SMTT(30)
  <2> QED
    BY <2>1, Zenon DEF WakeInv
<1>4. pc'[c] = "wait" => next'[c] = Len(batch[c]) + 1
  BY <1>1, Zenon
<1> QED
  BY <1>3, <1>4, Zenon DEF WakeInv

\* The loop passes a registration with its skip counted, or its request sent.
LEMMA TurnWake ==
    ASSUME VerifyInv, NEW c \in Callers, Turn(c), \A d \in Callers : WakeInv(d), NEW d \in Callers
    PROVE  WakeInv(d)'
<1>1. pc[c] = "loop" /\ UNCHANGED <<batch, queue, held>>
  BY Zenon DEF Turn, workVars
<1>2. CASE batch[c][next[c]] = "cached"
  <2>1. resp' = [resp EXCEPT ![c] = SkipOne(resp[c])] /\ Advance(c)
    BY <1>2, Zenon DEF Turn
  <2>2. CASE d = c
    <3> DEFINE t == [resp[c] EXCEPT !.numAll = @ - 1]
    <3>1. resp'[c] = SkipOne(resp[c]) /\ resp[c] \in Resp
      BY <2>1, Zenon DEF VerifyInv, TypeOK, Resp, Errors
    <3>2. SUFFICES ASSUME ~resp'[c].closed PROVE WakeInv(c)'
      BY <2>2, Zenon DEF WakeInv
    <3>3. ~resp[c].closed /\ resp'[c] = CloseIfAll(t)
      BY <3>1, <3>2, Zenon DEF SkipOne
    <3>4. /\ resp'[c].nonErrors = resp[c].nonErrors
          /\ resp'[c].numAll # Cardinality(resp'[c].nonErrors)
      <4>1. t \in Counting /\ t.nonErrors = resp[c].nonErrors
        BY <3>1, SMTT(30) DEF Resp, Counting
      <4> QED
        BY <3>2, <3>3, <4>1, OpenLacks, Zenon
    <3> QED
      BY <1>1, <1>2, <2>1, <3>3, <3>4, AdvanceWake, SameOutstanding, Zenon
  <2>3. CASE d # c
    <3>1. resp'[d] = resp[d] /\ pc'[d] = pc[d] /\ next'[d] = next[d]
      BY <1>1, <2>1, <2>3, AdvanceStep, ZenonT(30) DEF VerifyInv, TypeOK
    <3> QED
      BY <1>1, <3>1, WakeKept, SameOutstanding, Zenon
  <2> QED
    BY <2>2, <2>3, Zenon
<1>3. CASE batch[c][next[c]] = "refused"
  <2>1. /\ resp' = [resp EXCEPT ![c] = Close(resp[c], "refused")]
        /\ pc' = [pc EXCEPT ![c] = "wait"] /\ UNCHANGED next
    BY <1>3, Zenon DEF Turn, Goto
  <2>2. IF d = c THEN resp'[d].closed ELSE resp'[d] = resp[d]
    BY <2>1, CloseCloses, Zenon DEF VerifyInv, TypeOK, Resp, Errors
  <2>3. pc'[d] = "wait" => pc[d] = "wait" \/ resp'[d].closed
    BY <2>1, <2>2, Zenon DEF VerifyInv, TypeOK
  <2> QED
    BY <1>1, <2>1, <2>2, <2>3, WakeKept, SameOutstanding, Zenon
<1>4. CASE batch[c][next[c]] \in {"good", "bad"}
  <2>1. pc' = [pc EXCEPT ![c] = "send"] /\ UNCHANGED <<resp, next>>
    BY <1>4, Zenon DEF Turn, Goto
  <2>2. pc'[d] = "wait" => pc[d] = "wait"
    BY <2>1, Zenon DEF VerifyInv, TypeOK
  <2> QED
    BY <1>1, <2>1, <2>2, WakeKept, SameOutstanding, Zenon
<1> QED
  BY <1>2, <1>3, <1>4, Zenon DEF Turn

\* A request that is sent is outstanding, and so are those already there.
LEMMA PushWake ==
    ASSUME VerifyInv, NEW c \in Callers, Push(c), \A d \in Callers : WakeInv(d), NEW d \in Callers
    PROVE  WakeInv(d)'
<1> DEFINE p == IF c \in Submits THEN "submit" ELSE "register"
           r == [caller |-> c, id |-> next[c]]
<1>1. /\ pc[c] = "send" /\ Advance(c) /\ UNCHANGED <<batch, resp, held>>
      /\ queue' = [queue EXCEPT ![p] = Append(queue[p], r)]
  BY Zenon DEF Push, workVars
<1>2. p \in DOMAIN queue /\ queue[p] \in Seq(Request) /\ DOMAIN queue' = DOMAIN queue
  BY <1>1, Zenon DEF VerifyInv, TypeOK
<1>3. next[c] \in 1 .. MaxItems
  BY <1>1, BatchType, Zenon DEF VerifyInv, CallInv, TypeOK
<1>4. r \in Request
  BY <1>3, Zenon DEF Request
<1> HIDE DEF p, r
<1>5. /\ queue'[p] = Append(queue[p], r)
      /\ \A q \in DOMAIN queue : q # p => queue'[q] = queue[q]
  BY <1>1, <1>2, Zenon
<1>6. /\ \A k \in DOMAIN queue[p] : k \in DOMAIN queue'[p] /\ queue'[p][k] = queue[p][k]
      /\ \E k \in DOMAIN queue'[p] : queue'[p][k] = r
  <2>1. Len(queue[p]) + 1 \in DOMAIN queue'[p] /\ queue'[p][Len(queue[p]) + 1] = r
    BY <1>2, <1>4, <1>5, SMTT(30)
  <2>2. \A k \in DOMAIN queue[p] : k \in DOMAIN queue'[p] /\ queue'[p][k] = queue[p][k]
    BY <1>2, <1>4, <1>5, SMTT(30)
  <2> QED
    BY <2>1, <2>2, Zenon
<1>7. ASSUME NEW x, NEW i, Outstanding(x, i) PROVE Outstanding(x, i)'
  <2>1. ASSUME NEW q \in DOMAIN queue, NEW k \in DOMAIN queue[q]
        PROVE  k \in DOMAIN queue'[q] /\ queue'[q][k] = queue[q][k]
    BY <1>5, <1>6, Zenon
  <2>2. CASE \E w \in Workers : held[w] = [caller |-> x, id |-> i]
    BY <1>1, <2>2, Zenon DEF Outstanding
  <2>3. CASE \E q \in DOMAIN queue : \E k \in DOMAIN queue[q] : queue[q][k] = [caller |-> x, id |-> i]
    BY <1>2, <2>1, <2>3, ZenonT(30) DEF Outstanding
  <2> QED
    BY <1>7, <2>2, <2>3, Zenon DEF Outstanding
<1>8. PICK n : n = next[c]
  BY Zenon
<1>9. Outstanding(c, n)'
  BY <1>2, <1>6, <1>8, Zenon DEF Outstanding, r
<1>10. CASE d = c
  <2>1. SUFFICES ASSUME ~resp[c].closed PROVE WakeInv(c)'
    BY <1>1, <1>10, Zenon DEF WakeInv
  <2>2. batch[c] # <<>>
    <3>1. next[c] \in DOMAIN batch[c]
      BY <1>1, Zenon DEF VerifyInv, CallInv
    <3> QED
      BY <3>1, SMTT(30)
  <2>3. resp[c].numAll # Cardinality(resp[c].nonErrors)
    BY <2>1, <2>2, Zenon DEF WakeInv
  <2> QED
    BY <1>1, <1>7, <1>8, <1>9, <1>10, <2>1, <2>3, AdvanceWake, Zenon
<1>11. CASE d # c
  BY <1>1, <1>7, <1>11, AdvanceStep, WakeKept, Zenon
<1> QED
  BY <1>10, <1>11, Zenon

\* A request that a worker takes is the one it holds then.
LEMMA TakeWake ==
    ASSUME VerifyInv, NEW w \in Workers, NEW p \in DOMAIN queue, Take(w, p),
           \A d \in Callers : WakeInv(d), NEW d \in Callers
    PROVE  WakeInv(d)'
<1>1. /\ held[w] = Nil /\ held' = [held EXCEPT ![w] = Head(queue[p])] /\ queue[p] # <<>>
      /\ queue' = [queue EXCEPT ![p] = Tail(queue[p])]
      /\ UNCHANGED <<pc, batch, next, resp>>
  BY Zenon DEF Take, callVars
<1>2. queue[p] \in Seq(Request) /\ DOMAIN queue' = DOMAIN queue
  BY <1>1, Zenon DEF VerifyInv, TypeOK
<1>3. /\ held'[w] = Head(queue[p]) /\ \A u \in Workers : u # w => held'[u] = held[u]
      /\ queue'[p] = Tail(queue[p]) /\ \A q \in DOMAIN queue : q # p => queue'[q] = queue[q]
  BY <1>1, Zenon DEF VerifyInv, TypeOK
<1>4. ASSUME NEW k \in DOMAIN queue[p]
      PROVE  queue[p][k] = held'[w] \/ \E j \in DOMAIN queue'[p] : queue'[p][j] = queue[p][k]
  <2>1. CASE k = 1
    BY <1>1, <1>2, <1>3, <2>1, SMTT(30)
  <2>2. CASE k # 1
    <3>1. k - 1 \in DOMAIN queue'[p] /\ queue'[p][k - 1] = queue[p][k]
      BY <1>1, <1>2, <1>3, <2>2, SMTT(30)
    <3> QED
      BY <3>1, Zenon
  <2> QED
    BY <2>1, <2>2, Zenon
<1>5. ASSUME NEW i \in DOMAIN batch[d], Outstanding(d, i) PROVE Outstanding(d, i)'
  <2> DEFINE r == [caller |-> d, id |-> i]
  <2>1. i \in 1 .. MaxItems
    BY BatchType, Zenon DEF VerifyInv, TypeOK
  <2>2. r # Nil
    BY <2>1, VerifyAssumption, SMTT(30) DEF Request
  <2>3. CASE \E q \in DOMAIN queue : \E k \in DOMAIN queue[q] : queue[q][k] = r
    <3>1. PICK q \in DOMAIN queue : \E k \in DOMAIN queue[q] : queue[q][k] = r
      BY <2>3, Zenon
    <3>2. CASE q = p
      BY <1>2, <1>4, <3>1, <3>2, Zenon DEF Outstanding
    <3>3. CASE q # p
      BY <1>2, <1>3, <3>1, <3>3, Zenon DEF Outstanding
    <3> QED
      BY <3>2, <3>3, Zenon
  <2>4. CASE \E u \in Workers : held[u] = r
    BY <1>1, <1>3, <2>2, <2>4, Zenon DEF Outstanding
  <2> QED
    BY <1>5, <2>3, <2>4, Zenon DEF Outstanding
<1> QED
  BY <1>1, <1>5, WakeKept, Zenon

\* A worker drops a request only when its response is closed.
LEMMA LookWake ==
    ASSUME VerifyInv, NEW w \in Workers, Look(w), \A d \in Callers : WakeInv(d), NEW d \in Callers
    PROVE  WakeInv(d)'
<1>1. /\ UNCHANGED <<pc, batch, next, resp, queue>>
      /\ UNCHANGED held \/ (resp[held[w].caller].closed /\ held' = [held EXCEPT ![w] = Nil])
  BY Zenon DEF Look, callVars
<1>2. ASSUME NEW i, Outstanding(d, i) PROVE Outstanding(d, i)' \/ resp[d].closed
  <2>1. CASE UNCHANGED held
    BY <1>1, <1>2, <2>1, SameOutstanding, Zenon
  <2>2. CASE resp[held[w].caller].closed /\ held' = [held EXCEPT ![w] = Nil]
    <3>1. CASE held[w] = [caller |-> d, id |-> i]
      BY <2>2, <3>1, SMTT(30)
    <3>2. CASE held[w] # [caller |-> d, id |-> i]
      BY <1>1, <1>2, <2>2, <3>2, Zenon DEF Outstanding, VerifyInv, TypeOK
    <3> QED
      BY <3>1, <3>2, Zenon
  <2> QED
    BY <1>1, <2>1, <2>2, Zenon
<1> QED
  BY <1>1, <1>2, WakeKept, Zenon

\* An answer takes the place of its request, and the last one closes.
LEMMA AnswerWake ==
    ASSUME VerifyInv, NEW w \in Workers, Answer(w), \A d \in Callers : WakeInv(d), NEW d \in Callers
    PROVE  WakeInv(d)'
<1>1. PICK r \in Request : r = held[w] /\ Sent(r)
  BY Zenon DEF VerifyInv, TypeOK, Answer
<1>2. /\ resp' = [resp EXCEPT ![r.caller] = Send(resp[r.caller], r.id, Verdict(r))]
      /\ held' = [held EXCEPT ![w] = Nil] /\ UNCHANGED <<pc, batch, next, queue>>
  BY <1>1, Zenon DEF Answer, callVars
<1>3. r = [caller |-> r.caller, id |-> r.id] /\ r.caller \in Callers
  BY Zenon DEF Request
<1>4. ASSUME NEW i, Outstanding(d, i), ~(d = r.caller /\ i = r.id) PROVE Outstanding(d, i)'
  <2>1. held[w] # [caller |-> d, id |-> i]
    BY <1>1, <1>4, SMTT(30)
  <2> QED
    BY <1>2, <1>4, <2>1, Zenon DEF Outstanding, VerifyInv, TypeOK
<1>5. CASE d # r.caller
  <2>1. resp'[d] = resp[d]
    BY <1>2, <1>5, Zenon DEF VerifyInv, TypeOK
  <2> QED
    BY <1>2, <1>4, <1>5, <2>1, WakeKept, Zenon
<1>6. CASE d = r.caller
  <2> DEFINE t == [resp[d] EXCEPT !.nonErrors = @ \cup {r.id}]
  <2>1. resp'[d] = Send(resp[d], r.id, Verdict(r)) /\ resp[d] \in Resp
    BY <1>2, <1>6, Zenon DEF VerifyInv, TypeOK, Resp, Errors
  <2>2. SUFFICES ASSUME ~resp'[d].closed PROVE WakeInv(d)'
    BY Zenon DEF WakeInv
  <2>3. ~resp[d].closed /\ resp'[d] = CloseIfAll(t)
    <3>1. ~resp[d].closed
      BY <2>1, <2>2, Zenon DEF Send
    <3>2. Verdict(r) = "nil"
      <4>1. SUFFICES ASSUME Verdict(r) # "nil" PROVE Close(resp[d], Verdict(r)).closed
        BY <2>1, <2>2, <3>1, Zenon DEF Send
      <4> QED
        BY <2>1, Zenon DEF Close, Resp
    <3> QED
      BY <2>1, <3>1, <3>2, Zenon DEF Send
  <2>4. t \in Counting /\ t.nonErrors = resp[d].nonErrors \cup {r.id}
    BY <2>1, SMTT(30) DEF Resp, Counting, Request
  <2> HIDE DEF t
  <2>5. /\ resp'[d].nonErrors = resp[d].nonErrors \cup {r.id}
        /\ resp'[d].numAll # Cardinality(resp'[d].nonErrors)
    BY <2>2, <2>3, <2>4, OpenLacks, ZenonT(30)
  <2>6. ASSUME NEW i \in DOMAIN batch[d], i < next[d]
        PROVE  batch[d][i] = "cached" \/ i \in resp'[d].nonErrors \/ Outstanding(d, i)'
    <3>1. batch[d][i] = "cached" \/ i \in resp[d].nonErrors \/ Outstanding(d, i)
      BY <2>3, <2>6, Zenon DEF WakeInv
    <3> QED
      BY <1>4, <2>5, <3>1, Zenon
  <2>7. pc[d] = "wait" => next[d] = Len(batch[d]) + 1
    BY <2>3, Zenon DEF WakeInv
  <2> QED
    BY <1>2, <2>5, <2>6, <2>7, Zenon DEF WakeInv
<1> QED
  BY <1>5, <1>6, Zenon

\* No caller waits on an open response that no request refers to.
THEOREM WakeupTheorem == Spec => []NoLostWakeup
<1> DEFINE Wake == \A d \in Callers : WakeInv(d)
<1>1. Init => Wake
  <2> SUFFICES ASSUME Init, NEW d \in Callers PROVE WakeInv(d)
    BY Zenon
  <2>1. batch[d] = <<>> /\ pc[d] = "idle"
    BY Zenon DEF Init
  <2> QED
    BY <2>1, SMTT(30) DEF WakeInv
<1>2. VerifyInv /\ Wake /\ [Next]_vars => Wake'
  <2> SUFFICES ASSUME VerifyInv, Wake, [Next]_vars, NEW d \in Callers PROVE WakeInv(d)'
    BY Zenon
  <2>1. ASSUME NEW c \in Callers,
               GiveUp(c) \/ Registered(c) \/ Enqueued(c) \/ Turn(c) \/ Push(c) \/ \E b \in Batches : Begin(c, b)
        PROVE  WakeInv(d)'
    BY <2>1, ReturnWake, TurnWake, PushWake, BeginWake, Zenon
  <2>2. ASSUME NEW w \in Workers, VerifyParallel(w) PROVE WakeInv(d)'
    BY <2>2, TakeWake, LookWake, AnswerWake, Zenon DEF VerifyParallel
  <2>3. ASSUME UNCHANGED <<pc, batch, next, resp, queue, held>> PROVE WakeInv(d)'
    BY <2>3, WakeKept, SameOutstanding, Zenon
  <2>4. ASSUME NEW c \in Callers, Cancel(c) PROVE WakeInv(d)'
    BY <2>3, <2>4, Zenon DEF Cancel, workVars
  <2>5. CASE UNCHANGED vars
    BY <2>3, <2>5, Zenon DEF vars, callVars, workVars
  <2>6. Registers \subseteq Callers /\ Submits \subseteq Callers
    BY Zenon DEF Callers
  <2> QED
    BY <2>1, <2>2, <2>4, <2>5, <2>6, SingleBatch, Zenon DEF Next, RegisterValidator, Enqueue
<1>3. VerifyInv /\ Wake => NoLostWakeup
  <2> SUFFICES ASSUME VerifyInv, NEW c \in Callers, WakeInv(c),
                      pc[c] = "wait", ~resp[c].closed, batch[c] # <<>>, ~Referred(c)
               PROVE  FALSE
    BY Zenon DEF NoLostWakeup
  <2>1. \A i \in DOMAIN batch[c] : ~Outstanding(c, i)
    <3> SUFFICES ASSUME NEW i \in DOMAIN batch[c], Outstanding(c, i) PROVE FALSE
      BY Zenon
    <3> DEFINE r == [caller |-> c, id |-> i]
    <3>1. r.caller = c
      BY Zenon
    <3> HIDE DEF r
    <3>2. \/ \E q \in DOMAIN queue : \E k \in DOMAIN queue[q] : queue[q][k] = r
          \/ \E w \in Workers : held[w] = r
      BY Zenon DEF Outstanding, r
    <3>3. r # Nil
      <4>1. i \in 1 .. MaxItems
        BY BatchType, Zenon DEF VerifyInv, TypeOK
      <4> QED
        BY <4>1, VerifyAssumption, SMTT(30) DEF Request, r
    <3> QED
      BY <3>1, <3>3, <3>2, Zenon DEF Referred
  <2>2. next[c] = Len(batch[c]) + 1 /\ resp[c].numAll # Cardinality(resp[c].nonErrors)
    BY Zenon DEF WakeInv
  <2>3. batch[c] \in Batches /\ Len(batch[c]) \in Nat /\ DOMAIN batch[c] = 1 .. Len(batch[c])
    BY BatchType, Zenon DEF VerifyInv, TypeOK
  <2>4. \A i \in DOMAIN batch[c] : i < next[c]
    BY <2>2, <2>3, SMTT(30)
  <2>5. \A i \in DOMAIN batch[c] : batch[c][i] = "cached" \/ i \in resp[c].nonErrors
    BY <2>1, <2>4, Zenon DEF WakeInv
  <2>6. /\ resp[c].nonErrors = DOMAIN batch[c] \ Skipped(c) /\ Skipped(c) \in SUBSET DOMAIN batch[c]
        /\ resp[c].numAll = Len(batch[c]) - Cardinality(Skipped(c))
    BY <2>4, <2>5, Zenon DEF VerifyInv, RespInv, Skipped
  <2>7. Cardinality(resp[c].nonErrors) = Cardinality(DOMAIN batch[c]) - Cardinality(Skipped(c))
    <3>1. IsFiniteSet(DOMAIN batch[c]) /\ DOMAIN batch[c] \cap Skipped(c) = Skipped(c)
      BY <2>3, <2>6, IndexSets, Zenon
    <3> QED
      BY <2>6, <3>1, FS_Difference, Zenon
  <2> QED
    BY <2>2, <2>3, <2>6, <2>7, IndexSets, Zenon
<1>4. Init => VerifyInv /\ Wake
  BY <1>1, Init_VerifyInv, Zenon
<1>5. VerifyInv /\ Wake /\ [Next]_vars => (VerifyInv /\ Wake)'
  BY <1>2, Next_VerifyInv, Zenon
<1> QED
  BY <1>3, <1>4, <1>5, PTL DEF Spec
==============================================================================
