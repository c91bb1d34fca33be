------------------------- MODULE StoreManagerProofs --------------------------
(***************************************************************************)
(* Theorems about the store manager, for any number of senders, workers,   *)
(* validators and timestamps: the channel is never sent to once closed,    *)
(* the datastore never goes back to an older registration, also over a     *)
(* restart, and, unless a second write fails or the process ends, the      *)
(* cache never runs ahead of the datastore and Close returns with          *)
(* everything stored.  Whatever fails, no batch and no mutex is left to a  *)
(* worker that is gone.                                                    *)
(***************************************************************************)
EXTENDS StoreManager, TLAPS

\* A sender holds its read lock while it is blocked, and Close takes the write
\* lock before it closes the channel.
LEMMA NoSendStep == NoSendOnClosed /\ [Process]_vars => NoSendOnClosed'
<1> SUFFICES ASSUME NoSendOnClosed, [Process]_vars
             PROVE  NoSendOnClosed'
  OBVIOUS
<1> USE DEF NoSendOnClosed, sendVars
<1>1. ASSUME NEW s \in Senders, NEW b \in Batch, Enter(s, b)
      PROVE  NoSendOnClosed'
  BY <1>1 DEF Enter
<1>2. ASSUME NEW s \in Senders, Push(s)
      PROVE  NoSendOnClosed'
  BY <1>2 DEF Push
<1>3. CASE CloseManager
  BY <1>3 DEF CloseManager, CloseLock, CloseChannel, CloseReturn
<1>4. ASSUME NEW w \in Workers, ParallelStore(w)
      PROVE  NoSendOnClosed'
  BY <1>4 DEF ParallelStore, Take, Exit, Put, PutData, PutFails, AddToCache
<1>5. ASSUME NEW v \in Validators, Evict(v)
      PROVE  NoSendOnClosed'
  BY <1>5 DEF Evict
<1>6. ASSUME NEW c \in Checkers, CheckRegistration(c)
      PROVE  NoSendOnClosed'
  BY <1>6 DEF CheckRegistration, Fetch, Refill
<1>7. CASE UNCHANGED vars
  BY <1>7 DEF vars
<1> QED
  BY <1>1, <1>2, <1>3, <1>4, <1>5, <1>6, <1>7 DEF Process

\* No sender is blocked on the channel when Close closes it.
THEOREM NoSendTheorem == Spec => []NoSendOnClosed
<1>1. Init => NoSendOnClosed
  BY DEF Init, NoSendOnClosed
<1>2. NoSendOnClosed /\ [Next]_vars => NoSendOnClosed'
  BY NoSendStep DEF Next, Crash, NoSendOnClosed
<1> QED
  BY <1>1, <1>2, PTL DEF Spec

-----------------------------------------------------------------------------
\* A batch is a sequence of registrations with a first one.
LEMMA BatchType == \A b \in Batch : b \in Seq(Registration) /\ b # <<>>
  BY StoreManagerAssumption DEF Batch

\* The first registration of a batch, and what is left after it.
LEMMA HeadTail ==
    ASSUME NEW s \in Seq(Registration), s # <<>>
    PROVE  /\ Head(s) \in Registration /\ Tail(s) \in Seq(Registration)
           /\ Head(s).key \in Validators /\ Head(s).time \in Nat
           /\ Head(s) # None /\ Head(s).time # None
<1>1. Head(s) \in Registration /\ Tail(s) \in Seq(Registration)
  OBVIOUS
<1>2. Head(s).key \in Validators /\ Head(s).time \in Times
  BY <1>1 DEF Registration
<1> QED
  BY <1>1, <1>2, StoreManagerAssumption, Zenon

\* A stored registration and its time can be compared.
LEMMA StoredTypes ==
    ASSUME StoreInv, NEW v \in Validators
    PROVE  /\ regTime[v] # None => regTime[v] \in Nat
           /\ reg[v] # None => /\ reg[v] \in Registration /\ reg[v].time \in Nat
                              /\ regTime[v] \in Nat
<1>1. regTime[v] # None => regTime[v] \in Nat
  BY StoreManagerAssumption, Zenon DEF StoreInv
<1>2. reg[v] # None => reg[v] \in Registration /\ regTime[v] # None
  BY DEF StoreInv
<1>3. \A r \in Registration : r.time \in Nat
  BY StoreManagerAssumption, Zenon DEF Registration
<1> QED
  BY <1>1, <1>2, <1>3

\* In the initial states the datastore is empty and nobody is at work.
LEMMA Init_StoreInv == Init => StoreInv
<1> SUFFICES ASSUME Init PROVE StoreInv
  OBVIOUS
<1>1. storeCh \in Seq(Batch) /\ work \in [Workers -> Seq(Registration)]
  BY DEF Init
<1>2. step \in [Workers -> {"take", "put", "data", "cache"}]
  BY DEF Init
<1>3. /\ regTime \in [Validators -> Times \cup {None}]
      /\ reg \in [Validators -> Registration \cup {None}]
  BY DEF Init
<1>4. /\ pc \in [Senders -> {"idle", "sending"}]
      /\ request \in [Senders -> Batch \cup {None}]
  BY DEF Init
<1> QED
  BY <1>1, <1>2, <1>3, <1>4 DEF Init, StoreInv

\* The steps of senders, of Close and of the cache.
OutsideStep ==
    \/ \E s \in Senders : Push(s) \/ \E b \in Batch : Enter(s, b)
    \/ CloseManager
    \/ \E v \in Validators : Evict(v)
    \/ \E c \in Checkers : CheckRegistration(c)
    \/ UNCHANGED vars

\* They leave the workers and the datastore alone.
LEMMA OutsideUnchanged == OutsideStep => UNCHANGED <<work, step, lock, regTime, reg>>
  BY DEF OutsideStep, Push, Enter, CloseManager, CloseLock, CloseChannel, CloseReturn,
         Evict, CheckRegistration, Fetch, Refill, vars, sendVars, workVars, dbVars

\* They keep what is in the channel and in the senders' hands a batch.
LEMMA OutsideStoreInv == StoreInv /\ OutsideStep => StoreInv'
<1> SUFFICES ASSUME StoreInv, OutsideStep PROVE StoreInv'
  OBVIOUS
<1>1. UNCHANGED <<work, step, lock, regTime, reg>>
  BY OutsideUnchanged, Zenon
<1>2. /\ storeCh' \in Seq(Batch)
      /\ pc' \in [Senders -> {"idle", "sending"}]
      /\ request' \in [Senders -> Batch \cup {None}]
      /\ \A s \in Senders : pc'[s] = "sending" => request'[s] \in Batch
  <2> USE DEF StoreInv, sendVars
  <2>1. ASSUME NEW s \in Senders, Push(s) PROVE <1>2!:
    <3>1. request[s] \in Batch /\ storeCh \in Seq(Batch)
      BY <2>1 DEF Push
    <3>2. storeCh' \in Seq(Batch)
      BY <2>1, <3>1 DEF Push
    <3>3. ASSUME NEW t \in Senders, pc'[t] = "sending" PROVE request'[t] \in Batch
      BY <2>1, <3>3 DEF Push
    <3>4. /\ pc' \in [Senders -> {"idle", "sending"}]
          /\ request' \in [Senders -> Batch \cup {None}]
      BY <2>1 DEF Push
    <3> QED
      BY <3>2, <3>3, <3>4
  <2>2. ASSUME NEW s \in Senders, NEW b \in Batch, Enter(s, b) PROVE <1>2!:
    BY <2>2, Zenon DEF Enter
  <2>3. CASE CloseManager
    BY <2>3 DEF CloseManager, CloseLock, CloseChannel, CloseReturn
  <2>4. CASE (\E v \in Validators : Evict(v)) \/ UNCHANGED vars
    BY <2>4 DEF Evict, vars
  <2>5. CASE \E c \in Checkers : CheckRegistration(c)
    BY <2>5 DEF CheckRegistration, Fetch, Refill
  <2> QED
    BY <2>1, <2>2, <2>3, <2>4, <2>5 DEF OutsideStep
<1> QED
  BY <1>1, <1>2 DEF StoreInv

-----------------------------------------------------------------------------
\* A worker's next batch comes from the channel.
LEMMA TakeStoreInv == ASSUME StoreInv, NEW w \in Workers, Take(w) PROVE StoreInv'
<1>1. Head(storeCh) \in Batch /\ Tail(storeCh) \in Seq(Batch)
  BY DEF Take, StoreInv
<1>2. Head(storeCh) \in Seq(Registration) /\ Head(storeCh) # <<>>
  BY <1>1, BatchType
<1>3. /\ UNCHANGED <<pc, request, lock, regTime, reg>>
      /\ storeCh' = Tail(storeCh)
      /\ work' = [work EXCEPT ![w] = Head(storeCh)]
      /\ step' = [step EXCEPT ![w] = "put"]
  BY DEF Take, sendVars, dbVars
<1>4. /\ work' \in [Workers -> Seq(Registration)]
      /\ step' \in [Workers -> {"take", "put", "data", "cache"}]
  BY <1>2, <1>3 DEF StoreInv
<1>5. \A u \in Workers : step'[u] # "take" => work'[u] # <<>>
  BY <1>2, <1>3 DEF StoreInv
<1>6. \A u \in Workers : step'[u] = "data" =>
        lock' = u /\ regTime'[Head(work'[u]).key] = Head(work'[u]).time
  BY <1>3 DEF StoreInv
<1> QED
  BY <1>1, <1>3, <1>4, <1>5, <1>6 DEF StoreInv

\* The time key is written with the mutex taken, if no newer one is there.
LEMMA PutStoreInv == ASSUME StoreInv, NEW w \in Workers, Put(w) PROVE StoreInv'
<1> DEFINE r == Head(work[w])
<1>1. /\ r \in Registration /\ r.key \in Validators
      /\ r.time \in Times /\ r.time \in Nat /\ r.time # None
  BY HeadTail, Zenon DEF Put, StoreInv, Registration
<1>2. UNCHANGED <<pc, request, storeCh, work, reg>>
  BY DEF Put, sendVars
<1>3. \A u \in Workers : step[u] # "data"
  BY StoreManagerAssumption DEF Put, StoreInv
<1>4. CASE regTime[r.key] # None /\ r.time < regTime[r.key]
  <2>1. step' = [step EXCEPT ![w] = "cache"] /\ UNCHANGED <<lock, regTime>>
    BY <1>4 DEF Put
  <2> QED
    BY <1>2, <1>3, <2>1 DEF StoreInv, Put
<1>5. CASE ~(regTime[r.key] # None /\ r.time < regTime[r.key])
  <2>1. /\ step' = [step EXCEPT ![w] = "data"]
        /\ regTime' = [regTime EXCEPT ![r.key] = r.time]
        /\ lock' = w
    BY <1>5 DEF Put
  <2>2. /\ step' \in [Workers -> {"take", "put", "data", "cache"}]
        /\ regTime' \in [Validators -> Times \cup {None}]
    BY <1>1, <2>1 DEF StoreInv
  <2>3. \A u \in Workers : step'[u] = "data" =>
          lock' = u /\ regTime'[Head(work'[u]).key] = Head(work'[u]).time
    BY <1>1, <1>2, <1>3, <2>1 DEF StoreInv
  <2>4. ASSUME NEW v \in Validators, reg'[v] # None
        PROVE  reg'[v].key = v /\ regTime'[v] # None /\ reg'[v].time <= regTime'[v]
    <3>1. reg[v].time \in Nat /\ regTime[v] \in Nat /\ reg[v].time <= regTime[v] /\ reg[v].key = v
      BY <1>2, <2>4, StoredTypes DEF StoreInv
    <3>2. regTime[v] # None
      BY <1>2, <2>4 DEF StoreInv
    <3>3. v = r.key => regTime[v] <= r.time
      BY <1>1, <1>5, <3>1, <3>2
    <3> QED
      BY <1>1, <1>2, <2>1, <3>1, <3>3, <2>4 DEF StoreInv
  <2>5. \A u \in Workers : step'[u] # "take" => work'[u] # <<>>
    BY <1>2, <2>1, Zenon DEF StoreInv, Put
  <2> QED
    BY <1>2, <2>2, <2>3, <2>4, <2>5 DEF StoreInv
<1> QED
  BY <1>4, <1>5

\* The registration key is written with the time that was written before it.
LEMMA PutDataStep ==
    ASSUME StoreInv, NEW w \in Workers, PutData(w)
    PROVE  /\ StoreInv'
           /\ \A v \in Validators : reg[v] # None =>
                 reg'[v] # None /\ reg[v].time <= reg'[v].time
<1> DEFINE r == Head(work[w])
<1>1. r \in Registration /\ r.key \in Validators /\ r.time \in Nat /\ r.time # None
  BY HeadTail DEF PutData, StoreInv
<1>2. /\ UNCHANGED <<pc, request, storeCh, work, regTime>>
      /\ reg' = [reg EXCEPT ![r.key] = r]
      /\ step' = [step EXCEPT ![w] = "cache"]
  BY DEF PutData, sendVars
<1>3. regTime[r.key] = r.time /\ r # None
  BY <1>1, StoreManagerAssumption DEF StoreInv, PutData
<1>4. \A u \in Workers : step'[u] # "data"
  BY <1>2 DEF StoreInv, PutData
<1>5. ASSUME NEW v \in Validators, reg[v] # None
      PROVE  reg'[v] # None /\ reg[v].time <= reg'[v].time
  <2>1. reg[v].time \in Nat /\ reg[v].time <= regTime[v]
    BY <1>5, StoredTypes DEF StoreInv
  <2> QED
    BY <1>1, <1>2, <1>3, <1>5, <2>1 DEF StoreInv
<1>6. reg' \in [Validators -> Registration \cup {None}]
  BY <1>1, <1>2 DEF StoreInv
<1>7. \A v \in Validators : reg'[v] # None =>
        reg'[v].key = v /\ regTime'[v] # None /\ reg'[v].time <= regTime'[v]
  BY <1>1, <1>2, <1>3 DEF StoreInv
<1>8. /\ step' \in [Workers -> {"take", "put", "data", "cache"}]
      /\ \A u \in Workers : step'[u] # "take" => work'[u] # <<>>
  BY <1>2, Zenon DEF StoreInv, PutData
<1> QED
  BY <1>2, <1>4, <1>5, <1>6, <1>7, <1>8 DEF StoreInv

\* A worker that goes on to the rest of its batch writes nothing.
LEMMA AdvanceStoreInv ==
    ASSUME StoreInv, NEW w \in Workers, NEW rest \in Seq(Registration), Advance(w, rest),
           UNCHANGED <<pc, request, storeCh, regTime, reg>>,
           lock' = lock \/ \A u \in Workers : u # w => step[u] # "data"
    PROVE  StoreInv'
<1>1. /\ work' = [work EXCEPT ![w] = rest]
      /\ step' = [step EXCEPT ![w] = IF rest = <<>> THEN "take" ELSE "put"]
  BY DEF Advance
<1>2. /\ work' \in [Workers -> Seq(Registration)]
      /\ step' \in [Workers -> {"take", "put", "data", "cache"}]
      /\ \A u \in Workers : step'[u] # "take" => work'[u] # <<>>
  BY <1>1 DEF StoreInv
<1>3. ASSUME NEW u \in Workers, step'[u] = "data"
      PROVE  lock' = u /\ regTime'[Head(work'[u]).key] = Head(work'[u]).time
  BY <1>1, <1>3 DEF StoreInv
<1> QED
  BY <1>2, <1>3 DEF StoreInv

\* After a failed write, and after the cache, the worker goes on.
LEMMA PutFailsStoreInv ==
    ASSUME StoreInv, NEW w \in Workers, PutFails(w)
    PROVE  StoreInv'
<1>1. \A u \in Workers : u # w => step[u] # "data"
  BY StoreManagerAssumption DEF PutFails, StoreInv
<1>2. Advance(w, <<>>) /\ UNCHANGED <<pc, request, storeCh, regTime, reg>>
  BY DEF PutFails, sendVars
<1>3. <<>> \in Seq(Registration)
  OBVIOUS
<1> QED
  BY <1>1, <1>2, <1>3, AdvanceStoreInv, Zenon

\* The cache is not part of the datastore: its step only moves the worker on.
LEMMA AddToCacheStoreInv ==
    ASSUME StoreInv, NEW w \in Workers, AddToCache(w)
    PROVE  StoreInv'
<1>1. Tail(work[w]) \in Seq(Registration)
  BY HeadTail DEF AddToCache, StoreInv
<1>2. Advance(w, Tail(work[w])) /\ UNCHANGED <<pc, request, storeCh, regTime, reg, lock>>
  BY DEF AddToCache, sendVars, dbVars
<1> QED
  <2>1. ASSUME NEW rest \in Seq(Registration), rest = Tail(work[w]) PROVE StoreInv'
    BY <1>2, <2>1, AdvanceStoreInv, Zenon
  <2> QED
    BY <1>1, <2>1, Zenon

\* Every step keeps the invariant of the datastore.
LEMMA Process_StoreInv == StoreInv /\ [Process]_vars => StoreInv'
<1> SUFFICES ASSUME StoreInv, [Process]_vars PROVE StoreInv'
  OBVIOUS
<1>1. CASE OutsideStep
  BY <1>1, OutsideStoreInv
<1>2. ASSUME NEW w \in Workers, ParallelStore(w) PROVE StoreInv'
  <2>1. CASE Exit(w)
    BY <2>1, Zenon DEF Exit, StoreInv, sendVars, dbVars
  <2> QED
    BY <1>2, <2>1, TakeStoreInv, PutStoreInv, PutDataStep, PutFailsStoreInv,
       AddToCacheStoreInv, Zenon DEF ParallelStore
<1> QED
  BY <1>1, <1>2 DEF Process, OutsideStep

\* A restart keeps it: nobody is at work, and between the two writes of a
\* registration the time is ahead of what is stored, never behind.
LEMMA Crash_StoreInv == StoreInv /\ Crash => StoreInv'
<1> SUFFICES ASSUME StoreInv, Crash PROVE StoreInv'
  OBVIOUS
<1>1. storeCh' \in Seq(Batch) /\ work' \in [Workers -> Seq(Registration)]
  BY DEF Crash
<1>2. step' \in [Workers -> {"take", "put", "data", "cache"}] /\ UNCHANGED <<regTime, reg>>
  BY DEF Crash
<1>3. /\ pc' \in [Senders -> {"idle", "sending"}]
      /\ request' \in [Senders -> Batch \cup {None}]
  BY DEF Crash
<1> QED
  BY <1>1, <1>2, <1>3 DEF Crash, StoreInv

\* Every step, a crash included, keeps the order of the two writes.
LEMMA Next_StoreInv == StoreInv /\ [Next]_vars => StoreInv'
  BY Process_StoreInv, Crash_StoreInv DEF Next

\* A stored registration is never replaced by an older one of the same
\* validator, whatever order the workers write in, wherever a write fails and
\* wherever the process ends.
THEOREM NewerTheorem == Spec => NewerKept
<1>1. StoreInv /\ [Next]_vars
      => [\A v \in Validators :
            reg[v] # None => reg'[v] # None /\ reg[v].time <= reg'[v].time]_vars
  <2> SUFFICES ASSUME StoreInv, Next
               PROVE  \A v \in Validators :
                        reg[v] # None => reg'[v] # None /\ reg[v].time <= reg'[v].time
    OBVIOUS
  <2>1. ASSUME UNCHANGED reg
        PROVE  \A v \in Validators :
                 reg[v] # None => reg'[v] # None /\ reg[v].time <= reg'[v].time
    BY <2>1, StoredTypes
  <2>2. CASE OutsideStep
    BY <2>1, <2>2, OutsideUnchanged, Zenon
  <2>3. ASSUME NEW w \in Workers, Take(w) \/ Exit(w) \/ Put(w) \/ PutFails(w) \/ AddToCache(w)
        PROVE  UNCHANGED reg
    BY <2>3 DEF Take, Exit, Put, PutFails, AddToCache, dbVars
  <2>4. CASE Crash
    BY <2>1, <2>4, Zenon DEF Crash
  <2> QED
    BY <2>1, <2>2, <2>3, <2>4, PutDataStep DEF Next, Process, OutsideStep, ParallelStore
<1> QED
  BY <1>1, Init_StoreInv, Next_StoreInv, PTL DEF Spec, NewerKept

-----------------------------------------------------------------------------
\* Steps that change neither the datastore nor who is writing to it keep the
\* cache behind it, if they cache nothing.
LEMMA CacheStutter ==
    ASSUME CacheInv, UNCHANGED <<regTime, reg, fetched>>,
           \A v \in Validators : cache'[v] \in {cache[v], None},
           cache' \in [Validators -> Registration \cup {None}],
           \A u \in Workers : (step[u] = "data" \/ step'[u] \in {"data", "cache"}) =>
              step'[u] = step[u] /\ work'[u] = work[u]
    PROVE  CacheInv'
<1>1. \A v \in Validators : regTime'[v] # None =>
        \/ reg'[v] # None /\ reg'[v].time = regTime'[v]
        \/ \E u \in Workers : step'[u] = "data" /\ Head(work'[u]).key = v
  BY SMTT(30) DEF CacheInv
<1>2. \A u \in Workers : step'[u] = "cache" => Held(Head(work[u]))' /\ work'[u] = work[u]
  BY Zenon DEF CacheInv, Held
<1>3. \A v \in Validators : cache'[v] # None => cache'[v].key = v
  BY Zenon DEF CacheInv
<1>4. CachedIsStored'
  BY DEF CacheInv, CachedIsStored, Held
<1>5. \A u \in Workers : step'[u] = "cache" => Held(Head(work[u]))'
  BY <1>2
<1>6. \A c \in Checkers : fetched'[c] # None => Held(fetched[c])'
  BY DEF CacheInv, Held
<1> QED
  BY <1>1, <1>3, <1>4, <1>5, <1>6, Zenon DEF CacheInv, Held

\* While the mutex is free nobody is between the two writes.
LEMMA NoWriter ==
    ASSUME StoreInv, lock = None
    PROVE  \A u \in Workers : step[u] # "data"
  BY StoreManagerAssumption DEF StoreInv

\* Put finds the two keys in step, so a newer time is that of a newer
\* registration.
LEMMA PutCacheInv ==
    ASSUME StoreInv, CacheInv, NEW w \in Workers, Put(w)
    PROVE  CacheInv'
<1> DEFINE r == Head(work[w])
<1>1. r \in Registration /\ r.key \in Validators /\ r.time \in Nat /\ r.time # None
  BY HeadTail DEF Put, StoreInv
<1>2. UNCHANGED <<work, reg, cache, fetched>>
  BY Zenon DEF Put
<1>3. \A v \in Validators : regTime[v] # None => reg[v] # None /\ reg[v].time = regTime[v]
  BY NoWriter, Zenon DEF Put, CacheInv
<1>4. CASE regTime[r.key] # None /\ r.time < regTime[r.key]
  <2>1. step' = [step EXCEPT ![w] = "cache"] /\ UNCHANGED regTime
    BY <1>4 DEF Put
  <2>2. Held(r)
    BY <1>1, <1>3, <1>4, StoredTypes DEF Held
  <2>3. \A u \in Workers : step'[u] = "cache" => Held(Head(work[u]))
    BY <2>1, <2>2 DEF CacheInv, StoreInv
  <2>4. CachedIsStored'
    BY <1>2, Zenon DEF CacheInv, CachedIsStored, Held
  <2> QED
    BY <1>2, <1>3, <2>1, <2>3, <2>4, Zenon DEF CacheInv, Held
<1>5. CASE ~(regTime[r.key] # None /\ r.time < regTime[r.key])
  <2>1. step' = [step EXCEPT ![w] = "data"] /\ regTime' = [regTime EXCEPT ![r.key] = r.time]
    BY <1>5, Zenon DEF Put
  <2>2. \A v \in Validators : regTime'[v] # None =>
          \/ reg'[v] # None /\ reg'[v].time = regTime'[v]
          \/ \E u \in Workers : step'[u] = "data" /\ Head(work'[u]).key = v
    BY <1>1, <1>2, <1>3, <2>1, Zenon DEF StoreInv
  <2>3. \A u \in Workers : step'[u] = "cache" => Held(Head(work[u]))
    BY <2>1, SMTT(30) DEF CacheInv, StoreInv
  <2>4. CachedIsStored'
    BY <1>2 DEF CacheInv, CachedIsStored, Held
  <2> QED
    BY <1>2, <2>2, <2>3, <2>4 DEF CacheInv, Held
<1> QED
  BY <1>4, <1>5, Zenon

\* After PutData the keys are in step again and the registration is held; what
\* was held stays so.
LEMMA PutDataCacheInv ==
    ASSUME StoreInv, CacheInv, NEW w \in Workers, PutData(w)
    PROVE  CacheInv'
<1> DEFINE r == Head(work[w])
<1>1. r \in Registration /\ r.key \in Validators /\ r.time \in Nat /\ r # None
  BY HeadTail DEF PutData, StoreInv
<1>2. /\ UNCHANGED <<work, regTime, cache, fetched>>
      /\ reg' = [reg EXCEPT ![r.key] = r]
      /\ step' = [step EXCEPT ![w] = "cache"]
  BY DEF PutData
<1>3. regTime[r.key] = r.time /\ lock = w
  BY DEF StoreInv, PutData
<1>4. \A u \in Workers : step[u] = "data" => u = w
  BY <1>3 DEF StoreInv
<1>5. ASSUME NEW v \in Validators, regTime'[v] # None
      PROVE  reg'[v] # None /\ reg'[v].time = regTime'[v]
  BY <1>1, <1>2, <1>3, <1>4, <1>5 DEF CacheInv, StoreInv
<1>6. ASSUME NEW x \in Registration, Held(x)
      PROVE  reg'[x.key] # None /\ x.time <= reg'[x.key].time
  <2>1. x.key \in Validators /\ x.time \in Nat
    BY StoreManagerAssumption, Zenon DEF Registration
  <2>2. reg[x.key].time \in Nat /\ reg[x.key] # None /\ x.time <= reg[x.key].time
    BY <1>6, <2>1, StoredTypes DEF Held
  <2>3. reg'[x.key] # None /\ reg[x.key].time <= reg'[x.key].time
    BY <2>1, <2>2, PutDataStep, Zenon
  <2>4. reg'[x.key].time \in Nat
    BY <1>1, <1>2, <2>1, <2>2 DEF StoreInv
  <2> QED
    BY <2>1, <2>2, <2>3, <2>4
<1>7. ASSUME NEW u \in Workers, step'[u] = "cache"
      PROVE  LET x == Head(work[u]) IN reg'[x.key] # None /\ x.time <= reg'[x.key].time
  <2>1. CASE u = w
    BY <1>1, <1>2, <2>1 DEF StoreInv
  <2>2. CASE u # w
    <3>1. step[u] = "cache"
      BY <1>2, <1>7, <2>2 DEF StoreInv
    <3>2. Head(work[u]) \in Registration
      BY <3>1, HeadTail DEF StoreInv
    <3>3. Held(Head(work[u]))
      BY <3>1 DEF CacheInv
    <3> QED
      BY <1>6, <3>2, <3>3
  <2> QED
    BY <2>1, <2>2
<1>8. ASSUME NEW v \in Validators, cache[v] # None
      PROVE  reg'[cache[v].key] # None /\ cache[v].time <= reg'[cache[v].key].time
  <2>1. cache[v] \in Registration /\ Held(cache[v])
    BY <1>8 DEF CacheInv, CachedIsStored
  <2> QED
    BY <1>6, <2>1
<1>9. ASSUME NEW c \in Checkers, fetched[c] # None
      PROVE  reg'[fetched[c].key] # None /\ fetched[c].time <= reg'[fetched[c].key].time
  <2>1. fetched[c] \in Registration /\ Held(fetched[c])
    BY <1>9, SMTT(30) DEF CacheInv
  <2> QED
    BY <1>6, <2>1
<1> QED
  BY <1>2, <1>5, <1>7, <1>8, <1>9, Zenon DEF CacheInv, CachedIsStored, Held

\* The registration that is cached is held.
LEMMA AddToCacheCacheInv ==
    ASSUME StoreInv, CacheInv, NEW w \in Workers, AddToCache(w)
    PROVE  CacheInv'
<1> DEFINE r == Head(work[w])
<1>1. r \in Registration /\ r.key \in Validators /\ Held(r)
  BY HeadTail, Zenon DEF AddToCache, StoreInv, CacheInv
<1>2. /\ UNCHANGED <<regTime, reg, fetched>>
      /\ cache' = [cache EXCEPT ![r.key] = r]
      /\ \A u \in Workers : u # w => step'[u] = step[u] /\ work'[u] = work[u]
      /\ step'[w] \in {"take", "put"}
  BY Zenon DEF AddToCache, Advance, dbVars, StoreInv
<1>3. \A v \in Validators : regTime'[v] # None =>
        \/ reg'[v] # None /\ reg'[v].time = regTime'[v]
        \/ \E u \in Workers : step'[u] = "data" /\ Head(work'[u]).key = v
  BY <1>2 DEF CacheInv, AddToCache
<1>4. ASSUME NEW u \in Workers, step'[u] = "cache" PROVE Held(Head(work[u])) /\ u # w
  BY <1>2, <1>4 DEF CacheInv
<1> HIDE DEF r
<1>5. /\ cache' \in [Validators -> Registration \cup {None}]
      /\ \A v \in Validators : cache'[v] = IF v = r.key THEN r ELSE cache[v]
  BY <1>1, <1>2, Zenon DEF CacheInv
<1>6. \A v \in Validators : cache'[v] # None => cache'[v].key = v /\ Held(cache'[v])
  BY <1>1, <1>5, Zenon DEF CacheInv, CachedIsStored
<1>7. (\A u \in Workers : step[u] = "cache" => Held(Head(work[u])))'
  BY <1>2, <1>4, Zenon DEF Held
<1>8. (\A c \in Checkers : fetched[c] # None => Held(fetched[c]))'
  BY <1>2 DEF CacheInv, Held
<1>9. CachedIsStored'
  BY <1>2, <1>6, Zenon DEF CachedIsStored, Held
<1> QED
  BY <1>2, <1>3, <1>5, <1>6, <1>7, <1>8, <1>9, Zenon DEF CacheInv

\* What checkRegistration has read is in the datastore, and stays behind it
\* until it is cached.
LEMMA CheckCacheInv ==
    ASSUME StoreInv, CacheInv, NEW c \in Checkers, CheckRegistration(c)
    PROVE  CacheInv'
<1>1. UNCHANGED <<regTime, reg, work, step>>
  BY Zenon DEF CheckRegistration, Fetch, Refill, dbVars, workVars
<1>2. \A v \in Validators : regTime'[v] # None =>
        \/ reg'[v] # None /\ reg'[v].time = regTime'[v]
        \/ \E u \in Workers : step'[u] = "data" /\ Head(work'[u]).key = v
  BY <1>1 DEF CacheInv
<1>3. \A u \in Workers : step'[u] = "cache" => Held(Head(work[u]))
  BY <1>1 DEF CacheInv
<1>4. /\ fetched' \in [Checkers -> Registration \cup {None}]
      /\ \A d \in Checkers : fetched'[d] # None => Held(fetched'[d])
  <2>1. CASE Refill(c)
    <3>1. fetched' = [fetched EXCEPT ![c] = None]
      BY <2>1 DEF Refill
    <3> QED
      BY <3>1 DEF CacheInv
  <2>2. ASSUME NEW v \in Validators, Fetch(c, v) PROVE <1>4!:
    <3>1. reg[v] \in Registration /\ Held(reg[v])
      <4>1. reg[v] # None
        BY <2>2, Zenon DEF Fetch
      <4>2. reg[v] \in Registration /\ reg[v].key = v /\ reg[v].time \in Nat
        BY <4>1, StoredTypes DEF StoreInv
      <4> QED
        BY <4>1, <4>2 DEF Held
    <3>2. fetched' = [fetched EXCEPT ![c] = reg[v]]
      BY <2>2 DEF Fetch
    <3> QED
      BY <3>1, <3>2 DEF CacheInv
  <2> QED
    BY <2>1, <2>2 DEF CheckRegistration
<1>5. /\ cache' \in [Validators -> Registration \cup {None}]
      /\ \A v \in Validators : cache'[v] # None => cache'[v].key = v /\ Held(cache'[v])
  <2>1. CASE Refill(c)
    <3>1. fetched[c] \in Registration /\ fetched[c].key \in Validators /\ Held(fetched[c])
      BY <2>1, SMTT(30) DEF Refill, CacheInv, Registration
    <3>2. /\ cache' \in [Validators -> Registration \cup {None}]
          /\ \A v \in Validators :
                cache'[v] = cache[v] \/ (cache'[v] = fetched[c] /\ v = fetched[c].key)
      BY <2>1, <3>1, Zenon DEF Refill, CacheInv
    <3> QED
      BY <3>1, <3>2, Zenon DEF CacheInv, CachedIsStored
  <2>2. CASE \E v \in Validators : Fetch(c, v)
    BY <2>2 DEF Fetch, CacheInv, CachedIsStored
  <2> QED
    BY <2>1, <2>2, Zenon DEF CheckRegistration
<1> QED
  BY <1>1, <1>2, <1>3, <1>4, <1>5, Zenon DEF CacheInv, CachedIsStored, Held

\* If the second write of a registration cannot fail, every step keeps the
\* cache behind the datastore.
LEMMA Process_CacheInv ==
    ASSUME "data" \notin Failures, StoreInv, CacheInv, [Process]_vars
    PROVE  CacheInv'
<1>1. ASSUME OutsideStep, ~\E c \in Checkers : CheckRegistration(c) PROVE CacheInv'
  <2>1. /\ \A v \in Validators : cache'[v] \in {cache[v], None}
        /\ cache' \in [Validators -> Registration \cup {None}]
        /\ UNCHANGED fetched
    BY <1>1, Zenon DEF OutsideStep, Push, Enter, CloseManager, CloseLock, CloseChannel,
                CloseReturn, Evict, vars, CacheInv
  <2> QED
    BY <1>1, <2>1, OutsideUnchanged, CacheStutter, Zenon
<1>2. ASSUME NEW w \in Workers, Take(w) \/ Exit(w) \/ PutFails(w) PROVE CacheInv'
  <2>1. UNCHANGED <<regTime, reg, cache, fetched>>
    BY <1>2, Zenon DEF Take, Exit, PutFails, dbVars
  <2>2. \A u \in Workers : (step[u] = "data" \/ step'[u] \in {"data", "cache"}) =>
            step'[u] = step[u] /\ work'[u] = work[u]
    <3>1. CASE Take(w)
      BY <3>1, Zenon DEF Take, StoreInv
    <3>2. CASE Exit(w)
      BY <3>2, Zenon DEF Exit, StoreInv
    <3>3. CASE PutFails(w)
      BY <3>3, "data" \notin Failures DEF PutFails, Advance, StoreInv
    <3> QED
      BY <1>2, <3>1, <3>2, <3>3, Zenon
  <2> QED
    BY <2>1, <2>2, CacheStutter DEF CacheInv
<1> QED
  BY <1>1, <1>2, PutCacheInv, PutDataCacheInv, AddToCacheCacheInv, CheckCacheInv, Zenon
  DEF Process, OutsideStep, ParallelStore

\* Nothing is cached at first.
LEMMA Init_CacheInv == Init => CacheInv
  BY DEF Init, CacheInv, CachedIsStored

\* If no registration is left half written, by a failing second write or by the
\* end of the process, what is in the cache, and so is skipped by
\* RegisterValidator, is in the datastore or a newer one is.
THEOREM CacheTheorem ==
    ASSUME Failures \cap {"data", "crash"} = {}
    PROVE  Spec => []CachedIsStored
<1>1. StoreInv /\ CacheInv /\ [Next]_vars => CacheInv'
  BY Process_CacheInv, Failures \cap {"data", "crash"} = {} DEF Next, Crash
<1>2. CacheInv => CachedIsStored
  BY DEF CacheInv
<1> QED
  BY <1>1, <1>2, Init_CacheInv, Init_StoreInv, Next_StoreInv, PTL DEF Spec

-----------------------------------------------------------------------------
\* The registrations of a batch, and of what is left of one.
LEMMA ItemsType ==
    /\ Items(<<>>) = {}
    /\ \A b \in Seq(Registration) :
          /\ Items(b) \subseteq Registration
          /\ b # <<>> => Items(b) = {Head(b)} \cup Items(Tail(b))
<1>1. Items(<<>>) = {}
  BY DEF Items
<1>2. ASSUME NEW b \in Seq(Registration)
      PROVE  Items(b) \subseteq Registration
  BY DEF Items
<1>3. ASSUME NEW b \in Seq(Registration), b # <<>>
      PROVE  Items(b) = {Head(b)} \cup Items(Tail(b))
  <2>1. /\ Len(b) \in Nat \ {0} /\ DOMAIN b = 1 .. Len(b)
        /\ DOMAIN Tail(b) = 1 .. (Len(b) - 1)
        /\ Head(b) = b[1]
        /\ \A i \in 1 .. (Len(b) - 1) : Tail(b)[i] = b[i + 1]
    BY <1>3
  <2>2. ASSUME NEW i \in 1 .. Len(b) PROVE b[i] \in {Head(b)} \cup Items(Tail(b))
    <3>1. CASE i = 1
      BY <2>1, <3>1
    <3>2. CASE i # 1
      <4>1. i - 1 \in 1 .. (Len(b) - 1) /\ (i - 1) + 1 = i
        BY <2>1, <3>2
      <4>2. Tail(b)[i - 1] = b[i]
        BY <2>1, <4>1
      <4> QED
        BY <2>1, <4>1, <4>2, Zenon DEF Items
    <3> QED
      BY <3>1, <3>2
  <2>3. ASSUME NEW i \in 1 .. (Len(b) - 1) PROVE Tail(b)[i] \in Items(b)
    <3>1. i + 1 \in 1 .. Len(b) /\ Tail(b)[i] = b[i + 1]
      BY <2>1
    <3> QED
      BY <2>1, <3>1 DEF Items
  <2>4. Head(b) \in Items(b)
    BY <2>1, SMTT(30) DEF Items
  <2> QED
    BY <2>1, <2>2, <2>3, <2>4 DEF Items
<1> QED
  BY <1>1, <1>2, <1>3

\* The variables keep their types; the channel never holds more than StoreSize
\* batches.
LEMMA Process_TypeOK == StoreInv /\ TypeOK /\ [Process]_vars => TypeOK'
<1> SUFFICES ASSUME StoreInv, TypeOK, [Process]_vars PROVE TypeOK'
  OBVIOUS
<1>1. StoreInv'
  BY Process_StoreInv
<1>2. Len(storeCh') <= StoreSize
  <2>1. ASSUME NEW s \in Senders, Push(s) PROVE Len(storeCh') <= StoreSize
    <3>1. Len(storeCh') = Len(storeCh) + 1 /\ Len(storeCh) < StoreSize /\ Len(storeCh) \in Nat
      BY <2>1 DEF Push, StoreInv
    <3> QED
      BY <3>1, StoreManagerAssumption, SMTT(30)
  <2>2. ASSUME NEW w \in Workers, Take(w) PROVE Len(storeCh') <= StoreSize
    <3>1. Len(storeCh') = Len(storeCh) - 1 /\ Len(storeCh) \in Nat
      BY <2>2 DEF Take, StoreInv
    <3> QED
      BY <3>1, StoreManagerAssumption, SMTT(30) DEF TypeOK
  <2>3. (\A s \in Senders : ~Push(s)) /\ (\A w \in Workers : ~Take(w)) => UNCHANGED storeCh
    BY Zenon DEF Process, Enter, CloseManager, CloseLock, CloseChannel, CloseReturn, Evict, CheckRegistration,
           Fetch, Refill, ParallelStore, Exit, Put, PutData, PutFails, AddToCache, vars
  <2> QED
    BY <2>1, <2>2, <2>3 DEF TypeOK
<1>3. /\ isClosed' \in BOOLEAN
      /\ closing' \in {"open", "locking", "waiting", "closed"}
  BY Zenon DEF TypeOK, Process, Push, Enter, CloseManager, CloseLock, CloseChannel, CloseReturn, Evict,
         CheckRegistration, Fetch, Refill, ParallelStore, Take, Exit, Put, PutData, PutFails,
         AddToCache, vars
<1>4. /\ exited' \in [Workers -> BOOLEAN]
      /\ lock' \in Workers \cup {None}
  BY Zenon DEF TypeOK, Process, Push, Enter, CloseManager, CloseLock, CloseChannel, CloseReturn, Evict,
         CheckRegistration, Fetch, Refill, ParallelStore, Take, Exit, Put, PutData, PutFails,
         AddToCache, vars, workVars, dbVars
<1>5. ASSUME NEW w \in Workers, step[w] # "take"
      PROVE  work[w] \in Seq(Registration) /\ Head(work[w]) \in Registration
             /\ Head(work[w]).key \in Validators
  BY <1>5, HeadTail, Zenon DEF StoreInv
<1>6. /\ cache' \in [Validators -> Registration \cup {None}]
      /\ fetched' \in [Checkers -> Registration \cup {None}]
  <2>1. ASSUME NEW w \in Workers, AddToCache(w) PROVE <1>6!:
    BY <1>5, <2>1, Zenon DEF AddToCache, TypeOK
  <2>2. ASSUME NEW v \in Validators, Evict(v) PROVE <1>6!:
    BY <2>2 DEF Evict, TypeOK
  <2>3. ASSUME NEW c \in Checkers, CheckRegistration(c) PROVE <1>6!:
    <3>1. CASE Refill(c)
      <4>1. fetched[c] \in Registration /\ fetched[c].key \in Validators
        BY <3>1 DEF Refill, TypeOK, Registration
      <4> QED
        BY <3>1, <4>1, Zenon DEF Refill, TypeOK
    <3>2. ASSUME NEW v \in Validators, Fetch(c, v) PROVE <1>6!:
      BY <3>2 DEF Fetch, TypeOK
    <3> QED
      BY <2>3, <3>1, <3>2 DEF CheckRegistration
  <2>4. ~(\/ \E w \in Workers : AddToCache(w)
          \/ \E v \in Validators : Evict(v)
          \/ \E c \in Checkers : CheckRegistration(c)) => UNCHANGED <<cache, fetched>>
    BY Zenon DEF Process, Push, Enter, CloseManager, CloseLock, CloseChannel, CloseReturn, ParallelStore,
           Take, Exit, Put, PutData, PutFails, vars
  <2> QED
    BY <2>1, <2>2, <2>3, <2>4 DEF TypeOK
<1>7. accepted' \subseteq Registration
  <2>1. ASSUME NEW s \in Senders, Push(s) PROVE accepted' \subseteq Registration
    <3>1. request[s] \in Seq(Registration)
      BY <2>1, BatchType DEF Push, StoreInv
    <3> QED
      BY <2>1, <3>1, ItemsType, Zenon DEF Push, TypeOK
  <2>2. (\A s \in Senders : ~Push(s)) => UNCHANGED accepted
    BY Zenon DEF Process, Enter, CloseManager, CloseLock, CloseChannel, CloseReturn, Evict, CheckRegistration,
           Fetch, Refill, ParallelStore, Take, Exit, Put, PutData, PutFails, AddToCache, vars
  <2> QED
    BY <2>1, <2>2 DEF TypeOK
<1>8. dropped' \subseteq Registration
  <2>1. ASSUME NEW w \in Workers, PutFails(w) PROVE dropped' \subseteq Registration
    BY <2>1, ItemsType DEF PutFails, TypeOK
  <2>2. (\A w \in Workers : ~PutFails(w)) => UNCHANGED dropped
    BY Zenon DEF Process, Push, Enter, CloseManager, CloseLock, CloseChannel, CloseReturn, Evict,
           CheckRegistration, Fetch, Refill, ParallelStore, Take, Exit, Put, PutData, AddToCache, vars
  <2> QED
    BY <2>1, <2>2 DEF TypeOK
<1> QED
  BY <1>1, <1>2, <1>3, <1>4, <1>6, <1>7, <1>8 DEF TypeOK, StoreInv

\* The initial state is well typed.
LEMMA Init_TypeOK == Init => TypeOK
<1> SUFFICES ASSUME Init PROVE TypeOK
  OBVIOUS
<1>1. StoreInv
  BY Init_StoreInv
<1>2. Len(storeCh) <= StoreSize
  BY StoreManagerAssumption DEF Init
<1>3. /\ exited \in [Workers -> BOOLEAN]
      /\ cache \in [Validators -> Registration \cup {None}]
      /\ fetched \in [Checkers -> Registration \cup {None}]
  BY DEF Init
<1> QED
  BY <1>1, <1>2, <1>3, Zenon DEF Init, TypeOK, StoreInv

\* Every step keeps the types; a crash empties what is in memory.
LEMMA Next_TypeOK == StoreInv /\ TypeOK /\ [Next]_vars => TypeOK'
<1> SUFFICES ASSUME StoreInv, TypeOK, Crash PROVE TypeOK'
  BY Process_TypeOK DEF Next
<1>1. StoreInv'
  BY Crash_StoreInv
<1>2. Len(storeCh') <= StoreSize
  BY StoreManagerAssumption DEF Crash
<1>3. /\ exited' \in [Workers -> BOOLEAN]
      /\ cache' \in [Validators -> Registration \cup {None}]
      /\ fetched' \in [Checkers -> Registration \cup {None}]
  BY DEF Crash
<1> QED
  BY <1>1, <1>2, <1>3, Zenon DEF Crash, TypeOK, StoreInv

\* The state of the store manager stays within its types, and the channel
\* within its capacity.
THEOREM TypeCorrect == Spec => []TypeOK
  BY Init_TypeOK, Next_TypeOK, Init_StoreInv, Next_StoreInv, PTL DEF Spec

-----------------------------------------------------------------------------
\* What is held stays held, or gives way to a newer one.
LEMMA HeldStays ==
    ASSUME StoreInv, [Process]_vars, NEW r \in Registration, Held(r)
    PROVE  Held(r)'
<1>1. r.key \in Validators /\ r.time \in Nat
  BY StoreManagerAssumption, Zenon DEF Registration
<1>2. reg[r.key] # None /\ reg[r.key].time \in Nat /\ r.time <= reg[r.key].time
  BY <1>1, StoredTypes DEF Held
<1>3. StoreInv'
  BY Process_StoreInv
<1>4. CASE UNCHANGED reg
  BY <1>2, <1>4, Zenon DEF Held
<1>5. ASSUME NEW w \in Workers, PutData(w) PROVE Held(r)'
  <2>1. reg'[r.key] # None /\ reg[r.key].time <= reg'[r.key].time
    BY <1>1, <1>2, <1>5, PutDataStep
  <2>2. reg'[r.key].time \in Nat
    <3>1. reg'[r.key] \in Registration
      BY <1>1, <1>3, <2>1 DEF StoreInv
    <3> QED
      BY <3>1, StoreManagerAssumption, Zenon DEF Registration
  <2> QED
    BY <1>1, <1>2, <2>1, <2>2, SMTT(30) DEF Held
<1>6. (\A w \in Workers : ~PutData(w)) => UNCHANGED reg
  BY Zenon DEF Process, Push, Enter, CloseManager, CloseLock, CloseChannel, CloseReturn, Evict,
         CheckRegistration, Fetch, Refill, ParallelStore, Take, Exit, Put, PutFails,
         AddToCache, vars, dbVars
<1> QED
  BY <1>4, <1>5, <1>6

\* Where each registration that was sent is: a batch goes from a sender to the
\* channel, from there to a worker, and leaves it one by one.
LEMMA AcceptedStays ==
    ASSUME StoreInv, TypeOK, CacheInv, DrainInv, [Process]_vars, NEW r \in accepted'
    PROVE  Held(r)' \/ r \in dropped' \/ Pending(r)'
<1> DEFINE Safe == Held(r)' \/ r \in dropped' \/ Pending(r)'
<1>1. ASSUME NEW s \in Senders, Push(s) PROVE Safe
  <2>1. /\ storeCh' = Append(storeCh, request[s])
        /\ accepted' = accepted \cup Items(request[s])
        /\ UNCHANGED <<reg, dropped, work>>
        /\ storeCh \in Seq(Batch)
    BY <1>1, Zenon DEF Push, dbVars, workVars, StoreInv
  <2>2. CASE r \in Items(request[s])
    <3>1. Len(storeCh) + 1 \in DOMAIN storeCh' /\ storeCh'[Len(storeCh) + 1] = request[s]
      BY <2>1, SMTT(30)
    <3> QED
      BY <2>2, <3>1 DEF Pending
  <2>3. CASE r \in accepted
    <3>1. \A i \in DOMAIN storeCh : i \in DOMAIN storeCh' /\ storeCh'[i] = storeCh[i]
      BY <2>1
    <3> QED
      BY <2>1, <2>3, <3>1 DEF DrainInv, Pending, Held
  <2> QED
    BY <2>1, <2>2, <2>3, Zenon
<1>2. (\A s \in Senders : ~Push(s)) => r \in accepted
  BY Zenon DEF Process, Enter, CloseManager, CloseLock, CloseChannel, CloseReturn, Evict, CheckRegistration,
         Fetch, Refill, ParallelStore, Take, Exit, Put, PutData, PutFails, AddToCache, vars
<1>3. ASSUME r \in accepted, Held(r) \/ r \in dropped PROVE Safe
  <2>1. Held(r) => Held(r)'
    BY <1>3, HeldStays DEF TypeOK
  <2>2. dropped \subseteq dropped'
    BY Zenon DEF Process, Push, Enter, CloseManager, CloseLock, CloseChannel, CloseReturn, Evict,
           CheckRegistration, Fetch, Refill, ParallelStore, Take, Exit, Put, PutData, PutFails,
           AddToCache, vars
  <2> QED
    BY <1>3, <2>1, <2>2
<1>4. ASSUME UNCHANGED <<storeCh, work>>, Pending(r) PROVE Safe
  BY <1>4 DEF Pending
<1>5. ASSUME NEW w \in Workers, Take(w), Pending(r) PROVE Safe
  <2>1. /\ work' = [work EXCEPT ![w] = Head(storeCh)] /\ storeCh' = Tail(storeCh)
        /\ storeCh \in Seq(Batch) /\ storeCh # <<>>
        /\ work[w] = <<>> /\ work \in [Workers -> Seq(Registration)]
    BY <1>5 DEF Take, StoreInv, DrainInv
  <2>2. ASSUME NEW u \in Workers, r \in Items(work[u]) PROVE Safe
    <3>1. u # w
      BY <2>1, <2>2, ItemsType
    <3> QED
      BY <2>1, <2>2, <3>1 DEF Pending
  <2>3. ASSUME NEW i \in DOMAIN storeCh, r \in Items(storeCh[i]) PROVE Safe
    <3>1. CASE i = 1
      BY <2>1, <2>3, <3>1, SMTT(30) DEF Pending
    <3>2. CASE i # 1
      <4>1. i - 1 \in DOMAIN storeCh' /\ storeCh'[i - 1] = storeCh[i]
        BY <2>1, <3>2, SMTT(30)
      <4> QED
        BY <2>3, <4>1 DEF Pending
    <3> QED
      BY <3>1, <3>2
  <2> QED
    BY <1>5, <2>2, <2>3, Zenon DEF Pending
<1>6. ASSUME NEW w \in Workers, PutFails(w) \/ AddToCache(w), Pending(r) PROVE Safe
  <2>1. UNCHANGED storeCh
    BY <1>6, Zenon DEF PutFails, AddToCache
  <2>2. /\ step[w] # "take" /\ work[w] \in Seq(Registration) /\ work[w] # <<>>
        /\ work \in [Workers -> Seq(Registration)]
    BY <1>6 DEF PutFails, AddToCache, StoreInv
  <2>3. ASSUME NEW u \in Workers, u # w, r \in Items(work[u]) PROVE Safe
    <3>1. work'[u] = work[u]
      BY <1>6, <2>2, <2>3 DEF PutFails, AddToCache, Advance
    <3> QED
      BY <2>3, <3>1 DEF Pending
  <2>4. ASSUME r \in Items(work[w]) PROVE Safe
    <3>1. CASE PutFails(w)
      BY <2>4, <3>1, Zenon DEF PutFails
    <3>2. CASE AddToCache(w)
      <4>1. work'[w] = Tail(work[w]) /\ UNCHANGED reg
        BY <2>2, <3>2, Zenon DEF AddToCache, Advance, dbVars
      <4>2. Held(Head(work[w])) /\ Items(work[w]) = {Head(work[w])} \cup Items(Tail(work[w]))
        BY <2>2, <3>2, ItemsType, Zenon DEF AddToCache, CacheInv
      <4>3. r = Head(work[w]) => Held(r)'
        BY <4>1, <4>2 DEF Held
      <4> QED
        BY <2>4, <4>1, <4>2, <4>3 DEF Pending
    <3> QED
      BY <1>6, <3>1, <3>2
  <2>5. ASSUME NEW i \in DOMAIN storeCh, r \in Items(storeCh[i]) PROVE Safe
    BY <2>1, <2>5 DEF Pending
  <2> QED
    BY <1>6, <2>3, <2>4, <2>5 DEF Pending
<1>7. \/ \E s \in Senders : Push(s)
      \/ \E w \in Workers : Take(w) \/ PutFails(w) \/ AddToCache(w)
      \/ UNCHANGED <<storeCh, work>>
  BY Zenon DEF Process, Enter, CloseManager, CloseLock, CloseChannel, CloseReturn, Evict, CheckRegistration,
         Fetch, Refill, ParallelStore, Exit, Put, PutData, vars, workVars
<1>8. r \in accepted => Held(r) \/ r \in dropped \/ Pending(r)
  BY Zenon DEF DrainInv
<1> HIDE DEF Safe
<1>9. Safe
  BY <1>1, <1>2, <1>3, <1>4, <1>5, <1>6, <1>7, <1>8, Zenon
<1> QED
  BY <1>9 DEF Safe

\* No batch is sent once the channel is closed, so a worker that found it empty
\* has seen the last of it.
LEMMA Process_DrainInv == StoreInv /\ TypeOK /\ CacheInv /\ DrainInv /\ [Process]_vars => DrainInv'
<1> SUFFICES ASSUME StoreInv, TypeOK, CacheInv, DrainInv, [Process]_vars PROVE DrainInv'
  OBVIOUS
<1>1. NoSendOnClosed'
  BY NoSendStep DEF DrainInv
<1>2. ASSUME NEW r \in accepted' PROVE Held(r)' \/ r \in dropped' \/ Pending(r)'
  BY AcceptedStays, Zenon
<1>3. ASSUME NEW u \in Workers, step'[u] = "take" PROVE work'[u] = <<>>
  <2>1. ASSUME NEW w \in Workers, Take(w) \/ Put(w) \/ PutData(w) PROVE work'[u] = <<>>
    BY <1>3, <2>1 DEF Take, Put, PutData, StoreInv, DrainInv
  <2>2. ASSUME NEW w \in Workers, PutFails(w) \/ AddToCache(w) PROVE work'[u] = <<>>
    <3>1. CASE u = w
      BY <1>3, <2>2, <3>1, Zenon DEF PutFails, AddToCache, Advance, StoreInv
    <3>2. CASE u # w
      BY <1>3, <2>2, <3>2 DEF PutFails, AddToCache, Advance, StoreInv, DrainInv
    <3> QED
      BY <3>1, <3>2
  <2>3. (\A w \in Workers : ~(Take(w) \/ Put(w) \/ PutData(w) \/ PutFails(w) \/ AddToCache(w)))
        => UNCHANGED <<work, step>>
    BY Zenon DEF Process, Push, Enter, CloseManager, CloseLock, CloseChannel, CloseReturn, Evict,
           CheckRegistration, Fetch, Refill, ParallelStore, Exit, vars, workVars
  <2> QED
    BY <1>3, <2>1, <2>2, <2>3, Zenon DEF DrainInv
<1>4. ASSUME NEW u \in Workers, exited'[u]
      PROVE  isClosed' /\ storeCh' = <<>> /\ step'[u] = "take"
  <2>1. ASSUME NEW w \in Workers, Exit(w) PROVE isClosed' /\ storeCh' = <<>> /\ step'[u] = "take"
    BY <1>4, <2>1 DEF Exit, TypeOK, DrainInv
  <2>2. ASSUME exited[u] PROVE isClosed' /\ storeCh' = <<>> /\ step'[u] = "take"
    <3>1. isClosed /\ storeCh = <<>> /\ step[u] = "take"
      BY <2>2 DEF DrainInv
    <3>2. isClosed'
      BY <3>1, Zenon DEF Process, Push, Enter, CloseManager, CloseLock, CloseChannel, CloseReturn, Evict,
             CheckRegistration, Fetch, Refill, ParallelStore, Take, Exit, Put, PutData, PutFails,
             AddToCache, vars
    <3>3. storeCh' = <<>>
      BY <3>1, Zenon DEF Process, Push, Enter, CloseManager, CloseLock, CloseChannel, CloseReturn, Evict,
             CheckRegistration, Fetch, Refill, ParallelStore, Take, Exit, Put, PutData, PutFails,
             AddToCache, vars, DrainInv, NoSendOnClosed
    <3>4. step'[u] = "take"
      <4>1. ASSUME NEW w \in Workers, Take(w) \/ Put(w) \/ PutData(w) \/ PutFails(w) \/ AddToCache(w)
            PROVE  step'[u] = "take"
        <5>1. u # w
          BY <3>1, <4>1, Zenon DEF Take, Put, PutData, PutFails, AddToCache
        <5> QED
          BY <3>1, <4>1, <5>1, Zenon DEF Take, Put, PutData, PutFails, AddToCache, Advance, StoreInv
      <4>2. (\A w \in Workers : ~(Take(w) \/ Put(w) \/ PutData(w) \/ PutFails(w) \/ AddToCache(w)))
            => UNCHANGED step
        BY Zenon DEF Process, Push, Enter, CloseManager, CloseLock, CloseChannel, CloseReturn, Evict,
               CheckRegistration, Fetch, Refill, ParallelStore, Exit, vars, workVars
      <4> QED
        BY <3>1, <4>1, <4>2
    <3> QED
      BY <3>2, <3>3, <3>4
  <2>3. (\A w \in Workers : ~Exit(w)) => UNCHANGED exited
    BY Zenon DEF Process, Push, Enter, CloseManager, CloseLock, CloseChannel, CloseReturn, Evict,
           CheckRegistration, Fetch, Refill, ParallelStore, Take, Put, PutData, PutFails,
           AddToCache, vars, workVars
  <2> QED
    BY <1>4, <2>1, <2>2, <2>3, Zenon
<1>5. ASSUME closing' = "closed", NEW u \in Workers PROVE exited'[u]
  <2>1. \A w \in Workers : exited[w] => exited'[w]
    BY Zenon DEF Process, Push, Enter, CloseManager, CloseLock, CloseChannel, CloseReturn, Evict,
           CheckRegistration, Fetch, Refill, ParallelStore, Take, Exit, Put, PutData, PutFails,
           AddToCache, vars, workVars, TypeOK
  <2>2. CloseReturn \/ closing = "closed"
    BY <1>5, Zenon DEF Process, Push, Enter, CloseManager, CloseLock, CloseChannel, Evict,
           CheckRegistration, Fetch, Refill, ParallelStore, Take, Exit, Put, PutData, PutFails,
           AddToCache, vars
  <2> QED
    BY <2>1, <2>2, Zenon DEF CloseReturn, DrainInv
<1> QED
  BY <1>1, <1>2, <1>3, <1>4, <1>5 DEF DrainInv

\* When Close returns, every registration that was sent to the channel is in
\* the datastore, or a newer one is, or its writing failed: there is at least
\* one worker, the second write cannot fail and the process does not end.
THEOREM DrainTheorem ==
    ASSUME Failures \cap {"data", "crash"} = {}, Workers # {}
    PROVE  Spec => []AllStored
<1>1. Init => DrainInv
  BY Zenon DEF Init, DrainInv, NoSendOnClosed
<1>2. /\ StoreInv /\ CacheInv /\ [Next]_vars => CacheInv'
      /\ StoreInv /\ TypeOK /\ CacheInv /\ DrainInv /\ [Next]_vars => DrainInv'
  BY Process_CacheInv, Process_DrainInv, Failures \cap {"data", "crash"} = {} DEF Next, Crash
<1>3. ASSUME StoreInv, DrainInv PROVE AllStored
  <2> SUFFICES ASSUME closing = "closed", NEW r \in accepted PROVE Held(r) \/ r \in dropped
    BY DEF AllStored
  <2>1. \A w \in Workers : work[w] = <<>>
    BY <1>3 DEF DrainInv
  <2>2. storeCh = <<>>
    BY <1>3, Workers # {} DEF DrainInv
  <2>3. ~Pending(r)
    BY <2>1, <2>2, ItemsType DEF Pending
  <2> QED
    BY <1>3, <2>3 DEF DrainInv
<1> QED
  BY <1>1, <1>2, <1>3, Init_CacheInv, Init_TypeOK, Next_TypeOK, Init_StoreInv, Next_StoreInv,
     PTL DEF Spec

-----------------------------------------------------------------------------
(* Nobody waits in vain *)

\* A step of a worker changes what that worker does next, and no other's.
LEMMA WorkerStep ==
    ASSUME StoreInv, NEW w \in Workers, ParallelStore(w)
    PROVE  \A v \in Workers : v # w => step'[v] = step[v]
  BY Zenon DEF ParallelStore, Take, Exit, Put, PutData, PutFails, AddToCache, Advance, StoreInv

\* The mutex is given back by the worker that holds it, after the second write
\* or when a write fails.
LEMMA LockStep ==
    ASSUME StoreInv, LoopInv, NEW w \in Workers, ParallelStore(w)
    PROVE  lock' # None => lock' \in Workers /\ step'[lock'] = "data"
<1>1. CASE Put(w)
  BY <1>1, SMTT(30) DEF Put, StoreInv
<1>2. CASE PutData(w) \/ PutFails(w)
  BY <1>2, Zenon DEF PutData, PutFails
<1>3. CASE Take(w) \/ Exit(w) \/ AddToCache(w)
  <2>1. UNCHANGED lock /\ (step[w] \in {"take", "cache"})
    BY <1>3, Zenon DEF Take, Exit, AddToCache, dbVars
  <2> QED
    BY <2>1, WorkerStep, Zenon DEF LoopInv
<1> QED
  BY <1>1, <1>2, <1>3, Zenon DEF ParallelStore

\* A worker's loop ends on the closed and empty channel, and no step of it puts
\* a batch there.
LEMMA ExitStep ==
    ASSUME StoreInv, LoopInv, NEW w \in Workers, ParallelStore(w)
    PROVE  \A v \in Workers : exited'[v] => isClosed' /\ storeCh' = <<>>
<1>1. CASE Exit(w)
  BY <1>1, Zenon DEF Exit, LoopInv
<1>2. CASE Take(w)
  BY <1>2, Zenon DEF Take, LoopInv
<1>3. CASE Put(w) \/ PutData(w) \/ PutFails(w) \/ AddToCache(w)
  BY <1>3, SMTT(30) DEF Put, PutData, PutFails, AddToCache, LoopInv
<1> QED
  BY <1>1, <1>2, <1>3, Zenon DEF ParallelStore

\* Every step of the process keeps it.
LEMMA Process_LoopInv == StoreInv /\ LoopInv /\ [Process]_vars => LoopInv'
<1> SUFFICES ASSUME StoreInv, LoopInv, [Process]_vars PROVE LoopInv'
  BY Zenon
<1>1. NoSendOnClosed'
  BY NoSendStep, Zenon DEF LoopInv
<1>2. CASE UNCHANGED <<storeCh, isClosed, exited, lock, step>>
  BY <1>1, <1>2, Zenon DEF LoopInv
<1>3. ASSUME NEW s \in Senders, Push(s) PROVE LoopInv'
  <2>1. pc[s] = "sending" /\ UNCHANGED <<isClosed, exited, lock, step>>
    BY <1>3, Zenon DEF Push, workVars, dbVars
  <2>2. \A w \in Workers : ~exited[w]
    BY <2>1, Zenon DEF LoopInv, NoSendOnClosed
  <2> QED
    BY <1>1, <2>1, <2>2, Zenon DEF LoopInv
<1>4. ASSUME NEW s \in Senders, NEW b \in Batch, Enter(s, b) PROVE LoopInv'
  BY <1>2, <1>4, Zenon DEF Enter, workVars, dbVars
<1>5. CASE CloseManager
  <2>1. UNCHANGED <<storeCh, exited, lock, step>> /\ (isClosed => isClosed')
    BY <1>5, SMTT(30) DEF CloseManager, CloseLock, CloseChannel, CloseReturn, workVars, dbVars
  <2> QED
    BY <1>1, <2>1, Zenon DEF LoopInv
<1>6. ASSUME NEW w \in Workers, ParallelStore(w) PROVE LoopInv'
  BY <1>1, <1>6, LockStep, ExitStep, Zenon DEF LoopInv
<1>7. ASSUME NEW v \in Validators, Evict(v) PROVE LoopInv'
  BY <1>2, <1>7, Zenon DEF Evict, workVars, dbVars
<1>8. ASSUME NEW c \in Checkers, CheckRegistration(c) PROVE LoopInv'
  BY <1>2, <1>8, Zenon DEF CheckRegistration, Fetch, Refill, workVars, dbVars
<1>9. CASE UNCHANGED vars
  BY <1>2, <1>9, Zenon DEF vars, workVars, dbVars
<1> QED
  BY <1>3, <1>4, <1>5, <1>6, <1>7, <1>8, <1>9, Zenon DEF Process

\* After a restart the loops run again and the mutex is free.
LEMMA Crash_LoopInv == Crash => LoopInv'
  BY Zenon DEF Crash, LoopInv, NoSendOnClosed

\* No batch, no sender and no worker is left waiting for a worker that is gone.
THEOREM NoneAbandonedTheorem == Spec => []NoneAbandoned
<1>1. Init => LoopInv
  BY Zenon DEF Init, LoopInv, NoSendOnClosed
<1>2. StoreInv /\ LoopInv /\ [Next]_vars => LoopInv'
  BY Process_LoopInv, Crash_LoopInv, Zenon DEF Next
<1>3. LoopInv => NoneAbandoned
  BY Zenon DEF LoopInv, NoneAbandoned, NoSendOnClosed
<1> QED
  BY <1>1, <1>2, <1>3, Init_StoreInv, Next_StoreInv, PTL DEF Spec
==============================================================================
