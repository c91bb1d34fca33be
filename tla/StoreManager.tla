---------------------------- MODULE StoreManager -----------------------------
(***************************************************************************)
(* The store manager of validators/storemanager.go: batches of verified    *)
(* registrations go through a channel to workers, which write them to the  *)
(* datastore and then to the cache, and Close waits for the workers to     *)
(* drain the channel.  The datastore is that of                            *)
(* datastore/validator/badger/badger.go: two keys for each validator, its  *)
(* registration and the time of it, written one after the other.           *)
(***************************************************************************)
EXTENDS Naturals, Sequences

CONSTANTS
    Senders,      \* goroutines calling SendStore
    Workers,      \* goroutines running ParallelStore
    Checkers,     \* goroutines calling checkRegistration
    Validators,   \* validator public keys
    Times,        \* timestamps of registrations
    MaxItems,     \* bound on the registrations of a batch
    StoreSize,    \* capacity of StoreCh
    Failures,     \* what may fail: the writes of a registration, the process
    None          \* no registration, no batch, no lock holder

Registration == [key : Validators, time : Times]
Batch == UNION { [1 .. n -> Registration] : n \in 1 .. MaxItems }

ASSUME StoreManagerAssumption ==
    /\ Times \subseteq Nat
    /\ MaxItems \in Nat
    /\ StoreSize \in Nat \ {0}
    /\ Failures \subseteq {"time", "data", "crash"}
    /\ None \notin Registration \cup Times \cup Batch \cup Workers

VARIABLES
    pc,          \* where each SendStore is
    request,     \* the batch each SendStore was called with
    storeCh,     \* the channel StoreCh
    isClosed,    \* StoreCh is closed (set together with the isClosed flag)
    closing,     \* where Close is: it holds or waits for storeMutex, then waits
    work,        \* what is left of the batch each worker is storing
    step,        \* what each worker does next with the first of it
    exited,      \* workers whose range loop has ended
    lock,        \* the worker holding the datastore's mutex
    regTime,     \* the time key of each validator
    reg,         \* the registration key of each validator
    cache,       \* RegistrationCache, shared with the relay
    fetched,     \* the registration each checkRegistration has read
    accepted,    \* registrations that were sent to StoreCh
    dropped      \* registrations given up because a write failed

sendVars == <<pc, request>>
workVars == <<work, step, exited>>
dbVars == <<lock, regTime, reg>>
vars == <<sendVars, fetched, storeCh, isClosed, closing, workVars, dbVars, cache, accepted, dropped>>

Init ==
    /\ pc = [s \in Senders |-> "idle"]
    /\ request = [s \in Senders |-> None]
    /\ storeCh = <<>>
    /\ isClosed = FALSE
    /\ closing = "open"
    /\ work = [w \in Workers |-> <<>>]
    /\ step = [w \in Workers |-> "take"]
    /\ exited = [w \in Workers |-> FALSE]
    /\ lock = None
    /\ regTime = [v \in Validators |-> None]
    /\ reg = [v \in Validators |-> None]
    /\ cache = [v \in Validators |-> None]
    /\ fetched = [c \in Checkers |-> None]
    /\ accepted = {}
    /\ dropped = {}

Items(b) == { b[i] : i \in DOMAIN b }

-----------------------------------------------------------------------------
\* SendStore takes the read lock, which a waiting Close holds back, and looks
\* at isClosed: once closed the batch is dropped and the lock given back.
Enter(s, b) ==
    /\ pc[s] = "idle"
    /\ closing # "locking"
    /\ IF isClosed
       THEN UNCHANGED sendVars
       ELSE /\ pc' = [pc EXCEPT ![s] = "sending"]
            /\ request' = [request EXCEPT ![s] = b]
    /\ UNCHANGED <<fetched, storeCh, isClosed, closing, workVars, dbVars, cache, accepted, dropped>>

\* The batch is sent, under the read lock, once the channel has room.
Push(s) ==
    /\ pc[s] = "sending"
    /\ Len(storeCh) < StoreSize
    /\ storeCh' = Append(storeCh, request[s])
    /\ accepted' = accepted \cup Items(request[s])
    /\ pc' = [pc EXCEPT ![s] = "idle"]
    /\ request' = [request EXCEPT ![s] = None]
    /\ UNCHANGED <<fetched, isClosed, closing, workVars, dbVars, cache, dropped>>

\* Close asks for the write lock.
CloseLock ==
    /\ closing = "open"
    /\ closing' = "locking"
    /\ UNCHANGED <<sendVars, fetched, storeCh, isClosed, workVars, dbVars, cache, accepted, dropped>>

\* Mutated form of CloseChannel: the channel is closed without the lock.
CloseUnlocked ==
    /\ closing = "locking"
    /\ isClosed' = TRUE
    /\ closing' = "waiting"
    /\ UNCHANGED <<sendVars, fetched, storeCh, workVars, dbVars, cache, accepted, dropped>>

\* With the lock, when no SendStore holds its read lock, the channel is closed.
CloseChannel ==
    /\ closing = "locking"
    /\ \A s \in Senders : pc[s] # "sending"
    /\ isClosed' = TRUE
    /\ closing' = "waiting"
    /\ UNCHANGED <<sendVars, fetched, storeCh, workVars, dbVars, cache, accepted, dropped>>

\* Close returns when every worker has ended.
CloseReturn ==
    /\ closing = "waiting"
    /\ \A w \in Workers : exited[w]
    /\ closing' = "closed"
    /\ UNCHANGED <<sendVars, fetched, storeCh, isClosed, workVars, dbVars, cache, accepted, dropped>>

-----------------------------------------------------------------------------
\* A worker receives the next batch.
Take(w) ==
    /\ step[w] = "take"
    /\ storeCh # <<>>
    /\ work' = [work EXCEPT ![w] = Head(storeCh)]
    /\ storeCh' = Tail(storeCh)
    /\ step' = [step EXCEPT ![w] = "put"]
    /\ UNCHANGED <<sendVars, fetched, isClosed, closing, exited, dbVars, cache, accepted, dropped>>

\* Mutated form of Exit: a closed channel ends the loop at once.
ExitEarly(w) ==
    /\ step[w] = "take"
    /\ isClosed
    /\ ~exited[w]
    /\ exited' = [exited EXCEPT ![w] = TRUE]
    /\ UNCHANGED <<sendVars, fetched, storeCh, isClosed, closing, work, step, dbVars, cache, accepted, dropped>>

\* The range over the channel ends when it is closed and empty.
Exit(w) ==
    /\ step[w] = "take"
    /\ isClosed
    /\ storeCh = <<>>
    /\ ~exited[w]
    /\ exited' = [exited EXCEPT ![w] = TRUE]
    /\ UNCHANGED <<sendVars, fetched, storeCh, isClosed, closing, work, step, dbVars, cache, accepted, dropped>>

\* Mutated form of Put: the time of the stored registration is not compared.
PutAny(w) ==
    LET r == Head(work[w]) IN
    /\ step[w] = "put"
    /\ lock = None
    /\ step' = [step EXCEPT ![w] = "data"]
    /\ regTime' = [regTime EXCEPT ![r.key] = r.time]
    /\ lock' = w
    /\ UNCHANGED <<sendVars, fetched, storeCh, isClosed, closing, work, exited, reg, cache, accepted, dropped>>

\* PutNewerRegistration, with the datastore's mutex: if a newer time is
\* stored it returns at once, else it writes the time key.
Put(w) ==
    LET r == Head(work[w]) IN
    /\ step[w] = "put"
    /\ lock = None
    /\ IF regTime[r.key] # None /\ r.time < regTime[r.key]
       THEN /\ step' = [step EXCEPT ![w] = "cache"]
            /\ UNCHANGED <<lock, regTime>>
       ELSE /\ step' = [step EXCEPT ![w] = "data"]
            /\ regTime' = [regTime EXCEPT ![r.key] = r.time]
            /\ lock' = w
    /\ UNCHANGED <<sendVars, fetched, storeCh, isClosed, closing, work, exited, reg, cache, accepted, dropped>>

\* It then writes the registration key, and gives the mutex back.
PutData(w) ==
    LET r == Head(work[w]) IN
    /\ step[w] = "data"
    /\ reg' = [reg EXCEPT ![r.key] = r]
    /\ lock' = None
    /\ step' = [step EXCEPT ![w] = "cache"]
    /\ UNCHANGED <<sendVars, fetched, storeCh, isClosed, closing, work, exited, regTime, cache, accepted, dropped>>

\* storeRegistration goes on to the next of the batch, or returns.
Advance(w, rest) ==
    /\ work' = [work EXCEPT ![w] = rest]
    /\ step' = [step EXCEPT ![w] = IF rest = <<>> THEN "take" ELSE "put"]

\* Mutated form of PutFails: the first of the batch is cached all the same.
PutFailsCached(w) ==
    LET r == Head(work[w]) IN
    /\ \/ step[w] = "put" /\ lock = None /\ "time" \in Failures
       \/ step[w] = "data" /\ "data" \in Failures
    /\ cache' = [cache EXCEPT ![r.key] = r]
    /\ lock' = None
    /\ dropped' = dropped \cup Items(work[w])
    /\ Advance(w, <<>>)
    /\ UNCHANGED <<sendVars, fetched, storeCh, isClosed, closing, exited, regTime, reg, accepted>>

\* Mutated form of PutFails: the worker ends on an error.
PutFailsExit(w) ==
    /\ \/ step[w] = "put" /\ lock = None /\ "time" \in Failures
       \/ step[w] = "data" /\ "data" \in Failures
    /\ lock' = None
    /\ dropped' = dropped \cup Items(work[w])
    /\ step' = [step EXCEPT ![w] = "ended"]
    /\ exited' = [exited EXCEPT ![w] = TRUE]
    /\ UNCHANGED <<sendVars, fetched, storeCh, isClosed, closing, work, regTime, reg, cache, accepted>>

\* A write fails: the mutex is given back and the worker goes on to its next
\* batch without the rest of this one.
PutFails(w) ==
    /\ \/ step[w] = "put" /\ lock = None /\ "time" \in Failures
       \/ step[w] = "data" /\ "data" \in Failures
    /\ lock' = None
    /\ dropped' = dropped \cup Items(work[w])
    /\ Advance(w, <<>>)
    /\ UNCHANGED <<sendVars, fetched, storeCh, isClosed, closing, exited, regTime, reg, cache, accepted>>

\* PutNewerRegistration returned nil: the registration goes to the cache.
AddToCache(w) ==
    LET r == Head(work[w]) IN
    /\ step[w] = "cache"
    /\ cache' = [cache EXCEPT ![r.key] = r]
    /\ Advance(w, Tail(work[w]))
    /\ UNCHANGED <<sendVars, fetched, storeCh, isClosed, closing, exited, dbVars, accepted, dropped>>

-----------------------------------------------------------------------------
\* The cache is full and evicts an entry, or checkRegistration of the relay
\* finds it expired and removes it.
Evict(v) ==
    /\ cache[v] # None
    /\ cache' = [cache EXCEPT ![v] = None]
    /\ UNCHANGED <<sendVars, fetched, storeCh, isClosed, closing, workVars, dbVars, accepted, dropped>>

\* checkRegistration has no use for the cached entry and reads the datastore,
\* whose mutex it does not take.
Fetch(c, v) ==
    /\ fetched[c] = None
    /\ reg[v] # None
    /\ fetched' = [fetched EXCEPT ![c] = reg[v]]
    /\ UNCHANGED <<sendVars, storeCh, isClosed, closing, workVars, dbVars, cache, accepted, dropped>>

\* It adds what it has read to the cache, if the fee recipient is the right one.
Refill(c) ==
    LET r == fetched[c] IN
    /\ r # None
    /\ cache' \in {cache, [cache EXCEPT ![r.key] = r]}
    /\ fetched' = [fetched EXCEPT ![c] = None]
    /\ UNCHANGED <<sendVars, storeCh, isClosed, closing, workVars, dbVars, accepted, dropped>>

\* The process ends anywhere, also between the two writes of a registration,
\* and is started again on what is in the datastore.
Crash ==
    /\ "crash" \in Failures
    /\ pc' = [s \in Senders |-> "idle"]
    /\ request' = [s \in Senders |-> None]
    /\ storeCh' = <<>> /\ isClosed' = FALSE /\ closing' = "open"
    /\ work' = [w \in Workers |-> <<>>]
    /\ step' = [w \in Workers |-> "take"]
    /\ exited' = [w \in Workers |-> FALSE]
    /\ lock' = None
    /\ cache' = [v \in Validators |-> None]
    /\ fetched' = [c \in Checkers |-> None]
    /\ accepted' = {} /\ dropped' = {}
    /\ UNCHANGED <<regTime, reg>>

CheckRegistration(c) == Refill(c) \/ \E v \in Validators : Fetch(c, v)
ParallelStore(w) ==
    Take(w) \/ Exit(w) \/ Put(w) \/ PutData(w) \/ PutFails(w) \/ AddToCache(w)
CloseManager == CloseLock \/ CloseChannel \/ CloseReturn

Process ==
    \/ \E s \in Senders : Push(s) \/ \E b \in Batch : Enter(s, b)
    \/ CloseManager
    \/ \E w \in Workers : ParallelStore(w)
    \/ \E v \in Validators : Evict(v)
    \/ \E c \in Checkers : CheckRegistration(c)

Next == Process \/ Crash

Spec == Init /\ [][Next]_vars

\* Workers run and obtain the mutex in turn, blocked senders are served in
\* turn, and a Close that was called runs.  Close need never be called.
Fairness ==
    /\ \A w \in Workers :
          /\ WF_vars(Take(w) \/ Exit(w) \/ PutData(w) \/ AddToCache(w))
          /\ SF_vars(Put(w))
    /\ \A s \in Senders : SF_vars(Push(s))
    /\ WF_vars(CloseChannel \/ CloseReturn)

FairSpec == Spec /\ Fairness

-----------------------------------------------------------------------------
TypeOK ==
    /\ pc \in [Senders -> {"idle", "sending"}]
    /\ request \in [Senders -> Batch \cup {None}]
    /\ storeCh \in Seq(Batch)
    /\ Len(storeCh) <= StoreSize
    /\ isClosed \in BOOLEAN
    /\ closing \in {"open", "locking", "waiting", "closed"}
    /\ work \in [Workers -> Seq(Registration)]
    /\ step \in [Workers -> {"take", "put", "data", "cache"}]
    /\ exited \in [Workers -> BOOLEAN]
    /\ lock \in Workers \cup {None}
    /\ regTime \in [Validators -> Times \cup {None}]
    /\ reg \in [Validators -> Registration \cup {None}]
    /\ cache \in [Validators -> Registration \cup {None}]
    /\ fetched \in [Checkers -> Registration \cup {None}]
    /\ accepted \subseteq Registration
    /\ dropped \subseteq Registration

\* The registration r, or a newer one of its validator, is in the datastore.
Held(r) == reg[r.key] # None /\ r.time <= reg[r.key].time

\* No SendStore is about to send on a closed channel, which would panic: this
\* is what the "lock needed for Close()" is for.
NoSendOnClosed == \A s \in Senders : pc[s] = "sending" => ~isClosed

\* The registration of a validator is never replaced by an older one, whatever
\* order the workers store them in, wherever a write fails or the process ends.
NewerKept ==
    [][\A v \in Validators :
         reg[v] # None => reg'[v] # None /\ reg[v].time <= reg'[v].time]_vars

\* What is in the cache is in the datastore, or a newer one is: when
\* PutNewerRegistration returns nil without writing, the datastore is to
\* "already have newer".  RegisterValidator skips what it finds in the cache.
CachedIsStored ==
    \A v \in Validators : cache[v] # None => Held(cache[v])

\* The inductive invariant behind the two properties of the datastore: a
\* worker past Put holds the mutex and has written the time of the very
\* registration it goes on to write, and the time key is never behind the
\* registration key.
StoreInv ==
    /\ storeCh \in Seq(Batch)
    /\ pc \in [Senders -> {"idle", "sending"}]
    /\ request \in [Senders -> Batch \cup {None}]
    /\ \A s \in Senders : pc[s] = "sending" => request[s] \in Batch
    /\ work \in [Workers -> Seq(Registration)]
    /\ step \in [Workers -> {"take", "put", "data", "cache"}]
    /\ regTime \in [Validators -> Times \cup {None}]
    /\ reg \in [Validators -> Registration \cup {None}]
    /\ \A w \in Workers : step[w] # "take" => work[w] # <<>>
    /\ \A w \in Workers : step[w] = "data" =>
          lock = w /\ regTime[Head(work[w]).key] = Head(work[w]).time
    /\ \A v \in Validators : reg[v] # None =>
          reg[v].key = v /\ regTime[v] # None /\ reg[v].time <= regTime[v]

\* With no failing second write and no crash, the two keys differ only while
\* the mutex is held, and what goes to the cache next, from a worker or from
\* the relay, is in the datastore.
CacheInv ==
    /\ \A v \in Validators : regTime[v] # None =>
          \/ reg[v] # None /\ reg[v].time = regTime[v]
          \/ \E w \in Workers : step[w] = "data" /\ Head(work[w]).key = v
    /\ \A w \in Workers : step[w] = "cache" => Held(Head(work[w]))
    /\ fetched \in [Checkers -> Registration \cup {None}]
    /\ \A c \in Checkers : fetched[c] # None => Held(fetched[c])
    /\ cache \in [Validators -> Registration \cup {None}]
    /\ \A v \in Validators : cache[v] # None => cache[v].key = v
    /\ CachedIsStored

\* When Close returns, "All registrations stored": each one that was sent to
\* the channel is in the datastore, or a newer one, unless a write failed.
AllStored ==
    closing = "closed" => \A r \in accepted : Held(r) \/ r \in dropped

\* The inductive invariant behind AllStored: what was sent is stored, given up,
\* or still ahead of a worker, and a worker that has ended found the closed
\* channel empty and has nothing in hand.
Pending(r) ==
    \/ \E i \in DOMAIN storeCh : r \in Items(storeCh[i])
    \/ \E w \in Workers : r \in Items(work[w])

DrainInv ==
    /\ NoSendOnClosed
    /\ \A r \in accepted : Held(r) \/ r \in dropped \/ Pending(r)
    /\ \A w \in Workers : step[w] = "take" => work[w] = <<>>
    /\ \A w \in Workers : exited[w] => isClosed /\ storeCh = <<>> /\ step[w] = "take"
    /\ closing = "closed" => \A w \in Workers : exited[w]

\* Whatever fails and whenever the process restarts: no worker has ended while a
\* batch is in the channel or a blocked SendStore is about to send one, and
\* whoever holds the datastore's mutex is between the two writes of
\* PutNewerRegistration, so that neither is waited for in vain.
NoneAbandoned ==
    /\ storeCh # <<>> \/ (\E s \in Senders : pc[s] = "sending") => \A w \in Workers : ~exited[w]
    /\ lock # None => step[lock] = "data"

\* The inductive invariant behind NoneAbandoned: the loop of a worker ends only
\* on the closed, empty channel, which nobody sends to any more.
LoopInv ==
    /\ NoSendOnClosed
    /\ \A w \in Workers : exited[w] => isClosed /\ storeCh = <<>>
    /\ lock # None => lock \in Workers /\ step[lock] = "data"

\* Close returns once called: the workers go on draining the channel while it
\* waits for the lock that blocked senders hold, and end when it is empty;
\* unless the process crashes, and is open again.
CloseReturns == closing = "locking" ~> closing \in {"closed", "open"}
==============================================================================
