------------------------------- MODULE Beacon --------------------------------
(***************************************************************************)
(* The beacon manager of beacon/manager.go with the state it fills         *)
(* (BeaconState) and the client it queries (MultiClient).  Init waits for  *)
(* a synced node, reads genesis and forks, and sets the state from one     *)
(* payload attributes event; Run then handles the events of all nodes in   *)
(* one goroutine, and starts goroutines that fetch the known validators.   *)
(*                                                                         *)
(* Nodes may lag behind one another, repeat events and disagree on the     *)
(* parent of a slot, so an event of any slot may come next.  A proposal    *)
(* slot of at least 2 is assumed (Run skips 0): the slot of the event is   *)
(* the one before it.                                                      *)
(***************************************************************************)
EXTENDS BeaconState, MultiClient

CONSTANTS
    Slots,      \* slots of the events
    BadHash,    \* a parent hash that does not parse
    Cached,     \* slots whose proposer's registration is in the cache
    Stored      \* slots whose proposer's registration is in the datastore

Manager == 0    \* the goroutine of Init and Run; the others are named by a slot

ASSUME BeaconAssumption ==
    /\ Slots \subseteq Nat \ {0}
    /\ SlotsPerEpoch \in Nat \ {0}
    /\ CapellaEpoch \in Nat \ {0}
    /\ Callers = Slots \cup {Manager}
    /\ NoHash \notin Hash /\ BadHash \notin Hash \cup {NoHash}

VARIABLES
    workload,    \* what is asked of the beacon package: events or a publication
    phase,       \* where Init is; "run" once it has returned, "failed" if it returned an error
    pc,          \* what is next for the event being handled
    event,       \* that event
    epochs,      \* epochs of which proposer duties were received
    background,  \* slots for which a goroutine fetches the known validators
    seen,        \* parents of which an event of the head slot was handled
    missed       \* those whose event was given up with an error

managerVars == <<workload, phase, pc, event, epochs, background, seen, missed>>
vars == <<stateVars, clientVars, managerVars>>

\* fits: the event has no more withdrawals than a payload may have.
Event == [slot : Slots, parent : Hash, fits : BOOLEAN] \cup [slot : Slots, parent : {BadHash}, fits : {TRUE}]

NoEvent == [slot |-> 0, parent |-> NoHash, fits |-> TRUE]

Init ==
    /\ StateInit
    /\ ClientInit
    /\ workload \in {"events", "publish"}
    /\ phase = "sync"
    /\ pc = "idle"
    /\ event = NoEvent
    /\ epochs = {}
    /\ background = {}
    /\ seen = {}
    /\ missed = {}

-----------------------------------------------------------------------------
(* Init *)

waitSynced ==
    /\ phase = "sync"
    /\ \E status \in [1 .. Nodes -> {"down", "syncing", "synced"}] :
          /\ SyncStatus(status) = "synced"
          /\ phase' = "genesis"
    /\ UNCHANGED <<stateVars, clientVars, workload, pc, event, epochs, background, seen, missed>>

\* A goroutine that needs an answer makes its list of clients.
Ask(c) ==
    /\ \/ c = Manager /\ (phase \in {"genesis", "fork"} \/ pc \in {"known", "current", "next"})
       \/ c \in background
    /\ StartQuery(c)
    /\ UNCHANGED <<stateVars, managerVars>>

Genesis ==
    /\ phase = "genesis"
    /\ \/ AllFail(Manager) /\ phase' = "failed"
       \/ AnsweredOnly(Manager) /\ phase' = "fork"
    /\ UNCHANGED <<stateVars, workload, pc, event, epochs, background, seen, missed>>

\* An empty schedule leaves every slot in an unknown fork.
initForkEpoch ==
    /\ phase = "fork"
    /\ \/ AllFail(Manager) /\ phase' = "failed" /\ UNCHANGED fork
       \/ /\ AnsweredOnly(Manager)
          /\ \E a \in Answers :
                /\ fork' = (a = "data")
                /\ phase' = IF a = "data" THEN "wait" ELSE "failed"
    /\ UNCHANGED <<headSlot, slots, parentBlockHash, duties, knownValidators>>
    /\ UNCHANGED <<workload, pc, event, epochs, background, seen, missed>>

-----------------------------------------------------------------------------
(* Events *)

\* An event moves the head to its slot if that is higher.  What was seen of
\* the slot before is done with then.
Take(e) ==
    /\ SetHeadSlotIfHigher(e.slot)
    /\ seen' = CASE e.slot > headSlot -> {e.parent}
                 [] e.slot = headSlot -> seen \cup {e.parent}
                 [] OTHER -> seen

Forget(e) == missed' = IF e.slot > headSlot THEN {} ELSE missed

\* Init takes an event.
InitEvent(e) ==
    /\ phase = "wait" /\ pc = "idle"
    /\ Take(e) /\ Forget(e)
    /\ event' = e
    /\ pc' = "known"
    /\ UNCHANGED <<slots, parentBlockHash, duties, knownValidators, fork, clientVars>>
    /\ UNCHANGED <<workload, phase, epochs, background>>

\* Run takes an event that does not parse, or is of a fork before Capella and
\* not a repetition: an error, but the head has moved.
BadEvent(e) ==
    /\ phase = "run" /\ pc = "idle"
    /\ \/ e.parent = BadHash
       \/ Version(e.slot) = "bellatrix" /\ (e.slot > headSlot \/ (e.slot = headSlot /\ e.parent # parentBlockHash))
    /\ Take(e)
    /\ missed' = CASE e.slot > headSlot -> {e.parent}
                   [] e.slot = headSlot -> missed \cup {e.parent}
                   [] OTHER -> missed
    /\ UNCHANGED <<slots, parentBlockHash, duties, knownValidators, fork, clientVars>>
    /\ UNCHANGED <<workload, phase, pc, event, epochs, background>>

\* ... an event of an older slot, or a second one of the same slot and parent.
OldEvent(e) ==
    /\ phase = "run" /\ pc = "idle"
    /\ e.parent # BadHash
    /\ e.slot < headSlot \/ (e.slot = headSlot /\ e.parent = parentBlockHash)
    /\ Take(e) /\ Forget(e)
    /\ UNCHANGED <<slots, parentBlockHash, duties, knownValidators, fork, clientVars>>
    /\ UNCHANGED <<workload, phase, pc, event, epochs, background>>

\* Mutated form of OtherParent: a second parent of a slot is taken for a repetition.
DroppedParent(e) ==
    /\ phase = "run" /\ pc = "idle"
    /\ e.parent # BadHash
    /\ e.slot = headSlot /\ e.parent # parentBlockHash /\ Version(e.slot) # "bellatrix"
    /\ Take(e) /\ Forget(e)
    /\ UNCHANGED <<slots, parentBlockHash, duties, knownValidators, fork, clientVars>>
    /\ UNCHANGED <<workload, phase, pc, event, epochs, background>>

\* ... an event of the head slot with another parent than the first: only
\* withdrawals and randao are kept.
OtherParent(e) ==
    /\ phase = "run" /\ pc = "idle"
    /\ e.parent # BadHash
    /\ e.slot = headSlot /\ e.parent # parentBlockHash /\ Version(e.slot) # "bellatrix"
    /\ Take(e) /\ Forget(e)
    /\ event' = e
    /\ pc' = "withdrawals"
    /\ UNCHANGED <<slots, parentBlockHash, duties, knownValidators, fork, clientVars>>
    /\ UNCHANGED <<workload, phase, epochs, background>>

\* ... an event of a new head slot.  The known validators are fetched in the
\* background when they are half an epoch old, which may be at any slot.
NewHead(e) ==
    /\ phase = "run" /\ pc = "idle"
    /\ e.parent # BadHash
    /\ e.slot > headSlot /\ Version(e.slot) # "bellatrix"
    /\ Take(e) /\ Forget(e)
    /\ event' = e
    /\ background' \in {background, background \cup {e.slot}}
    /\ parentBlockHash' = e.parent
    /\ pc' = "current"
    /\ UNCHANGED <<slots, duties, knownValidators, fork, clientVars>>
    /\ UNCHANGED <<workload, phase, epochs>>

processNewSlot(e) == BadEvent(e) \/ OldEvent(e) \/ OtherParent(e) \/ NewHead(e)

-----------------------------------------------------------------------------
(* The steps of handling an event *)

\* An error: Init returns it, Run logs it and goes on.
GiveUp ==
    /\ pc' = "idle"
    /\ event' = NoEvent
    /\ phase' = IF phase = "wait" THEN "failed" ELSE phase
    /\ missed' = IF event.slot = headSlot THEN missed \cup {event.parent} ELSE missed

\* updateKnownValidators in Init; after an error Init waits for another event.
InitValidators ==
    /\ pc = "known"
    /\ \/ /\ AllFail(Manager)
          /\ pc' = "idle" /\ event' = NoEvent
          /\ missed' = IF event.slot = headSlot THEN missed \cup {event.parent} ELSE missed
          /\ UNCHANGED knownValidators
       \/ /\ Answered(Manager)
          /\ knownValidators' = event.slot
          /\ pc' = "current"
          /\ UNCHANGED <<event, missed>>
    /\ UNCHANGED <<headSlot, slots, parentBlockHash, duties, fork>>
    /\ UNCHANGED <<workload, phase, epochs, background, seen>>

\* updateKnownValidators in the goroutine of a slot.
updateKnownValidators(slot) ==
    /\ slot \in background
    /\ \/ AllFail(slot) /\ UNCHANGED knownValidators
       \/ Answered(slot) /\ knownValidators' = slot
    /\ background' = background \ {slot}
    /\ UNCHANGED <<headSlot, slots, parentBlockHash, duties, fork>>
    /\ UNCHANGED <<workload, phase, pc, event, epochs, seen, missed>>

\* Mutated form of getProposerDuties: a query that fails is repeated.
RetryDuties ==
    /\ pc \in {"current", "next"}
    /\ \/ AllFail(Manager) /\ UNCHANGED <<pc, epochs>>
       \/ /\ Answered(Manager)
          /\ epochs' = epochs \cup {Epoch(event.slot) + IF pc = "next" THEN 1 ELSE 0}
          /\ pc' = IF pc = "current" THEN "next" ELSE "store"
    /\ UNCHANGED <<stateVars, workload, phase, event, background, seen, missed>>

\* The two queries of getProposerDuties.
getProposerDuties ==
    /\ pc \in {"current", "next"}
    /\ LET epoch == Epoch(event.slot) + IF pc = "next" THEN 1 ELSE 0
           got == IF pc = "next" THEN epochs ELSE {}
       IN  \/ AllFail(Manager) /\ GiveUp /\ epochs' = {}
           \/ /\ Answered(Manager)
              /\ \E a \in Answers : epochs' = IF a = "data" THEN got \cup {epoch} ELSE got
              /\ pc' = IF pc = "current" THEN "next" ELSE "store"
              /\ UNCHANGED <<phase, event, missed>>
    /\ UNCHANGED <<stateVars, workload, background, seen>>

\* A duty is kept if its proposer's registration is in the cache or can be
\* read from the datastore.
storeProposerDuties ==
    /\ pc = "store"
    /\ \E unread \in SUBSET Stored :
          duties' = [slot |-> event.slot,
                     entries |-> { s \in Cached \cup (Stored \ unread) : Epoch(s) \in epochs }]
    /\ pc' = "withdrawals"
    /\ epochs' = {}
    /\ UNCHANGED <<headSlot, slots, parentBlockHash, knownValidators, fork, clientVars>>
    /\ UNCHANGED <<workload, phase, event, background, seen, missed>>

\* updateWithdrawalsAndRandao; Init parses the hash only here.
WithdrawalsStep ==
    /\ pc = "withdrawals"
    /\ IF event.parent = BadHash \/ ~event.fits
       THEN GiveUp /\ UNCHANGED slots
       ELSE /\ SetWithdrawals(Attributes(event.slot, event.parent))
            /\ pc' = "randao"
            /\ UNCHANGED <<phase, event, missed>>
    /\ UNCHANGED <<headSlot, parentBlockHash, duties, knownValidators, fork, clientVars>>
    /\ UNCHANGED <<workload, epochs, background, seen>>

\* The event is done with; Init returns.
RandaoStep ==
    /\ pc = "randao"
    /\ SetRandao(Attributes(event.slot, event.parent))
    /\ pc' = "idle"
    /\ event' = NoEvent
    /\ phase' = "run"
    /\ UNCHANGED <<headSlot, parentBlockHash, duties, knownValidators, fork, clientVars>>
    /\ UNCHANGED <<workload, epochs, background, seen, missed>>

-----------------------------------------------------------------------------
Handle ==
    \/ Ask(Manager)
    \/ InitValidators
    \/ getProposerDuties
    \/ storeProposerDuties
    \/ WithdrawalsStep
    \/ RandaoStep

ManagerNext ==
    \/ waitSynced
    \/ Genesis
    \/ initForkEpoch
    \/ \E e \in Event : InitEvent(e) \/ processNewSlot(e)
    \/ Handle
    \/ \E s \in Slots : Ask(s) \/ updateKnownValidators(s)

PublishNext == PublishStep /\ UNCHANGED <<stateVars, managerVars>>

\* Queries and publications share nothing but the list of clients, so that a
\* behaviour has one or the other.
Next ==
    \/ workload = "events" /\ ManagerNext
    \/ workload = "publish" /\ PublishNext

\* Queries end: queryBeacon has a timeout.  Nothing makes nodes send events or
\* answer a publication; a goroutine that can go on does.
Fairness ==
    /\ WF_vars(workload = "events" /\ Handle)
    /\ WF_vars(workload = "publish" /\ TakeAnswer /\ UNCHANGED <<stateVars, managerVars>>)
    /\ \A n \in PublishClients : WF_vars(workload = "publish" /\ SendAnswer(n) /\ UNCHANGED <<stateVars, managerVars>>)

Spec == Init /\ [][Next]_vars /\ Fairness

-----------------------------------------------------------------------------
TypeOK ==
    /\ headSlot \in Slots \cup {-1}
    /\ slots \in [0 .. 1 -> [slot : Slots \cup {0}, withdrawals : SUBSET [slot : Slots, parent : Hash],
                              randao : SUBSET [slot : Slots, parent : Hash]]]
    /\ parentBlockHash \in Hash \cup {NoHash}
    /\ duties.slot \in Slots \cup {0}
    /\ knownValidators \in Slots \cup {0}
    /\ bestBeaconIndex \in 0 .. Nodes - 1
    /\ pc \in {"idle", "known", "current", "next", "store", "withdrawals", "randao"}
    /\ seen \subseteq Hash \cup {BadHash} /\ missed \subseteq seen

\* What the ring gives for a slot was announced for that slot: no attributes
\* are left over from the slot that had its place two slots before.
AttributesAreOfTheirSlot ==
    \A i \in 0 .. 1 :
        /\ slots[i].slot # 0 => slots[i].slot % 2 = i
        /\ \A a \in slots[i].withdrawals \cup slots[i].randao : a.slot = slots[i].slot

\* Whoever finds the randao of a slot and a parent finds its withdrawals too:
\* verifyBlock looks at the randao first and at the withdrawals after it.
RandaoHasWithdrawals ==
    \A s \in Slots, h \in Hash : Randao(s, h) # {} => Withdrawals(s, h) # {}

\* Between two events, the attributes of the head slot are known for every
\* parent some node announced and whose event was not given up.  After an event
\* that moved the head and did not parse, the hash compared with is still that
\* of an older slot, which a missed slot makes the right one: such a slot is
\* left out.
HeadAttributesKnown ==
    phase = "run" /\ pc = "idle" /\ BadHash \notin missed =>
        \A h \in seen \ missed : Randao(headSlot, h) # {}

\* ... and so are the duties, unless an event of the head slot was given up.
DutiesFollowHead ==
    phase = "run" /\ pc = "idle" /\ missed = {} => duties.slot = headSlot

\* The inductive invariants behind these.  The event that is being handled is
\* of the head slot, except in Init, which fills an empty ring ...
EventInv ==
    /\ phase \in {"sync", "genesis", "fork", "wait", "run", "failed"}
    /\ phase \in {"sync", "genesis", "fork"} => headSlot = -1
    /\ pc # "idle" => event \in Event /\ phase \in {"wait", "run"}
    /\ pc = "known" => phase = "wait"
    /\ pc # "idle" /\ phase = "run" => event.slot = headSlot
    /\ pc # "idle" /\ event.slot = headSlot => event.parent \in seen
    /\ phase = "wait" => \/ headSlot = -1 /\ pc = "idle"
                         \/ missed # {}
                         \/ pc # "idle" /\ event.slot = headSlot
    /\ phase = "run" => \/ missed # {}
                        \/ pc \in {"current", "next", "store"}
                        \/ duties.slot = headSlot
    /\ pc \in {"withdrawals", "randao"} /\ phase = "wait" => duties.slot = event.slot
    /\ pc # "idle" => event.slot <= headSlot

\* ... and the withdrawals of a parent are in their place of the ring before
\* its randao.
RingInv ==
    /\ \A i \in 0 .. 1 : slots[i].slot = 0 \/ slots[i].slot <= headSlot
    /\ phase # "run" /\ pc # "randao" => \A i \in 0 .. 1 : slots[i].slot = 0
    /\ \A i \in 0 .. 1 : \A a \in slots[i].randao : \E b \in slots[i].withdrawals : b.parent = a.parent
    /\ pc = "randao" =>
          /\ event.parent \in Hash
          /\ slots[event.slot % 2].slot = event.slot
          /\ \E b \in slots[event.slot % 2].withdrawals : b.parent = event.parent

\* The hash compared with is one that was seen of the head slot, once there is
\* one, and a parent that was seen and not missed is known or being handled.
HeadInv ==
    /\ phase \in {"wait", "run"} => fork
    /\ parentBlockHash = NoHash \/ (phase = "run" /\ Epoch(headSlot) >= CapellaEpoch)
    /\ parentBlockHash \in seen \cup {NoHash} \/ BadHash \in missed
    /\ BadHash \notin missed =>
          \A h \in seen \ missed :
              \/ Randao(headSlot, h) # {}
              \/ pc # "idle" /\ event.slot = headSlot /\ event.parent = h

\* The place that is kept is that of a client.
ListInv ==
    /\ bestBeaconIndex \in 0 .. Nodes - 1
    /\ list \in [Callers -> Seq(Nat)]
    /\ EveryClientIsAsked

\* Neither the head nor a place of the ring goes back to an older slot, though
\* nodes lag and SetWithdrawals writes whatever slot it is given.
NeverGoesBack ==
    [][headSlot' >= headSlot /\ \A i \in 0 .. 1 : slots'[i].slot >= slots[i].slot]_vars

\* The handling of every event comes to an end, in Init as in Run.
EventIsHandled == (pc # "idle") ~> (pc = "idle")
==============================================================================
