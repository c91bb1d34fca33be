------------------------------ MODULE WaitGroup ------------------------------
(***************************************************************************)
(* TimeoutWaitGroup of structs/waitgroup.go, with the users it has in the  *)
(* relay: goroutines started by GetPayload and storeSubmission announce    *)
(* themselves with Add and leave with Done, and Close of relay/relay.go    *)
(* waits on the channel that Done closes, or for its context to end.       *)
(*                                                                         *)
(* Add looks at the channel and then adds, and Done subtracts and then     *)
(* closes the channel: each is two steps, with no lock around them.        *)
(***************************************************************************)
EXTENDS Integers, FiniteSets

CONSTANTS
    Asyncs,         \* goroutines of the relay that may be running at a time
    CounterBound    \* bound: none starts once the counter is below it

ASSUME WaitGroupAssumption == IsFiniteSet(Asyncs) /\ CounterBound \in Int

VARIABLES
    pc,         \* where each goroutine is
    running,    \* the counter
    done,       \* the channel is closed
    panicked,   \* the channel was closed twice and the program is gone
    closing,    \* where Close is
    zeroed,     \* history: the counter has come back to zero
    late        \* history: some Add took a step after that

group == <<running, done>>
vars == <<pc, group, panicked, closing, zeroed, late>>

Init ==
    /\ pc = [g \in Asyncs |-> "idle"]
    /\ running = 0
    /\ done = FALSE
    /\ panicked = FALSE
    /\ closing = "open"
    /\ zeroed = FALSE
    /\ late = FALSE

Goto(g, l) == pc' = [pc EXCEPT ![g] = l]

-----------------------------------------------------------------------------
\* A handler starts the goroutine.  In GetPayload the goroutine itself calls
\* Add; in storeSubmission the handler does, just before it starts it.
Start(g) ==
    /\ pc[g] = "idle"
    /\ running >= CounterBound
    /\ Goto(g, "started")
    /\ UNCHANGED <<group, panicked, closing, zeroed, late>>

\* Add looks at the channel: once it is closed nothing is counted any more.
AddLook(g) ==
    /\ pc[g] = "started"
    /\ Goto(g, IF done THEN "working" ELSE "adding")
    /\ late' = (late \/ zeroed)
    /\ UNCHANGED <<group, panicked, closing, zeroed>>

\* Add adds to the counter.
AddCount(g) ==
    /\ pc[g] = "adding"
    /\ running' = running + 1
    /\ Goto(g, "working")
    /\ late' = (late \/ zeroed)
    /\ UNCHANGED <<done, panicked, closing, zeroed>>

\* Mutated form of DoneCount: the counter is compared before it is lowered.
DoneCountOne(g) ==
    /\ pc[g] = "working"
    /\ running' = running - 1
    /\ Goto(g, IF running' <= 1 THEN "closing" ELSE "idle")
    /\ zeroed' = (zeroed \/ running' = 0)
    /\ UNCHANGED <<done, panicked, closing, late>>

\* Done subtracts, and goes on to close the channel if that gives zero.
DoneCount(g) ==
    /\ pc[g] = "working"
    /\ running' = running - 1
    /\ Goto(g, IF running' = 0 THEN "closing" ELSE "idle")
    /\ zeroed' = (zeroed \/ running' = 0)
    /\ UNCHANGED <<done, panicked, closing, late>>

\* Done closes the channel; closing it a second time panics.
DoneClose(g) ==
    /\ pc[g] = "closing"
    /\ done' = TRUE
    /\ panicked' = done
    /\ Goto(g, "idle")
    /\ UNCHANGED <<running, closing, zeroed, late>>

-----------------------------------------------------------------------------
\* Close starts to wait.
CloseWait ==
    /\ closing = "open"
    /\ closing' = "waiting"
    /\ UNCHANGED <<pc, group, panicked, zeroed, late>>

\* "Relay processes finished"
CloseFinished ==
    /\ closing = "waiting"
    /\ done
    /\ closing' = "finished"
    /\ UNCHANGED <<pc, group, panicked, zeroed, late>>

\* The shutdown timeout ends first.
CloseTimeout ==
    /\ closing = "waiting"
    /\ closing' = "timeout"
    /\ UNCHANGED <<pc, group, panicked, zeroed, late>>

Async(g) == Start(g) \/ AddLook(g) \/ AddCount(g) \/ DoneCount(g) \/ DoneClose(g)

Next ==
    /\ ~panicked
    /\ \/ \E g \in Asyncs : Async(g)
       \/ CloseWait \/ CloseFinished \/ CloseTimeout

Spec == Init /\ [][Next]_vars

-----------------------------------------------------------------------------
TypeOK ==
    /\ pc \in [Asyncs -> {"idle", "started", "adding", "working", "closing"}]
    /\ running \in Int
    /\ running <= Cardinality(Asyncs)
    /\ done \in BOOLEAN
    /\ panicked \in BOOLEAN
    /\ closing \in {"open", "waiting", "finished", "timeout"}
    /\ zeroed \in BOOLEAN
    /\ late \in BOOLEAN

Working == { g \in Asyncs : pc[g] = "working" }

\* Until the channel is closed the counter is the number of goroutines that
\* have added themselves and not yet left; after that it may fall behind it,
\* as Add no longer counts and Done still does, and never runs ahead.
CountIsExact ==
    /\ running <= Cardinality(Working)
    /\ ~done => running = Cardinality(Working)

\* The group keeps its promise for one round: if no Add takes a step after
\* the counter has come back to zero, the channel is closed only when no
\* counted goroutine is at work, and it is closed once.
OneRound == ~late => ~panicked /\ (done => Working = {})

\* The inductive invariant: before the counter comes back to zero nobody
\* closes the channel; in the round that ends there, nobody works any more
\* and one goroutine at most is about to close it.
IInv ==
    /\ TypeOK
    /\ CountIsExact
    /\ ~zeroed => ~late /\ ~done /\ ~panicked /\ \A g \in Asyncs : pc[g] # "closing"
    /\ (zeroed /\ ~late) =>
          /\ Working = {}
          /\ ~panicked
          /\ \A g \in Asyncs : pc[g] = "closing" =>
                ~done /\ \A h \in Asyncs : pc[h] = "closing" => g = h
==============================================================================
