------------------------------ MODULE Shutdown -------------------------------
(***************************************************************************)
(* The warehouse (datastore/warehouse) and the end of the process (main):  *)
(* a signal ends the context, the server stops, and closemanager closes    *)
(* the store manager, the relay and the warehouse one after another.  The  *)
(* relay's goroutines (WaitGroup) hand requests to the warehouse, whose    *)
(* workers have a TimeoutWaitGroup of their own.                           *)
(***************************************************************************)
EXTENDS WaitGroup, Sequences

CONSTANTS
    Workers,      \* goroutines Run of the warehouse
    BufferSize    \* capacity of the channel of requests

ASSUME ShutdownAssumption == IsFiniteSet(Workers) /\ BufferSize \in Nat \ {0}

VARIABLES
    main,             \* how far the process is in closing
    stuck,            \* the server gave up waiting for its handlers
    expired,          \* the context of closemanager has ended
    requests,         \* the buffered requests, each early or late for Close
    stored,           \* goroutines that have handed over their request
    clean,            \* cleanShutdown is closed
    mode,             \* the loop each worker is in
    hand,             \* the request each worker is writing
    wpc, wrunning, wdone, wpanicked, wclosing, wzeroed, wlate   \* the workers' group

mainVars == <<main, stuck, expired>>
poolVars == <<wpc, wrunning, wdone, wpanicked, wclosing, wzeroed, wlate>>
workVars == <<clean, mode, hand>>
processVars == <<vars, mainVars, requests, stored, workVars, poolVars>>

Pool == INSTANCE WaitGroup WITH
    Asyncs <- Workers, pc <- wpc, running <- wrunning, done <- wdone, panicked <- wpanicked,
    closing <- wclosing, zeroed <- wzeroed, late <- wlate

\* RunParallel has started the workers; none has run yet.
ProcessInit ==
    /\ Init
    /\ main = "serving" /\ stuck = FALSE /\ expired = FALSE
    /\ requests = << >>
    /\ stored = {}
    /\ clean = FALSE
    /\ mode = [w \in Workers |-> "loop"]
    /\ hand = [w \in Workers |-> {}]
    /\ wpc = [w \in Workers |-> "started"]
    /\ wrunning = 0 /\ wdone = FALSE /\ wpanicked = FALSE /\ wclosing = "open"
    /\ wzeroed = FALSE /\ wlate = FALSE

-----------------------------------------------------------------------------
(* A goroutine of the relay *)

\* Handlers start goroutines until the server is down, and after that if it
\* gave up on them.  Bound: each goroutine runs once.
StartAsync(g) ==
    /\ g \notin stored
    /\ main \in {"serving", "server"} \/ stuck
    /\ Start(g)
    /\ UNCHANGED <<mainVars, requests, stored, workVars, poolVars>>

\* StoreAsync with a context that never ends: it waits for room.
StoreAsync(g) ==
    /\ pc[g] = "working" /\ g \notin stored
    /\ Len(requests) < BufferSize
    /\ requests' = Append(requests, IF clean THEN "late" ELSE "early")
    /\ stored' = stored \cup {g}
    /\ UNCHANGED <<vars, mainVars, workVars, poolVars>>

Leave(g) ==
    /\ g \in stored
    /\ DoneCount(g)
    /\ UNCHANGED <<mainVars, requests, stored, workVars, poolVars>>

RelayAsync(g) ==
    \/ (AddLook(g) \/ AddCount(g) \/ DoneClose(g)) /\ UNCHANGED <<mainVars, requests, stored, workVars, poolVars>>
    \/ StoreAsync(g) \/ Leave(g)

-----------------------------------------------------------------------------
(* A worker of the warehouse *)

\* Add, and after the loop Done.
Count(w) ==
    /\ \/ Pool!AddLook(w) \/ Pool!AddCount(w) \/ Pool!DoneClose(w)
       \/ mode[w] \in {"cancelled", "drained"} /\ Pool!DoneCount(w)
    /\ UNCHANGED <<vars, mainVars, requests, stored, workVars>>

Take(w) ==
    /\ wpc[w] = "working" /\ mode[w] \in {"loop", "drain"} /\ hand[w] = {} /\ requests # << >>
    /\ hand' = [hand EXCEPT ![w] = {Head(requests)}]
    /\ requests' = Tail(requests)
    /\ UNCHANGED <<vars, mainVars, stored, clean, mode, poolVars>>

\* The request is written, or it is lost and the error is logged.
handleRequest(w) ==
    /\ hand[w] # {}
    /\ hand' = [hand EXCEPT ![w] = {}]
    /\ UNCHANGED <<vars, mainVars, requests, stored, clean, mode, poolVars>>

\* Mutated form of Leaving: the loop that empties the channel is left at once.
LeavingFull(w) ==
    /\ wpc[w] = "working" /\ hand[w] = {}
    /\ \/ mode[w] = "loop" /\ main # "serving" /\ mode' = [mode EXCEPT ![w] = "cancelled"]
       \/ mode[w] = "loop" /\ clean /\ mode' = [mode EXCEPT ![w] = "drain"]
       \/ mode[w] = "drain" /\ mode' = [mode EXCEPT ![w] = "drained"]
    /\ UNCHANGED <<vars, mainVars, requests, stored, clean, hand, poolVars>>

\* Mutated form of Leaving: a worker that finds the channel empty returns.
LeavingIdle(w) ==
    /\ wpc[w] = "working" /\ hand[w] = {}
    /\ mode[w] = "loop" /\ requests = << >> /\ mode' = [mode EXCEPT ![w] = "drained"]
    /\ UNCHANGED <<vars, mainVars, requests, stored, clean, hand, poolVars>>

\* The process's context has ended: the worker returns, whatever is in the
\* channel.  cleanShutdown is closed: it empties the channel first.
Leaving(w) ==
    /\ wpc[w] = "working" /\ hand[w] = {}
    /\ \/ mode[w] = "loop" /\ main # "serving" /\ mode' = [mode EXCEPT ![w] = "cancelled"]
       \/ mode[w] = "loop" /\ clean /\ mode' = [mode EXCEPT ![w] = "drain"]
       \/ mode[w] = "drain" /\ requests = << >> /\ mode' = [mode EXCEPT ![w] = "drained"]
    /\ UNCHANGED <<vars, mainVars, requests, stored, clean, hand, poolVars>>

Run(w) == Count(w) \/ Take(w) \/ handleRequest(w) \/ Leaving(w)

-----------------------------------------------------------------------------
(* main and closemanager *)

Signal ==
    /\ main = "serving"
    /\ main' = "server"
    /\ UNCHANGED <<vars, stuck, expired, requests, stored, workVars, poolVars>>

\* srv.Shutdown returns when the handlers have, or at its deadline.
ServerShutdown ==
    /\ main = "server"
    /\ main' = "registrations"
    /\ stuck' \in BOOLEAN
    /\ UNCHANGED <<vars, expired, requests, stored, workVars, poolVars>>

\* Close of the store manager returns (StoreManager), and Close of the relay
\* starts to wait.
CloseRegistrations ==
    /\ main = "registrations"
    /\ main' = "relay"
    /\ CloseWait
    /\ UNCHANGED <<stuck, expired, requests, stored, workVars, poolVars>>

CloseRelay ==
    /\ main = "relay"
    /\ CloseFinished \/ (expired /\ CloseTimeout)
    /\ main' = "warehouse"
    /\ UNCHANGED <<stuck, expired, requests, stored, workVars, poolVars>>

CloseWarehouse ==
    /\ main = "warehouse"
    /\ \/ clean' = TRUE /\ Pool!CloseWait
       \/ (Pool!CloseFinished \/ (expired /\ Pool!CloseTimeout)) /\ UNCHANGED clean
    /\ UNCHANGED <<vars, mainVars, requests, stored, mode, hand>>

Expire ==
    /\ main \in {"registrations", "relay", "warehouse"} /\ ~expired
    /\ expired' = TRUE
    /\ UNCHANGED <<vars, main, stuck, requests, stored, workVars, poolVars>>

\* Mutated form of Exit: only the end of closemanager is waited for, which waits
\* in turn for the goroutines of the relay.
ExitFinished ==
    /\ main \in {"registrations", "relay", "warehouse"}
    /\ wclosing = "finished"
    /\ main' = "exit"
    /\ UNCHANGED <<vars, stuck, expired, requests, stored, workVars, poolVars>>

\* closemanager has finished, or its time is over.
Exit ==
    /\ main \in {"registrations", "relay", "warehouse"}
    /\ wclosing \in {"finished", "timeout"} \/ expired
    /\ main' = "exit"
    /\ UNCHANGED <<vars, stuck, expired, requests, stored, workVars, poolVars>>

closemanager == CloseRegistrations \/ CloseRelay \/ CloseWarehouse

-----------------------------------------------------------------------------
Gone == panicked \/ wpanicked \/ main = "exit"

ProcessNext ==
    /\ ~Gone
    /\ \/ \E g \in Asyncs : StartAsync(g) \/ RelayAsync(g)
       \/ \E w \in Workers : Run(w)
       \/ Signal \/ ServerShutdown \/ closemanager \/ Expire \/ Exit

\* Goroutines run, and deadlines come.  Each subscript has what the steps of its
\* action change.
ProcessFairness ==
    /\ \A g \in Asyncs : WF_<<pc, stored>>(~Gone /\ RelayAsync(g))
    /\ \A w \in Workers : WF_<<wpc, hand, mode>>(~Gone /\ Run(w))
    /\ WF_<<main, wclosing>>(~Gone /\ (ServerShutdown \/ closemanager))
    /\ WF_expired(~Gone /\ Expire) /\ WF_main(~Gone /\ Exit)

ProcessSpec == ProcessInit /\ [][ProcessNext]_processVars /\ ProcessFairness

-----------------------------------------------------------------------------
\* The workers' group, too, is right for one round: its channel is closed once,
\* and only when no worker is in its loop, unless a worker announces itself
\* after the others have left.
WorkersOneRound == Pool!CountIsExact /\ Pool!OneRound

\* When Close of the warehouse returns because the workers are done, every
\* request buffered before it has been handled, if no worker saw the end of the
\* process's context first and none announced itself late.
Drained ==
    wclosing = "finished" /\ ~wlate /\ (\A w \in Workers : mode[w] # "cancelled") =>
        /\ \A i \in DOMAIN requests : requests[i] # "early"
        /\ \A w \in Workers : "early" \notin hand[w]

\* The inductive invariant behind Drained, with that of the workers' group: a
\* worker is done with its request before it leaves, and one that has emptied
\* the channel after Close began leaves nothing early in it.
WorkInv ==
    /\ mode \in [Workers -> {"loop", "cancelled", "drain", "drained"}]
    /\ hand \in [Workers -> SUBSET {"early", "late"}]
    /\ requests \in Seq({"early", "late"})
    /\ \A w \in Workers :
          /\ hand[w] # {} => wpc[w] = "working" /\ mode[w] \in {"loop", "drain"}
          /\ wpc[w] \in {"idle", "closing"} => mode[w] \in {"cancelled", "drained"}
          /\ mode[w] \in {"drain", "drained"} => clean
          /\ mode[w] = "drained" => \A i \in DOMAIN requests : requests[i] # "early"
    /\ wzeroed => \E w \in Workers : mode[w] \in {"cancelled", "drained"}
    /\ wclosing = "finished" => wdone

\* closemanager closes the relay before the warehouse.  When the first Close has
\* seen the relay's goroutines leave and the second the workers, with nobody
\* announced late in either group and no worker cancelled, no request is left in
\* the channel or in a worker's hands: none came after the workers had left.
NothingLost ==
    /\ closing = "finished" /\ ~late
    /\ wclosing = "finished" /\ ~wlate
    /\ \A w \in Workers : mode[w] # "cancelled"
    => requests = << >> /\ \A w \in Workers : hand[w] = {}

\* No worker leaves its loop before the signal, so that StoreAsync, which waits
\* for room with a context that never ends, waits for workers that still run.
WorkersServe ==
    main = "serving" => \A w \in Workers : mode[w] = "loop" /\ wpc[w] \notin {"idle", "closing"}

\* The inductive invariant behind both, with those of the two groups: a request
\* is late only if it came after the Close of the warehouse began, and Close of
\* the relay, if nobody was late for it, lets no goroutine hand one over then.
OrderInv ==
    /\ main = "serving" => \A w \in Workers : mode[w] = "loop"
    /\ clean => main \in {"warehouse", "exit"}
    /\ closing = "finished" => done
    /\ ~clean \/ (closing = "finished" /\ ~late) =>
          /\ \A i \in DOMAIN requests : requests[i] = "early"
          /\ \A w \in Workers : hand[w] \subseteq {"early"}

\* While the relay serves, the goroutines that hand a request to the warehouse
\* all get rid of it, though StoreAsync may find the channel full and has no
\* context that ends, unless the relay's group panics.
AsyncsEnd == (Working # {}) ~> (Working = {} \/ main # "serving" \/ Gone)

\* After the signal the process ends, whichever goroutine hangs.
ShutdownEnds == (main # "serving") ~> Gone
==============================================================================
