---------------------------- MODULE MultiClient ------------------------------
(***************************************************************************)
(* MultiBeaconClient of beacon/client/multi.go over the nodes' clients of  *)
(* beacon/client/client.go.  A query asks the nodes one after the other,   *)
(* the best one first, and keeps the place in its list of the node that    *)
(* answered.  A query starts when the list is made and ends with the first *)
(* answer or with the last error; queries of several goroutines overlap.   *)
(*                                                                         *)
(* PublishBlock sends the block to every node at once and counts their     *)
(* answers, which come through a channel.  GetPayload calls it with a      *)
(* context that never ends.                                                *)
(***************************************************************************)
EXTENDS Integers, Sequences, FiniteSets

CONSTANTS
    Nodes,       \* number of clients
    V2Nodes,     \* number of PublishV2Clients
    RespSize,    \* capacity of the channel of answers
    Callers      \* goroutines that query the beacon nodes

ASSUME MultiClientAssumption ==
    /\ Nodes \in Nat \ {0}
    /\ V2Nodes \in Nat
    /\ RespSize \in Nat \ {0}

VARIABLES
    bestBeaconIndex,
    list,          \* the clients each caller asks, in order; << >> when it asks none
    publish,       \* where PublishBlock is, and what it returned
    asked,         \* clients the block was sent to that have not answered
    sending,       \* answers not yet in the channel
    resp,          \* the channel: TRUE for a nil error
    received,      \* answers taken from it
    took           \* clients that took the block

queryVars == <<bestBeaconIndex, list>>
publishVars == <<publish, asked, sending, resp, received, took>>
clientVars == <<queryVars, publishVars>>

Clients == [i \in 1 .. Nodes |-> i]
PublishClients == 1 .. (Nodes + V2Nodes)

ClientInit ==
    /\ bestBeaconIndex = 0
    /\ list = [c \in Callers |-> << >>]
    /\ publish = "idle"
    /\ asked = {} /\ sending = {} /\ resp = << >> /\ received = 0 /\ took = {}

\* Mutated form of clientsByLastResponse: the first client is overwritten.
OverwriteFirst ==
    IF bestBeaconIndex = 0 THEN Clients
    ELSE [Clients EXCEPT ![1] = Clients[bestBeaconIndex + 1]]

clientsByLastResponse ==
    IF bestBeaconIndex = 0 THEN Clients
    ELSE [Clients EXCEPT ![1] = Clients[bestBeaconIndex + 1], ![bestBeaconIndex + 1] = Clients[1]]

StartQuery(c) ==
    /\ list[c] = << >>
    /\ list' = [list EXCEPT ![c] = clientsByLastResponse]
    /\ UNCHANGED <<bestBeaconIndex, publishVars>>

Asking(c) == list[c] # << >>

\* Every client of the list failed: ErrNodesUnavailable, or the last error.
AllFail(c) ==
    /\ Asking(c)
    /\ list' = [list EXCEPT ![c] = << >>]
    /\ UNCHANGED <<bestBeaconIndex, publishVars>>

\* GetProposerDuties and KnownValidators: the clients before the i-th failed.
Answered(c) ==
    /\ Asking(c)
    /\ \E i \in 1 .. Len(list[c]) : bestBeaconIndex' = i - 1
    /\ list' = [list EXCEPT ![c] = << >>]
    /\ UNCHANGED publishVars

\* Genesis and GetForkSchedule do not keep the place.
AnsweredOnly(c) ==
    /\ Asking(c)
    /\ list' = [list EXCEPT ![c] = << >>]
    /\ UNCHANGED <<bestBeaconIndex, publishVars>>

\* SyncStatus asks every client at once and reports a node that is synced; it
\* answers ErrBeaconNodeSyncing even if no node has answered.
SyncStatus(status) ==
    IF \E n \in 1 .. Nodes : status[n] = "synced" THEN "synced" ELSE "ErrBeaconNodeSyncing"

\* What queryBeacon makes of an answer: a status of 404 or above is an empty
\* answer without error.
Answers == {"data", "empty"}

-----------------------------------------------------------------------------
PublishBlock ==
    /\ publish = "idle"
    /\ publish' = "waiting"
    /\ asked' = PublishClients
    /\ UNCHANGED <<queryVars, sending, resp, received, took>>

\* publishAsync and publishV2Async: a node answers 200, or with an error (202
\* is one) ...
NodeAnswers(n) ==
    /\ n \in asked
    /\ asked' = asked \ {n}
    /\ \E ok \in BOOLEAN :
          /\ sending' = sending \cup {<<n, ok>>}
          /\ took' = IF ok THEN took \cup {n} ELSE took
    /\ UNCHANGED <<queryVars, publish, resp, received>>

\* ... and the answer goes into the channel once there is room.
SendAnswer(n) ==
    /\ Len(resp) < RespSize
    /\ \E ok \in BOOLEAN :
          /\ <<n, ok>> \in sending
          /\ sending' = sending \ {<<n, ok>>}
          /\ resp' = Append(resp, ok)
    /\ UNCHANGED <<queryVars, publish, asked, received, took>>

\* Mutated form of TakeAnswer: the error is returned one answer too early.
TakeAnswerEarly ==
    /\ publish = "waiting"
    /\ resp # << >>
    /\ resp' = Tail(resp)
    /\ received' = received + 1
    /\ publish' = IF Head(resp) THEN "nil"
                  ELSE IF received' = Nodes + V2Nodes - 1 THEN "error" ELSE "waiting"
    /\ UNCHANGED <<queryVars, asked, sending, took>>

\* Mutated form of TakeAnswer: only the last answer is returned.
TakeAnswerLast ==
    /\ publish = "waiting"
    /\ resp # << >>
    /\ resp' = Tail(resp)
    /\ received' = received + 1
    /\ publish' = IF received' # Nodes + V2Nodes THEN "waiting"
                  ELSE IF Head(resp) THEN "nil" ELSE "error"
    /\ UNCHANGED <<queryVars, asked, sending, took>>

TakeAnswer ==
    /\ publish = "waiting"
    /\ resp # << >>
    /\ resp' = Tail(resp)
    /\ received' = received + 1
    /\ publish' = IF Head(resp) THEN "nil"
                  ELSE IF received' = Nodes + V2Nodes THEN "error" ELSE "waiting"
    /\ UNCHANGED <<queryVars, asked, sending, took>>

PublishStep ==
    \/ PublishBlock
    \/ \E n \in PublishClients : NodeAnswers(n) \/ SendAnswer(n)
    \/ TakeAnswer

-----------------------------------------------------------------------------
\* Every query asks every client once, whatever place other queries keep while
\* it runs: the swap in clientsByLastResponse loses no client.
EveryClientIsAsked ==
    \A c \in Callers : Asking(c) =>
        /\ Len(list[c]) = Nodes
        /\ \A n \in 1 .. Nodes : \E i \in 1 .. Nodes : list[c][i] = n

\* PublishBlock returns nil only if a node took the block, and an error only
\* after every node has answered with one: an error never hides a publication.
PublishIsHonest ==
    /\ publish = "nil" => took # {}
    /\ publish = "error" => took = {} /\ asked = {}

\* The inductive invariant behind PublishIsHonest: every answer of a node is in
\* one place, and one that took the block is not among those received before
\* PublishBlock returns nil.
PublishInv ==
    /\ publish \in {"idle", "waiting", "nil", "error"}
    /\ asked \subseteq PublishClients /\ took \subseteq PublishClients
    /\ sending \subseteq PublishClients \X BOOLEAN
    /\ \A n \in asked, ok \in BOOLEAN : <<n, ok>> \notin sending
    /\ resp \in Seq(BOOLEAN) /\ received \in Nat
    /\ publish # "idle" =>
          Cardinality(asked) + Cardinality(sending) + Len(resp) + received = Nodes + V2Nodes
    /\ publish = "idle" => asked = {} /\ sending = {} /\ resp = << >> /\ received = 0 /\ took = {}
    /\ publish # "nil" => \A n \in took : <<n, TRUE>> \in sending \/ \E i \in DOMAIN resp : resp[i]
    /\ \A n \in PublishClients : <<n, TRUE>> \in sending => n \in took
    /\ (\E i \in DOMAIN resp : resp[i]) => took # {}
    /\ publish = "nil" => took # {}
    /\ publish = "error" => received = Nodes + V2Nodes

\* PublishBlock does not wait for an answer that cannot come: it has not counted
\* all of them, and the next one is due from a node, about to be sent or in the
\* channel.  And with room for every client's answer in the channel, a goroutine
\* that has one finds room for it, also after PublishBlock has returned.
AnswerToCome ==
    /\ publish = "waiting" =>
          received < Nodes + V2Nodes /\ (asked # {} \/ sending # {} \/ resp # << >>)
    /\ Nodes + V2Nodes <= RespSize /\ sending # {} => Len(resp) < RespSize

\* The block that a node has taken is reported as published, even if the other
\* nodes never answer: the requests carry no timeout.  And no goroutine stays
\* blocked on the channel after PublishBlock has returned, as long as there are
\* no more clients than the channel has places.
PublishEnds ==
    /\ (took # {}) ~> (publish = "nil")
    /\ (sending # {}) ~> (sending = {})
==============================================================================
