--------------------------------- MODULE Sim ---------------------------------
(***************************************************************************)
(* Validation of blocks by simulation (sim/): the fallback over clients,   *)
(* and the websocket client with its list of connections, one goroutine    *)
(* KeepConnection per address, its table of pending requests and its pool  *)
(* of response channels.                                                   *)
(*                                                                         *)
(* A verdict is named by the block it is about.  The RPC and HTTP clients  *)
(* answer for the block they are given, or fail; neither failure is one    *)
(* after which the fallback tries on.                                      *)
(***************************************************************************)
EXTENDS Integers, Sequences, FiniteSets

CONSTANTS
    Keepers,     \* addresses of websocket nodes
    Requests,    \* calls of ValidateBlock, each for a block of its own
    Clients,     \* the kinds of the clients, in the order of the fallback
    Retry,       \* tryOtherConnection
    InputSize,   \* capacity of the channel of outgoing messages
    MaxConns     \* bound: connections made

ASSUME SimAssumption ==
    /\ IsFiniteSet(Keepers) /\ IsFiniteSet(Requests)
    /\ Clients \in Seq({"rpc", "ws", "http"}) /\ Clients # << >>
    /\ Retry \in BOOLEAN /\ InputSize \in Nat \ {0} /\ MaxConns \in Nat
    /\ "none" \notin Requests /\ "error" \notin Requests

\* A Conn is the address it is for and its number; messageID starts at 2, and 1
\* is the identifier of the health check.
Conns == Keepers \X (1 .. MaxConns)
Channels == Conns \X (1 .. Cardinality(Requests))

VARIABLES
    list, next,           \* ReConn: the connections and the round-robin counter
    keep, made, place,    \* KeepConnection: where it is, its connections, connID
    open, healthy,        \* connections that are not closed, that say they are healthy
    input,                \* per address, messages to be written
    messageID, cache,     \* per connection, the last identifier and the pending requests
    buf, decoding,        \* what is in each response channel, what decoders hold
    wire,                 \* messages a node has and has not answered
    call, ended,          \* the calls, and those whose context has ended
    result,               \* the block a call's verdict is about
    panicked

keepVars == <<list, keep, made, place, open, healthy>>
connVars == <<input, messageID, cache, buf, decoding, wire>>
callVars == <<next, call, ended, result>>
vars == <<keepVars, connVars, callVars, panicked>>

NoCall == [pc |-> "idle", client |-> 1, conn |-> << >>, id |-> 0, ch |-> << >>, n |-> 0]

Init ==
    /\ list = << >> /\ next = 0
    /\ keep = [k \in Keepers |-> "new"]
    /\ made = [k \in Keepers |-> 0]
    /\ place = [k \in Keepers |-> 0]
    /\ open = {} /\ healthy = {}
    /\ input = [k \in Keepers |-> << >>]
    /\ messageID = [c \in Conns |-> 2]
    /\ cache = {} /\ decoding = {} /\ wire = {}
    /\ buf = [ch \in Channels |-> {}]
    /\ call = [r \in Requests |-> NoCall]
    /\ ended = {}
    /\ result = [r \in Requests |-> "none"]
    /\ panicked = "no"

-----------------------------------------------------------------------------
(* KeepConnection, one goroutine per address *)

Current(k) == <<k, made[k]>>
Made == Cardinality({ c \in Conns : c[2] <= made[c[1]] })

Enlist(k) ==
    /\ keep[k] = "new" /\ Made < MaxConns
    /\ made' = [made EXCEPT ![k] = @ + 1]
    /\ list' = Append(list, <<k, made[k] + 1>>)
    /\ place' = [place EXCEPT ![k] = Len(list) + 1]
    /\ keep' = [keep EXCEPT ![k] = "dial"]
    /\ UNCHANGED <<open, healthy, connVars, callVars, panicked>>

\* Connect dials and starts the handlers, and then marks the connection healthy.
Dial(k) ==
    /\ keep[k] = "dial"
    /\ open' = open \cup {Current(k)}
    /\ keep' = [keep EXCEPT ![k] = "mark"]
    /\ UNCHANGED <<list, made, place, healthy, connVars, callVars, panicked>>

MarkHealthy(k) ==
    /\ keep[k] = "mark"
    /\ healthy' = healthy \cup {Current(k)}
    /\ keep' = [keep EXCEPT ![k] = "up"]
    /\ UNCHANGED <<list, made, place, open, connVars, callVars, panicked>>

\* Mutated form of Delist: a failed dial leaves its connection in the list.
DelistDone(k) ==
    /\ \/ keep[k] = "dial" /\ UNCHANGED list
       \/ /\ keep[k] = "up" /\ Current(k) \notin open /\ place[k] <= Len(list)
          /\ list' = SubSeq([list EXCEPT ![place[k]] = list[Len(list)]], 1, Len(list) - 1)
    /\ keep' = [keep EXCEPT ![k] = "new"]
    /\ UNCHANGED <<made, place, open, healthy, connVars, callVars, panicked>>

\* The dial failed or the connection is done: the last of the list goes where
\* this one was when it was added.
Delist(k) ==
    /\ \/ keep[k] = "dial"
       \/ keep[k] = "up" /\ Current(k) \notin open
    /\ IF Len(list) = 1 THEN list' = << >> /\ UNCHANGED panicked
       ELSE IF place[k] <= Len(list)
       THEN /\ list' = SubSeq([list EXCEPT ![place[k]] = list[Len(list)]], 1, Len(list) - 1)
            /\ UNCHANGED panicked
       ELSE panicked' = "index" /\ UNCHANGED list
    /\ keep' = [keep EXCEPT ![k] = "new"]
    /\ UNCHANGED <<made, place, open, healthy, connVars, callVars>>

\* A write fails or nothing was read for too long: writeHandler closes the
\* connection, and what the node has not answered is lost.
Close(c) ==
    /\ c \in open
    /\ open' = open \ {c}
    /\ healthy' = healthy \ {c}
    /\ wire' = { m \in wire : m.through # c }
    /\ UNCHANGED <<list, keep, made, place, input, messageID, cache, buf, decoding, callVars, panicked>>

-----------------------------------------------------------------------------
(* Messages *)

writeHandler(k) ==
    /\ Current(k) \in open /\ input[k] # << >>
    /\ wire' = wire \cup {[through |-> Current(k), id |-> Head(input[k]).id, req |-> Head(input[k]).req]}
    /\ input' = [input EXCEPT ![k] = Tail(@)]
    /\ UNCHANGED <<keepVars, messageID, cache, buf, decoding, callVars, panicked>>

\* The node answers; a decoder of the connection looks the identifier up.
rpcDecoder(m) ==
    /\ m \in wire
    /\ wire' = wire \ {m}
    /\ LET found == { e \in cache : e.conn = m.through /\ e.id = m.id }
       IN  /\ cache' = cache \ found
           /\ decoding' = decoding \cup { [ch |-> e.ch, req |-> m.req] : e \in found }
    /\ UNCHANGED <<keepVars, input, messageID, buf, callVars, panicked>>

\* It sends without waiting; the answer is dropped if the channel is full, and
\* may be if the connection has been closed.
Deliver(d) ==
    /\ d \in decoding
    /\ decoding' = decoding \ {d}
    /\ \/ buf[d.ch] = {} /\ buf' = [buf EXCEPT ![d.ch] = {d.req}]
       \/ (buf[d.ch] # {} \/ d.ch[1] \notin open) /\ UNCHANGED buf
    /\ UNCHANGED <<keepVars, input, messageID, cache, wire, callVars, panicked>>

-----------------------------------------------------------------------------
(* ValidateBlock *)

Goto(r, pc) == call' = [call EXCEPT ![r].pc = pc]

Return(r, about) ==
    /\ call' = [call EXCEPT ![r] = [NoCall EXCEPT !.pc = "done", !.conn = call[r].conn]]
    /\ result' = [result EXCEPT ![r] = about]

\* The fallback goes to the next client, or ends with the last error; it goes
\* to no client once the context has ended.
KeepTrying(r) ==
    IF r \in ended \/ call[r].client = Len(Clients) THEN Return(r, "error")
    ELSE call' = [call EXCEPT ![r].client = @ + 1, ![r].pc = "try"] /\ UNCHANGED result

ValidateBlock(r) ==
    /\ call[r].pc = "idle"
    /\ Goto(r, "try")
    /\ UNCHANGED <<keepVars, connVars, next, ended, result, panicked>>

\* An RPC or HTTP client.
TryNode(r) ==
    /\ call[r].pc = "try" /\ Clients[call[r].client] # "ws"
    /\ Return(r, "error") \/ (r \notin ended /\ Return(r, r))
    /\ UNCHANGED <<keepVars, connVars, next, ended, panicked>>

\* trySend, up to the request.
trySend(r, c, n) ==
    IF r \in ended THEN Return(r, "error")
    ELSE /\ call' = [call EXCEPT ![r].pc = "send", ![r].conn = c, ![r].n = n]
         /\ UNCHANGED result

\* The websocket client takes the next connection of the list; with no
\* connection in it the index is taken modulo zero.
Get(r) ==
    /\ call[r].pc = "try" /\ Clients[call[r].client] = "ws"
    /\ IF r \in ended THEN Return(r, "error") /\ UNCHANGED <<next, panicked>>
       ELSE /\ next' = next + 1
            /\ IF list = << >> THEN panicked' = "divide" /\ UNCHANGED <<call, result>>
               ELSE /\ LET c == list[(next % Len(list)) + 1]
                       IN  IF c \in healthy THEN trySend(r, c, next + 1) ELSE KeepTrying(r)
                    /\ UNCHANGED panicked
    /\ UNCHANGED <<keepVars, connVars, ended>>

\* The response channels a connection has made and nobody holds, and a new one.
Held == { call[r].ch : r \in { q \in Requests : call[q].pc = "wait" } }
Pool(c) == { ch \in Channels : ch[1] = c /\ ch[2] <= messageID[c] - 1 } \ Held

\* Mutated form of RequestRPC: the counter is read and raised in two steps, and
\* two requests may be given one identifier.
RequestOldID(r) ==
    LET c == call[r].conn
    IN  /\ call[r].pc = "send" /\ Len(input[c[1]]) < InputSize
        /\ \E ch \in Pool(c), id \in {messageID[c], messageID[c] + 1} \ {2} :
              /\ cache' = { e \in cache : e.conn # c \/ e.id # id } \cup {[conn |-> c, id |-> id, ch |-> ch]}
              /\ call' = [call EXCEPT ![r].pc = "wait", ![r].id = id, ![r].ch = ch]
              /\ input' = [input EXCEPT ![c[1]] = Append(@, [id |-> id, req |-> r])]
        /\ messageID' = [messageID EXCEPT ![c] = @ + 1]
        /\ UNCHANGED <<keepVars, buf, decoding, wire, next, ended, result, panicked>>

\* A channel of the pool, used before or new; the send waits for room whatever
\* becomes of the context.
RequestRPC(r) ==
    LET c == call[r].conn
        id == messageID[c] + 1
    IN  /\ call[r].pc = "send" /\ Len(input[c[1]]) < InputSize
        /\ \E ch \in Pool(c) :
              /\ cache' = cache \cup {[conn |-> c, id |-> id, ch |-> ch]}
              /\ call' = [call EXCEPT ![r].pc = "wait", ![r].id = id, ![r].ch = ch]
        /\ messageID' = [messageID EXCEPT ![c] = id]
        /\ input' = [input EXCEPT ![c[1]] = Append(@, [id |-> id, req |-> r])]
        /\ UNCHANGED <<keepVars, buf, decoding, wire, next, ended, result, panicked>>

Receive(r) ==
    /\ call[r].pc = "wait"
    /\ \E about \in buf[call[r].ch] : Return(r, about)
    /\ buf' = [buf EXCEPT ![call[r].ch] = {}]
    /\ UNCHANGED <<keepVars, input, messageID, cache, decoding, wire, next, ended, panicked>>

\* The context ends first: the request is forgotten and its channel goes back
\* to the pool.
GiveUp(r) ==
    /\ call[r].pc = "wait" /\ r \in ended
    /\ cache' = { e \in cache : e.conn # call[r].conn \/ e.id # call[r].id }
    /\ Goto(r, "failed")
    /\ UNCHANGED <<keepVars, input, messageID, buf, decoding, wire, next, ended, result, panicked>>

\* TryOtherThan takes n, the count of all requests, for a place in the list.
TryOtherThan(n) ==
    LET c == IF Len(list) - 1 > n THEN list[n + 2] ELSE list[1]
    IN  IF Len(list) < 2 THEN {} ELSE {c} \cap healthy

\* Mutated form of TryOther: the context is not looked at again.
TryOtherAnyway(r) ==
    /\ call[r].pc = "failed"
    /\ IF Retry /\ TryOtherThan(call[r].n) # {}
       THEN \E c \in TryOtherThan(call[r].n) : call' = [call EXCEPT ![r].pc = "send", ![r].conn = c] /\ UNCHANGED result
       ELSE KeepTrying(r)
    /\ UNCHANGED <<keepVars, connVars, next, ended, panicked>>

TryOther(r) ==
    /\ call[r].pc = "failed"
    /\ IF Retry /\ TryOtherThan(call[r].n) # {}
       THEN \E c \in TryOtherThan(call[r].n) : trySend(r, c, call[r].n)
       ELSE KeepTrying(r)
    /\ UNCHANGED <<keepVars, connVars, next, ended, panicked>>

\* The builder goes away, or its handler has returned for another reason.
ContextEnds(r) ==
    /\ call[r].pc \notin {"idle", "done"} /\ r \notin ended
    /\ ended' = ended \cup {r}
    /\ UNCHANGED <<keepVars, connVars, next, call, result, panicked>>

-----------------------------------------------------------------------------
Step(r) == TryNode(r) \/ Get(r) \/ RequestRPC(r) \/ Receive(r) \/ GiveUp(r) \/ TryOther(r)

Next ==
    /\ panicked = "no"
    /\ \/ \E k \in Keepers : Enlist(k) \/ Dial(k) \/ MarkHealthy(k) \/ Delist(k) \/ writeHandler(k)
       \/ \E c \in open : Close(c)
       \/ \E m \in wire : rpcDecoder(m)
       \/ \E d \in decoding : Deliver(d)
       \/ \E r \in Requests : ValidateBlock(r) \/ Step(r) \/ ContextEnds(r)

Spec == Init /\ [][Next]_vars

-----------------------------------------------------------------------------
TypeOK ==
    /\ list \in Seq(Conns)
    /\ \A k \in Keepers : keep[k] \in {"new", "dial", "mark", "up"} /\ Len(input[k]) <= InputSize
    /\ healthy \cup open \subseteq Conns
    /\ \A r \in Requests : /\ call[r].pc \in {"idle", "try", "send", "wait", "failed", "done"}
                           /\ result[r] # "none" <=> call[r].pc = "done"

\* The list has one entry for every address that is dialing or connected,
\* whichever they are: it is empty, and the next request panics, only while
\* every KeepConnection is between two connections.  With at most two addresses
\* no KeepConnection looks past its end.
ListIsCounted ==
    /\ panicked # "index" => Len(list) = Cardinality({ k \in Keepers : keep[k] # "new" })
    /\ Cardinality(Keepers) <= 2 => panicked # "index"

\* A call takes the verdict on another block for its own only if that block's
\* call had given up, had been sent by another connection (identifiers start
\* again with each), or had itself been given a wrong verdict.
VerdictIsOwn ==
    \A r, o \in Requests : r # o /\ result[r] = o =>
        \/ o \in ended
        \/ call[o].conn # call[r].conn
        \/ result[o] \in Requests \ {o}

\* A block is never with the nodes twice: after a request has failed it is not
\* sent to another connection, as the failure is the end of its context.
AtMostOnce ==
    \A r \in Requests :
        Cardinality({ m \in wire : m.req = r })
        + Cardinality({ x \in Keepers \X (1 .. InputSize) : x[2] <= Len(input[x[1]]) /\ input[x[1]][x[2]].req = r }) <= 1

\* A call that waits on a connection that is open does not wait in vain: its
\* message is with the connection and its entry is in the table, or an answer is
\* on its way to its channel or in it.  Only the end of its connection leaves it
\* to the end of its context.
MessageOut(r) ==
    \/ \E i \in DOMAIN input[call[r].conn[1]] : input[call[r].conn[1]][i] = [id |-> call[r].id, req |-> r]
    \/ [through |-> call[r].conn, id |-> call[r].id, req |-> r] \in wire

VerdictCanCome ==
    \A r \in Requests : call[r].pc = "wait" /\ call[r].conn \in open =>
        \/ buf[call[r].ch] # {}
        \/ \E d \in decoding : d.ch = call[r].ch
        \/ MessageOut(r) /\ \E e \in cache : e.conn = call[r].conn /\ e.id = call[r].id

\* The inductive invariants behind these: where every variable is, ...
CallType == [pc : {"idle", "try", "send", "wait", "failed", "done"}, client : 1 .. Len(Clients), n : Nat,
             conn : Conns \cup {<< >>}, id : Nat, ch : Channels \cup {<< >>}]

KeepType ==
    /\ list \in Seq(Conns)
    /\ keep \in [Keepers -> {"new", "dial", "mark", "up"}]
    /\ made \in [Keepers -> 0 .. MaxConns] /\ place \in [Keepers -> Nat]
    /\ \A k \in Keepers : keep[k] # "new" => made[k] # 0
    /\ open \subseteq Conns /\ healthy \subseteq Conns
    /\ panicked \in {"no", "index", "divide"}

ConnType ==
    /\ input \in [Keepers -> Seq([id : Nat, req : Requests])]
    /\ \A k \in Keepers : Len(input[k]) <= InputSize
    /\ messageID \in [Conns -> Nat]
    /\ cache \subseteq [conn : Conns, id : Nat, ch : Channels]
    /\ buf \in [Channels -> SUBSET Requests]
    /\ decoding \subseteq [ch : Channels, req : Requests]
    /\ wire \subseteq [through : Conns, id : Nat, req : Requests]

ReqType ==
    /\ next \in Nat /\ ended \subseteq Requests
    /\ call \in [Requests -> CallType]
    /\ \A r \in Requests : /\ call[r].pc \in {"send", "wait"} => call[r].conn \in Conns
                           /\ call[r].pc = "wait" => call[r].ch \in Channels
                           /\ result[r] # "none" <=> call[r].pc = "done"
    /\ result \in [Requests -> Requests \cup {"none", "error"}]

\* ... a connection is added where the list ends, which is within the number of
\* addresses ...
PlaceInv ==
    /\ ListIsCounted
    /\ \A k \in Keepers : keep[k] # "new" => place[k] \in 1 .. Cardinality(Keepers)

\* ... and what stands for the verdict on a block, first its message and then
\* the answer, is in one place only.
Queued(o) == \E k \in Keepers : \E i \in DOMAIN input[k] : input[k][i].req = o
OnWire(o) == \E m \in wire : m.req = o
Decoded(o) == \E d \in decoding : d.req = o
Buffered(o) == \E ch \in Channels : o \in buf[ch]
Out(o) == Queued(o) \/ OnWire(o) \/ Decoded(o) \/ Buffered(o)

OnePlace ==
    /\ \A k, l \in Keepers : \A i \in DOMAIN input[k], j \in DOMAIN input[l] :
          input[k][i].req = input[l][j].req => k = l /\ i = j
    /\ \A m, n \in wire : m.req = n.req => m = n
    /\ \A d, e \in decoding : d.req = e.req => d = e
    /\ \A ch, dh \in Channels : buf[ch] \cap buf[dh] # {} => ch = dh
    /\ \A o \in Requests : /\ Queued(o) => ~OnWire(o) /\ ~Decoded(o) /\ ~Buffered(o)
                           /\ OnWire(o) => ~Decoded(o) /\ ~Buffered(o)
                           /\ Decoded(o) => ~Buffered(o)

\* A block is sent by a call that then waits, until it has a verdict or its
\* context ends.
Lost(o) == o \in ended \/ result[o] \in Requests \ {o}

SentInv ==
    /\ \A o \in Requests : Out(o) => call[o].pc \in {"wait", "failed", "done"} /\ (call[o].pc = "wait" \/ Lost(o))
    /\ \A r, o \in Requests : r # o /\ result[r] = o => call[o].pc \in {"wait", "failed", "done"}
    /\ \A r \in Requests : call[r].pc = "failed" => r \in ended

\* Identifiers are new on their connection, and a channel that is waited on is
\* waited on once.
CacheInv ==
    /\ \A e \in cache : e.ch[1] = e.conn /\ e.id <= messageID[e.conn]
    /\ \A e, f \in cache : e.conn = f.conn /\ e.id = f.id => e = f
    /\ \A r \in Requests : call[r].pc = "wait" =>
          /\ call[r].ch[1] = call[r].conn /\ call[r].id <= messageID[call[r].conn]
          /\ \A e \in cache : e.conn = call[r].conn /\ e.id = call[r].id => e.ch = call[r].ch
    /\ \A r, o \in Requests : call[r].pc = "wait" /\ call[o].pc = "wait" /\ call[r].ch = call[o].ch => r = o

\* What is about a block whose call still waits is on its way to that call, if
\* it came by the connection of the call.
OwnInv ==
    \A o \in Requests : ~Lost(o) =>
        /\ \A k \in Keepers : \A i \in DOMAIN input[k] : input[k][i].req = o => input[k][i].id = call[o].id
        /\ \A m \in wire : m.req = o => m.id = call[o].id
        /\ \A d \in decoding : d.req = o => d.ch[1] # call[o].conn \/ d.ch = call[o].ch
        /\ \A ch \in Channels : o \in buf[ch] => ch[1] # call[o].conn \/ ch = call[o].ch
        /\ \A r \in Requests : r # o /\ result[r] = o => call[r].conn # call[o].conn

\* Only the last connection of an address is open, and none while it is dialed,
\* nor has a call been given the one that is dialed: a message is written by the
\* connection it was queued for as long as that one is open.
Used == healthy \cup { call[r].conn : r \in { q \in Requests : call[q].pc \in {"send", "wait"} } }

OpenInv ==
    /\ \A c \in open : c = Current(c[1])
    /\ \A k \in Keepers : keep[k] \in {"new", "dial"} => Current(k) \notin open
    /\ \A c \in Used : c[2] <= made[c[1]] /\ (keep[c[1]] = "dial" => c # Current(c[1]))
==============================================================================
