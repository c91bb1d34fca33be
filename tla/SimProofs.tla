----------------------------- MODULE SimProofs -------------------------------
(***************************************************************************)
(* Theorems about the validation of blocks by simulation, for any          *)
(* addresses, calls, clients and sizes: the list of connections is counted *)
(* right, a block is never with the nodes twice, a verdict on another      *)
(* block is taken for one's own in three cases only, and a call that waits *)
(* on an open connection has an answer to wait for.                        *)
(***************************************************************************)
EXTENDS Sim, FiniteSetTheorems, TLAPS

-----------------------------------------------------------------------------
(* Sequences *)

\* The elements of a sequence.
LEMMA SeqElements ==
    ASSUME NEW S, NEW s \in Seq(S)
    PROVE  Len(s) \in Nat /\ DOMAIN s = 1 .. Len(s) /\ \A i \in DOMAIN s : s[i] \in S
OBVIOUS

\* What Append adds.
LEMMA AppendProperties ==
    ASSUME NEW S, NEW s \in Seq(S), NEW e \in S
    PROVE  /\ Append(s, e) \in Seq(S) /\ Len(Append(s, e)) = Len(s) + 1
           /\ \A i \in 1 .. Len(s) : Append(s, e)[i] = s[i]
           /\ Append(s, e)[Len(s) + 1] = e
OBVIOUS

\* What Head and Tail take apart.
LEMMA HeadTailProperties ==
    ASSUME NEW S, NEW s \in Seq(S), s # << >>
    PROVE  /\ Head(s) \in S /\ Tail(s) \in Seq(S) /\ Len(Tail(s)) = Len(s) - 1
           /\ \A i \in 1 .. Len(Tail(s)) : Tail(s)[i] = s[i + 1]
OBVIOUS

\* Replacing an element keeps a sequence and its length.
LEMMA ExceptSeq ==
    ASSUME NEW S, NEW s \in Seq(S), NEW i \in 1 .. Len(s), NEW e \in S
    PROVE  [s EXCEPT ![i] = e] \in Seq(S) /\ Len([s EXCEPT ![i] = e]) = Len(s)
OBVIOUS

\* The first n elements of a sequence.
LEMMA SubSeqProperties ==
    ASSUME NEW S, NEW s \in Seq(S), NEW n \in 0 .. Len(s)
    PROVE  SubSeq(s, 1, n) \in Seq(S) /\ Len(SubSeq(s, 1, n)) = n
OBVIOUS

-----------------------------------------------------------------------------
(* Types *)

\* There are finitely many connections.
LEMMA ConnsFinite == IsFiniteSet(Conns)
<1>1. IsFiniteSet(1 .. MaxConns)
  BY SimAssumption, FS_Interval
<1> QED BY <1>1, SimAssumption, FS_Product, Zenon DEF Conns

\* There are finitely many addresses.
LEMMA KeepersCounted == Cardinality(Keepers) \in Nat
BY SimAssumption, FS_CardinalityType, Zenon

\* The connections of one address are among all that were made.
LEMMA MadeBound ==
    ASSUME KeepType, NEW k \in Keepers, Made < MaxConns
    PROVE  made[k] + 1 \in 1 .. MaxConns
<1> DEFINE S == { c \in Conns : c[2] <= made[c[1]] }
           f == [i \in 1 .. made[k] |-> <<k, i>>]
<1>1. made[k] \in 0 .. MaxConns /\ MaxConns \in Nat
  BY SimAssumption, Zenon DEF KeepType
<1>2. IsFiniteSet(S)
  BY ConnsFinite, FS_Subset, Zenon
<1>3. \A i \in 1 .. made[k] : <<k, i>> \in S
  BY <1>1 DEF Conns
<1>4. f \in Injection(1 .. made[k], S)
  BY <1>3, Zenon DEF Injection, IsInjective
<1>5. Cardinality(1 .. made[k]) <= Cardinality(S)
  <2> HIDE DEF f, S
  <2> QED BY <1>2, <1>4, FS_Injection, Zenon
<1>6. Cardinality(1 .. made[k]) = made[k]
  BY <1>1, FS_Interval
<1>7. Cardinality(S) \in Nat
  BY <1>2, FS_CardinalityType, Zenon
<1> HIDE DEF S
<1> QED BY <1>1, <1>5, <1>6, <1>7 DEF Made, S

\* The last of the list goes where one was that is taken out.
LEMMA TakenOut ==
    ASSUME NEW S, NEW s \in Seq(S), NEW p \in 1 .. Len(s)
    PROVE  LET t == SubSeq([s EXCEPT ![p] = s[Len(s)]], 1, Len(s) - 1)
           IN  t \in Seq(S) /\ Len(t) = Len(s) - 1
<1> DEFINE u == [s EXCEPT ![p] = s[Len(s)]]
<1>1. Len(s) \in Nat /\ s[Len(s)] \in S
  OBVIOUS
<1>2. u \in Seq(S) /\ Len(u) = Len(s)
  BY <1>1, ExceptSeq
<1>3. \A i \in 1 .. Len(s) - 1 : u[i] \in S
  <2> HIDE DEF u
  <2> QED BY <1>1, <1>2
<1> HIDE DEF u
<1>4. SubSeq(u, 1, Len(s) - 1) \in Seq(S) /\ Len(SubSeq(u, 1, Len(s) - 1)) = Len(s) - 1
  BY <1>1, <1>2, <1>3, SubSeqProperties
<1> QED BY <1>4, Zenon DEF u

\* A KeepConnection past its first step has a connection.
LEMMA CurrentIsConn ==
    ASSUME KeepType, NEW k \in Keepers, keep[k] # "new"
    PROVE  Current(k) \in Conns
BY SimAssumption DEF KeepType, Current, Conns

\* A connection that is closed, or a message that is written, is of KeepConnection.
LEMMA Next_KeepType ==
    ASSUME KeepType, PlaceInv, [Next]_vars
    PROVE  KeepType'
<1> USE DEF KeepType
<1>1. ASSUME NEW k \in Keepers, Enlist(k) PROVE KeepType'
  <2>1. made[k] + 1 \in 1 .. MaxConns
    BY <1>1, MadeBound, Zenon DEF Enlist
  <2>2. <<k, made[k] + 1>> \in Conns
    BY <2>1, Zenon DEF Conns
  <2>3. list' \in Seq(Conns) /\ Len(list) \in Nat
    BY <1>1, <2>2, AppendProperties DEF Enlist
  <2>4. made' \in [Keepers -> 0 .. MaxConns] /\ made'[k] # 0 /\ \A l \in Keepers \ {k} : made'[l] = made[l]
    BY <1>1, <2>1, SimAssumption DEF Enlist
  <2> QED BY <1>1, <2>3, <2>4, SMTT(30) DEF Enlist
<1>2. ASSUME NEW k \in Keepers, Dial(k) \/ MarkHealthy(k) PROVE KeepType'
  BY <1>2, CurrentIsConn, Zenon DEF Dial, MarkHealthy
<1>3. ASSUME NEW k \in Keepers, Delist(k) PROVE KeepType'
  <2>1. list' \in Seq(Conns) /\ panicked' \in {"no", "index", "divide"}
    <3>1. CASE Len(list) = 1
      BY <1>3, <3>1 DEF Delist
    <3>2. CASE Len(list) # 1 /\ place[k] <= Len(list)
      <4>1. place[k] \in 1 .. Len(list)
        <5>1. place[k] \in 1 .. Cardinality(Keepers) /\ Len(list) \in Nat
          BY <1>3 DEF Delist, PlaceInv
        <5> QED BY <3>2, <5>1, KeepersCounted
      <4>2. /\ list' = SubSeq([list EXCEPT ![place[k]] = list[Len(list)]], 1, Len(list) - 1)
            /\ UNCHANGED panicked
        BY <1>3, <3>2, Zenon DEF Delist
      <4> QED BY <4>1, <4>2, TakenOut, Zenon
    <3>3. CASE Len(list) # 1 /\ ~(place[k] <= Len(list))
      BY <1>3, <3>3, Zenon DEF Delist
    <3> QED BY <3>1, <3>2, <3>3, Zenon
  <2> QED BY <1>3, <2>1, Zenon DEF Delist
<1>4. ASSUME NEW c \in open, Close(c) PROVE KeepType'
  BY <1>4, Zenon DEF Close
<1>5. ASSUME UNCHANGED keepVars, panicked' \in {panicked, "divide"} PROVE KeepType'
  BY <1>5, Zenon DEF keepVars
<1>6. ASSUME NEW r \in Requests, ValidateBlock(r) \/ Step(r) \/ ContextEnds(r)
      PROVE  UNCHANGED keepVars /\ panicked' \in {panicked, "divide"}
  BY <1>6, Zenon DEF ValidateBlock, Step, ContextEnds, TryNode, Get, RequestRPC, Receive, GiveUp, TryOther
<1>7. ASSUME (\E k \in Keepers : writeHandler(k)) \/ (\E m \in wire : rpcDecoder(m)) \/ (\E d \in decoding : Deliver(d))
      PROVE  UNCHANGED <<keepVars, panicked>>
  BY <1>7, Zenon DEF writeHandler, rpcDecoder, Deliver
<1>8. CASE UNCHANGED vars
  BY <1>8, <1>5, Zenon DEF vars
<1> QED BY <1>1, <1>2, <1>3, <1>4, <1>5, <1>6, <1>7, <1>8, Zenon DEF Next

\* A request that has not begun has a call record.
LEMMA NoCallType == NoCall \in CallType
BY SimAssumption DEF NoCall, CallType

\* The initial state is well typed.
LEMMA Init_Types == Init => KeepType /\ ConnType /\ ReqType
<1> SUFFICES ASSUME Init PROVE KeepType /\ ConnType /\ ReqType
  BY Zenon
<1>1. KeepType
  BY SimAssumption DEF Init, KeepType
<1>2. ConnType
  BY SimAssumption DEF Init, ConnType
<1>3. ReqType
  <2>1. NoCall.pc = "idle"
    BY Zenon DEF NoCall
  <2> QED BY <2>1, NoCallType, Zenon DEF Init, ReqType
<1> QED BY <1>1, <1>2, <1>3, Zenon

\* Every step keeps the types of the connections' messages and channels.
LEMMA Next_ConnType ==
    ASSUME KeepType, ConnType, ReqType, [Next]_vars
    PROVE  ConnType'
<1> DEFINE Message == [id : Nat, req : Requests]
<1>1. ASSUME NEW k \in Keepers, writeHandler(k) PROVE ConnType'
  <2>1. input[k] \in Seq(Message) /\ input[k] # << >> /\ Current(k) \in Conns
    BY <1>1, Zenon DEF writeHandler, ConnType, KeepType
  <2>2. Head(input[k]) \in Message /\ Tail(input[k]) \in Seq(Message) /\ Len(Tail(input[k])) = Len(input[k]) - 1
    BY <2>1, HeadTailProperties, Zenon
  <2>3. input' \in [Keepers -> Seq(Message)] /\ \A l \in Keepers : Len(input'[l]) <= InputSize
    <3> HIDE DEF Message
    <3>1. input' = [input EXCEPT ![k] = Tail(input[k])]
      BY <1>1, Zenon DEF writeHandler
    <3>2. input \in [Keepers -> Seq(Message)] /\ \A l \in Keepers : Len(input[l]) <= InputSize
      BY Zenon DEF ConnType, Message
    <3>3. Len(Tail(input[k])) <= InputSize
      BY <2>1, <2>2, <3>2, SimAssumption, SMTT(30)
    <3> QED BY <2>2, <3>1, <3>2, <3>3, Zenon
  <2>4. wire' \subseteq [through : Conns, id : Nat, req : Requests]
    BY <1>1, <2>1, <2>2 DEF writeHandler, ConnType
  <2> QED BY <1>1, <2>3, <2>4, Zenon DEF writeHandler, ConnType
<1>2. ASSUME NEW m \in wire, rpcDecoder(m) PROVE ConnType'
  <2>1. cache' \subseteq cache /\ wire' \subseteq wire /\ UNCHANGED <<input, messageID, buf>>
    BY <1>2, Zenon DEF rpcDecoder
  <2>2. ASSUME NEW d \in decoding' PROVE d \in [ch : Channels, req : Requests]
    BY <1>2, <2>2 DEF rpcDecoder, ConnType
  <2> QED BY <2>1, <2>2, Zenon DEF ConnType
<1>3. ASSUME NEW d \in decoding, Deliver(d) PROVE ConnType'
  <2>1. d.ch \in Channels /\ {d.req} \in SUBSET Requests
    BY Zenon DEF ConnType
  <2>2. buf' \in [Channels -> SUBSET Requests]
    BY <1>3, <2>1, Zenon DEF Deliver, ConnType
  <2>3. decoding' \subseteq decoding /\ UNCHANGED <<input, messageID, cache, wire>>
    BY <1>3, Zenon DEF Deliver
  <2> QED BY <2>2, <2>3, Zenon DEF ConnType
<1>4. ASSUME NEW c \in open, Close(c) PROVE ConnType'
  BY <1>4, Zenon DEF Close, ConnType
<1>5. ASSUME NEW r \in Requests, RequestRPC(r) PROVE ConnType'
  <2> DEFINE c == call[r].conn
             id == messageID[c] + 1
  <2>1. c \in Conns /\ c[1] \in Keepers /\ id \in Nat
    BY <1>5, SMTT(30) DEF RequestRPC, ReqType, Conns, ConnType
  <2>2. PICK ch \in Pool(c) : cache' = cache \cup {[conn |-> c, id |-> id, ch |-> ch]}
    BY <1>5, Zenon DEF RequestRPC
  <2>3. /\ messageID' = [messageID EXCEPT ![c] = id] /\ Len(input[c[1]]) < InputSize
        /\ input' = [input EXCEPT ![c[1]] = Append(@, [id |-> id, req |-> r])]
        /\ UNCHANGED <<buf, decoding, wire>>
    BY <1>5, Zenon DEF RequestRPC
  <2> HIDE DEF c, id
  <2>4. cache' \subseteq [conn : Conns, id : Nat, ch : Channels]
    BY <2>1, <2>2 DEF Pool, ConnType
  <2>5. input[c[1]] \in Seq(Message) /\ [id |-> id, req |-> r] \in Message
    BY <2>1, Zenon DEF ConnType
  <2>6. /\ Append(input[c[1]], [id |-> id, req |-> r]) \in Seq(Message)
        /\ Len(Append(input[c[1]], [id |-> id, req |-> r])) = Len(input[c[1]]) + 1
    BY <2>5, AppendProperties
  <2>7. input' \in [Keepers -> Seq(Message)] /\ \A l \in Keepers : Len(input'[l]) <= InputSize
    <3> HIDE DEF Message
    <3>1. input \in [Keepers -> Seq(Message)] /\ \A l \in Keepers : Len(input[l]) <= InputSize
      BY Zenon DEF ConnType, Message
    <3>2. Len(input[c[1]]) + 1 <= InputSize
      BY <2>3, <2>5, SimAssumption
    <3> QED BY <2>1, <2>3, <2>6, <3>1, <3>2, Zenon
  <2> QED BY <2>1, <2>3, <2>4, <2>7, ZenonT(30) DEF ConnType
<1>6. ASSUME NEW r \in Requests, Receive(r) PROVE ConnType'
  BY <1>6, Zenon DEF Receive, ConnType
<1>7. ASSUME NEW r \in Requests, GiveUp(r) PROVE ConnType'
  BY <1>7, Zenon DEF GiveUp, ConnType
<1>8. ASSUME UNCHANGED connVars PROVE ConnType'
  BY <1>8, Zenon DEF connVars, ConnType
<1>9. ASSUME NEW k \in Keepers, Enlist(k) \/ Dial(k) \/ MarkHealthy(k) \/ Delist(k) PROVE UNCHANGED connVars
  BY <1>9, Zenon DEF Enlist, Dial, MarkHealthy, Delist
<1>10. ASSUME NEW r \in Requests, ValidateBlock(r) \/ TryNode(r) \/ Get(r) \/ TryOther(r) \/ ContextEnds(r)
       PROVE  UNCHANGED connVars
  BY <1>10, Zenon DEF ValidateBlock, TryNode, Get, TryOther, ContextEnds
<1>11. CASE UNCHANGED vars
  BY <1>8, <1>11, Zenon DEF vars
<1> QED BY <1>1, <1>2, <1>3, <1>4, <1>5, <1>6, <1>7, <1>8, <1>9, <1>10, <1>11, Zenon DEF Next, Step

\* What the fallback and the list do to a call: it goes to a client or to a
\* connection, or it ends without a message.
Turn(r) ==
    /\ call[r].pc \in {"idle", "try"} \/ (call[r].pc = "failed" /\ r \notin ended)
    /\ \E v \in CallType : /\ v.pc \in {"try", "send"} /\ (v.pc = "send" => v.conn \in healthy)
                           /\ call' = [call EXCEPT ![r] = v]
    /\ UNCHANGED result
Quit(r) ==
    /\ \/ call[r].pc \in {"try", "failed"} /\ Return(r, "error")
       \/ call[r].pc = "try" /\ Return(r, r)

\* trySend chooses a connection that is healthy or ends the request.
LEMMA TrySendTurns ==
    ASSUME KeepType, ReqType, NEW r \in Requests, NEW c \in healthy, NEW n \in Nat, trySend(r, c, n),
           call[r].pc \in {"try", "failed"}
    PROVE  Turn(r) \/ Quit(r)
<1>1. CASE r \in ended
  BY <1>1, Zenon DEF trySend, Quit
<1>2. CASE r \notin ended
  <2> DEFINE v == [call[r] EXCEPT !.pc = "send", !.conn = c, !.n = n]
  <2>1. v \in CallType /\ v.pc = "send" /\ v.conn = c
    BY ZenonT(30) DEF KeepType, ReqType, CallType
  <2>2. call' = [call EXCEPT ![r] = v] /\ UNCHANGED result
    BY <1>2, Zenon DEF trySend, ReqType
  <2> HIDE DEF v
  <2> QED BY <1>2, <2>1, <2>2, Zenon DEF Turn
<1> QED BY <1>1, <1>2, Zenon

\* The fallback goes on to the next client or ends the request.
LEMMA KeepTryingTurns ==
    ASSUME ReqType, NEW r \in Requests, KeepTrying(r), call[r].pc \in {"try", "failed"}
    PROVE  Turn(r) \/ Quit(r)
<1>1. CASE r \in ended \/ call[r].client = Len(Clients)
  BY <1>1, Zenon DEF KeepTrying, Quit
<1>2. CASE ~(r \in ended \/ call[r].client = Len(Clients))
  <2> DEFINE v == [call[r] EXCEPT !.client = @ + 1, !.pc = "try"]
  <2>1. call[r] \in CallType /\ Len(Clients) \in Nat
    BY SimAssumption DEF ReqType
  <2>2. v \in CallType /\ v.pc = "try"
    <3>1. call[r].client \in 1 .. Len(Clients) /\ call[r].client # Len(Clients)
      BY <1>2, <2>1, Zenon DEF CallType
    <3>2. call[r].client + 1 \in 1 .. Len(Clients)
      BY <2>1, <3>1
    <3> QED BY <2>1, <3>2, Zenon DEF CallType
  <2>3. call' = [call EXCEPT ![r] = v] /\ UNCHANGED result
    BY <1>2, Zenon DEF KeepTrying, ReqType
  <2> HIDE DEF v
  <2> QED BY <1>2, <2>2, <2>3, Zenon DEF Turn
<1> QED BY <1>1, <1>2, Zenon

\* Before it is sent, a request only moves on to another client or connection,
\* or ends.
LEMMA Turns ==
    ASSUME KeepType, ReqType, NEW r \in Requests, ValidateBlock(r) \/ TryNode(r) \/ Get(r) \/ TryOther(r)
    PROVE  /\ UNCHANGED <<connVars, ended>> /\ next' \in Nat
           /\ UNCHANGED <<call, result>> \/ Turn(r) \/ Quit(r)
<1>1. CASE ValidateBlock(r)
  <2> DEFINE v == [call[r] EXCEPT !.pc = "try"]
  <2>1. v \in CallType /\ v.pc = "try"
    BY ZenonT(30) DEF ReqType, CallType
  <2>2. call' = [call EXCEPT ![r] = v] /\ UNCHANGED <<result, connVars, ended, next>> /\ call[r].pc = "idle"
    BY <1>1, Zenon DEF ValidateBlock, Goto, ReqType
  <2> HIDE DEF v
  <2> QED BY <2>1, <2>2, Zenon DEF Turn, ReqType
<1>2. CASE TryNode(r)
  BY <1>2, Zenon DEF TryNode, Quit, ReqType
<1>3. CASE Get(r)
  <2>1. UNCHANGED <<connVars, ended>> /\ next' \in Nat /\ call[r].pc = "try"
    BY <1>3 DEF Get, ReqType
  <2>2. CASE r \in ended
    BY <1>3, <2>1, <2>2, Zenon DEF Get, Quit
  <2>3. CASE r \notin ended /\ list = << >>
    BY <1>3, <2>1, <2>3, Zenon DEF Get
  <2>4. CASE r \notin ended /\ list # << >>
    <3>1. PICK c : IF c \in healthy THEN trySend(r, c, next + 1) ELSE KeepTrying(r)
      BY <1>3, <2>4, Zenon DEF Get
    <3>2. next + 1 \in Nat
      BY DEF ReqType
    <3> QED BY <2>1, <3>1, <3>2, TrySendTurns, KeepTryingTurns, Zenon
  <2> QED BY <2>2, <2>3, <2>4, Zenon
<1>4. CASE TryOther(r)
  <2>1. UNCHANGED <<connVars, ended, next>> /\ call[r].pc = "failed"
    BY <1>4, Zenon DEF TryOther
  <2>2. TryOtherThan(call[r].n) \subseteq healthy /\ call[r].n \in Nat /\ next \in Nat
    BY Zenon DEF TryOtherThan, ReqType, CallType
  <2>3. (\E c \in TryOtherThan(call[r].n) : trySend(r, c, call[r].n)) \/ KeepTrying(r)
    BY <1>4, Zenon DEF TryOther
  <2> QED BY <2>1, <2>2, <2>3, TrySendTurns, KeepTryingTurns, Zenon
<1> QED BY <1>1, <1>2, <1>3, <1>4, Zenon

\* The end of a call, and what it keeps of it.
LEMMA Returned ==
    ASSUME ReqType, NEW r \in Requests, NEW about \in Requests \cup {"error"}, Return(r, about)
    PROVE  /\ call' \in [Requests -> CallType] /\ result' \in [Requests -> Requests \cup {"none", "error"}]
           /\ call'[r].pc = "done" /\ call'[r].conn = call[r].conn /\ result'[r] = about
           /\ \A q \in Requests \ {r} : call'[q] = call[q] /\ result'[q] = result[q]
<1> DEFINE v == [NoCall EXCEPT !.pc = "done", !.conn = call[r].conn]
<1>1. v \in CallType /\ v.pc = "done" /\ v.conn = call[r].conn
  <2>1. call[r].conn \in Conns \cup {<< >>}
    BY Zenon DEF CallType, ReqType
  <2>2. NoCall \in CallType
    BY NoCallType, Zenon
  <2> QED BY <2>1, <2>2, Zenon DEF CallType
<1>2. call' = [call EXCEPT ![r] = v] /\ result' = [result EXCEPT ![r] = about]
  BY Zenon DEF Return
<1> HIDE DEF v
<1> QED BY <1>1, <1>2, Zenon DEF ReqType

\* A request that moves on has not been sent.
LEMMA Turned ==
    ASSUME ReqType, NEW r \in Requests, Turn(r)
    PROVE  /\ call' \in [Requests -> CallType] /\ UNCHANGED result
           /\ call'[r].pc \in {"try", "send"} /\ (call'[r].pc = "send" => call'[r].conn \in healthy)
           /\ \A q \in Requests \ {r} : call'[q] = call[q]
BY Zenon DEF Turn, ReqType

\* RequestRPC takes the connection's next identifier and a free channel,
\* enters both in the cache, and adds the message to the input.
LEMMA Requested ==
    ASSUME KeepType, ConnType, ReqType, NEW r \in Requests, RequestRPC(r)
    PROVE  LET c == call[r].conn
               id == messageID[c] + 1
           IN  \E ch \in Pool(c) :
                  /\ c \in Conns /\ c[1] \in Keepers /\ messageID[c] \in Nat /\ ch \in Channels /\ ch[1] = c
                  /\ call[r].pc = "send"
                  /\ cache' = cache \cup {[conn |-> c, id |-> id, ch |-> ch]}
                  /\ call' \in [Requests -> CallType]
                  /\ call'[r].pc = "wait" /\ call'[r].conn = c /\ call'[r].id = id /\ call'[r].ch = ch
                  /\ \A q \in Requests \ {r} : call'[q] = call[q]
                  /\ messageID' = [messageID EXCEPT ![c] = id]
                  /\ input' = [input EXCEPT ![c[1]] = Append(input[c[1]], [id |-> id, req |-> r])]
                  /\ UNCHANGED <<buf, decoding, wire, next, ended, result>>
<1> DEFINE c == call[r].conn
           id == messageID[c] + 1
<1>1. c \in Conns /\ c[1] \in Keepers /\ messageID[c] \in Nat /\ call[r].pc = "send"
  BY Zenon DEF RequestRPC, ReqType, Conns, ConnType
<1>2. PICK ch \in Pool(c) : /\ cache' = cache \cup {[conn |-> c, id |-> id, ch |-> ch]}
                            /\ call' = [call EXCEPT ![r].pc = "wait", ![r].id = id, ![r].ch = ch]
  BY ZenonT(30) DEF RequestRPC
<1>3. /\ messageID' = [messageID EXCEPT ![c] = id]
      /\ input' = [input EXCEPT ![c[1]] = Append(input[c[1]], [id |-> id, req |-> r])]
      /\ UNCHANGED <<buf, decoding, wire, next, ended, result>>
  BY Zenon DEF RequestRPC
<1>4. ch \in Channels /\ ch[1] = c
  BY <1>2, Zenon DEF Pool
<1>5. /\ call' \in [Requests -> CallType]
      /\ call'[r].pc = "wait" /\ call'[r].conn = c /\ call'[r].id = id /\ call'[r].ch = ch
      /\ \A q \in Requests \ {r} : call'[q] = call[q]
  <2> DEFINE v == [call[r] EXCEPT !.pc = "wait", !.id = id, !.ch = ch]
  <2>1. call[r] \in CallType /\ id \in Nat
    BY <1>1 DEF ReqType
  <2>2. v \in CallType /\ v.pc = "wait" /\ v.id = id /\ v.ch = ch /\ v.conn = c
    <3> HIDE DEF id
    <3> QED BY <2>1, <1>4, Zenon DEF CallType
  <2>3. call' = [call EXCEPT ![r] = v]
    BY <1>2, Zenon DEF ReqType
  <2> HIDE DEF v, id
  <2> QED BY <2>2, <2>3, Zenon DEF ReqType
<1> QED BY <1>1, <1>2, <1>3, <1>4, <1>5, ZenonT(30)

\* A call gives up only when its context has ended.
LEMMA GaveUp ==
    ASSUME ReqType, NEW r \in Requests, GiveUp(r)
    PROVE  /\ call' \in [Requests -> CallType] /\ call[r].pc = "wait" /\ r \in ended
           /\ call'[r].pc = "failed" /\ call'[r].conn = call[r].conn
           /\ \A q \in Requests \ {r} : call'[q] = call[q]
           /\ cache' \subseteq cache
           /\ UNCHANGED <<input, messageID, buf, decoding, wire, next, ended, result>>
<1> DEFINE v == [call[r] EXCEPT !.pc = "failed"]
<1>1. v \in CallType /\ v.pc = "failed" /\ v.conn = call[r].conn
  BY ZenonT(30) DEF CallType, ReqType
<1>2. call' = [call EXCEPT ![r] = v]
  BY Zenon DEF GiveUp, Goto, ReqType
<1>3. call[r].pc = "wait" /\ r \in ended /\ cache' \subseteq cache
  BY Zenon DEF GiveUp
<1>4. UNCHANGED <<input, messageID, buf, decoding, wire, next, ended, result>>
  BY Zenon DEF GiveUp
<1> HIDE DEF v
<1>5. /\ call' \in [Requests -> CallType] /\ call'[r].pc = "failed" /\ call'[r].conn = call[r].conn
      /\ \A q \in Requests \ {r} : call'[q] = call[q]
  BY <1>1, <1>2, Zenon DEF ReqType
<1> QED BY <1>3, <1>4, <1>5, Zenon

\* A call that returns took the verdict from its channel.
LEMMA Received ==
    ASSUME ConnType, ReqType, NEW r \in Requests, Receive(r)
    PROVE  \E about \in Requests :
             /\ call[r].pc = "wait" /\ call[r].ch \in Channels /\ about \in buf[call[r].ch] /\ Return(r, about)
             /\ buf' = [buf EXCEPT ![call[r].ch] = {}]
             /\ UNCHANGED <<input, messageID, cache, decoding, wire, next, ended>>
<1>1. call[r].pc = "wait" /\ call[r].ch \in Channels /\ buf[call[r].ch] \subseteq Requests
  BY Zenon DEF Receive, ReqType, ConnType
<1> QED BY <1>1, Zenon DEF Receive

\* Every step keeps the types of the calls.
LEMMA Next_ReqType ==
    ASSUME KeepType, ConnType, ReqType, [Next]_vars
    PROVE  ReqType'
<1>1. ASSUME UNCHANGED callVars PROVE ReqType'
  BY <1>1, Zenon DEF callVars, ReqType
<1>2. ASSUME NEW r \in Requests, NEW about \in Requests \cup {"error"}, Return(r, about), UNCHANGED ended, next' \in Nat
      PROVE  ReqType'
  <2>1. about # "none"
    BY SimAssumption, Zenon
  <2> QED BY <1>2, <2>1, Returned DEF ReqType
<1>3. ASSUME NEW r \in Requests, ValidateBlock(r) \/ TryNode(r) \/ Get(r) \/ TryOther(r) PROVE ReqType'
  <2>1. UNCHANGED ended /\ next' \in Nat /\ (UNCHANGED <<call, result>> \/ Turn(r) \/ Quit(r))
    BY <1>3, Turns, Zenon
  <2>2. CASE UNCHANGED <<call, result>>
    BY <2>1, <2>2, Zenon DEF ReqType
  <2>3. CASE Turn(r)
    <3>1. result[r] = "none"
      BY <2>3, Zenon DEF Turn, ReqType
    <3>2. healthy \subseteq Conns
      BY Zenon DEF KeepType
    <3> QED BY <2>1, <2>3, <3>1, <3>2, Turned DEF ReqType
  <2>4. CASE Quit(r)
    BY <1>2, <2>1, <2>4, Zenon DEF Quit
  <2> QED BY <2>1, <2>2, <2>3, <2>4, Zenon
<1>4. ASSUME NEW r \in Requests, RequestRPC(r) PROVE ReqType'
  <2>1. /\ call[r].pc = "send" /\ call' \in [Requests -> CallType] /\ UNCHANGED <<next, ended, result>>
        /\ call'[r].pc = "wait" /\ call'[r].conn \in Conns /\ call'[r].ch \in Channels
        /\ \A q \in Requests \ {r} : call'[q] = call[q]
    BY <1>4, Requested, Zenon
  <2> QED BY <2>1, Zenon DEF ReqType
<1>5. ASSUME NEW r \in Requests, Receive(r) PROVE ReqType'
  <2>1. PICK about \in Requests : Return(r, about) /\ UNCHANGED <<next, ended>>
    BY <1>5, Received, Zenon
  <2>2. next' \in Nat
    BY <2>1, Zenon DEF ReqType
  <2> QED BY <1>2, <2>1, <2>2, Zenon
<1>6. ASSUME NEW r \in Requests, GiveUp(r) PROVE ReqType'
  BY <1>6, GaveUp DEF ReqType
<1>7. ASSUME NEW r \in Requests, ContextEnds(r) PROVE ReqType'
  BY <1>7, Zenon DEF ContextEnds, ReqType
<1>8. ASSUME NEW k \in Keepers, Enlist(k) \/ Dial(k) \/ MarkHealthy(k) \/ Delist(k) \/ writeHandler(k) PROVE UNCHANGED callVars
  BY <1>8, Zenon DEF Enlist, Dial, MarkHealthy, Delist, writeHandler
<1>9. ASSUME (\E c \in open : Close(c)) \/ (\E m \in wire : rpcDecoder(m)) \/ (\E d \in decoding : Deliver(d))
      PROVE  UNCHANGED callVars
  BY <1>9, Zenon DEF Close, rpcDecoder, Deliver
<1>10. CASE UNCHANGED vars
  BY <1>1, <1>10, Zenon DEF vars
<1> QED BY <1>1, <1>3, <1>4, <1>5, <1>6, <1>7, <1>8, <1>9, <1>10, Zenon DEF Next, Step

-----------------------------------------------------------------------------
(* The list of connections *)

Listed == { k \in Keepers : keep[k] # "new" }

\* The KeepConnections with a connection in the list can be counted.
LEMMA ListedFinite == IsFiniteSet(Listed) /\ Cardinality(Listed) \in Nat /\ Cardinality(Listed) <= Cardinality(Keepers)
<1>1. Listed \in SUBSET Keepers
  BY Zenon DEF Listed
<1> QED BY <1>1, SimAssumption, FS_Subset, FS_CardinalityType, Zenon

\* Every step keeps the count of the list; a connection is added at its end,
\* and one leaves for each KeepConnection that starts over.
LEMMA Next_PlaceInv ==
    ASSUME KeepType, PlaceInv, [Next]_vars
    PROVE  PlaceInv'
<1>1. ASSUME NEW k \in Keepers, Enlist(k), panicked = "no" PROVE PlaceInv'
  <2>1. k \notin Listed /\ Listed' = Listed \cup {k}
    BY <1>1, Zenon DEF Enlist, Listed, KeepType
  <2>2. Cardinality(Listed') = Cardinality(Listed) + 1
    BY <2>1, ListedFinite, FS_AddElement, Zenon
  <2>3. Cardinality(Listed) # Cardinality(Keepers)
    BY <2>1, SimAssumption, FS_Subset, Zenon DEF Listed
  <2>4. Len(list) = Cardinality(Listed)
    BY <1>1, Zenon DEF PlaceInv, ListIsCounted, Listed
  <2>5. place'[k] = Len(list) + 1 /\ \A l \in Keepers \ {k} : place'[l] = place[l] /\ keep'[l] = keep[l]
    BY <1>1, Zenon DEF Enlist, KeepType
  <2>6. place'[k] \in 1 .. Cardinality(Keepers)
    BY <2>3, <2>4, <2>5, ListedFinite, KeepersCounted, SMTT(30)
  <2>7. Len(list') = Len(list) + 1 /\ UNCHANGED panicked
    <3>1. <<k, made[k] + 1>> \in Conns
      BY <1>1, MadeBound, Zenon DEF Enlist, Conns
    <3> QED BY <1>1, <3>1, AppendProperties DEF Enlist, KeepType
  <2> QED BY <2>2, <2>4, <2>5, <2>6, <2>7, Zenon DEF PlaceInv, ListIsCounted, Listed
<1>2. ASSUME NEW k \in Keepers, Delist(k), panicked = "no" PROVE PlaceInv'
  <2>1. k \in Listed /\ Listed' = Listed \ {k}
    BY <1>2, Zenon DEF Delist, Listed, KeepType
  <2>2. Cardinality(Listed') = Cardinality(Listed) - 1
    BY <2>1, ListedFinite, FS_RemoveElement, Zenon
  <2>3. Len(list) = Cardinality(Listed) /\ Len(list) \in Nat
    BY <1>2 DEF PlaceInv, ListIsCounted, Listed, KeepType
  <2>4. Cardinality(Listed) # 0
    BY <2>1, ListedFinite, FS_EmptySet, Zenon
  <2>5. place[k] \in 1 .. Cardinality(Keepers)
    BY <2>1, Zenon DEF PlaceInv, Listed
  <2>6. \A l \in Keepers : keep'[l] # "new" => keep[l] # "new" /\ place'[l] = place[l]
    BY <1>2, Zenon DEF Delist, KeepType
  <2>7. /\ panicked' # "index" => Len(list') = Len(list) - 1
        /\ Cardinality(Keepers) <= 2 => panicked' # "index"
    <3>1. CASE Len(list) = 1
      <4>1. list' = << >> /\ panicked' = "no"
        BY <1>2, <3>1, Zenon DEF Delist
      <4> QED BY <3>1, <4>1
    <3>2. CASE Len(list) # 1 /\ place[k] <= Len(list)
      <4>1. place[k] \in 1 .. Len(list)
        BY <2>3, <2>5, <3>2, KeepersCounted
      <4>2. /\ list' = SubSeq([list EXCEPT ![place[k]] = list[Len(list)]], 1, Len(list) - 1)
            /\ panicked' = "no"
        BY <1>2, <3>2, Zenon DEF Delist
      <4>3. list \in Seq(Conns)
        BY Zenon DEF KeepType
      <4> QED BY <4>1, <4>2, <4>3, TakenOut, Zenon
    <3>3. CASE Len(list) # 1 /\ ~(place[k] <= Len(list))
      <4>1. panicked' = "index"
        BY <1>2, <3>3, Zenon DEF Delist
      <4>2. ~(Cardinality(Keepers) <= 2)
        BY <2>3, <2>4, <2>5, <3>3, KeepersCounted, SMTT(30)
      <4> QED BY <4>1, <4>2, Zenon
    <3> QED BY <3>1, <3>2, <3>3, Zenon
  <2> QED BY <2>2, <2>3, <2>5, <2>6, <2>7, Zenon DEF PlaceInv, ListIsCounted, Listed
<1>3. ASSUME \A k \in Keepers : keep'[k] # "new" <=> keep[k] # "new",
             UNCHANGED <<list, place>>, panicked' \in {panicked, "divide"}, panicked # "index" \/ panicked' = panicked
      PROVE  PlaceInv'
  <2>1. Listed' = Listed
    BY <1>3, Zenon DEF Listed
  <2> QED BY <1>3, <2>1, Zenon DEF PlaceInv, ListIsCounted, Listed
<1>4. ASSUME NEW k \in Keepers, Dial(k) \/ MarkHealthy(k) PROVE PlaceInv'
  <2>1. \A l \in Keepers : keep'[l] # "new" <=> keep[l] # "new"
    BY <1>4, Zenon DEF Dial, MarkHealthy, KeepType
  <2> QED BY <1>3, <1>4, <2>1, Zenon DEF Dial, MarkHealthy
<1>5. ASSUME UNCHANGED <<list, keep, place>>, panicked' \in {panicked, "divide"}, panicked = "no" \/ panicked' = panicked
      PROVE  PlaceInv'
  BY <1>3, <1>5, Zenon
<1>6. ASSUME NEW r \in Requests, ValidateBlock(r) \/ Step(r) \/ ContextEnds(r)
      PROVE  UNCHANGED <<list, keep, place>> /\ panicked' \in {panicked, "divide"}
  BY <1>6, Zenon DEF ValidateBlock, Step, ContextEnds, TryNode, Get, RequestRPC, Receive, GiveUp, TryOther, keepVars
<1>7. ASSUME \/ \E k \in Keepers : writeHandler(k)
             \/ \E c \in open : Close(c)
             \/ \E m \in wire : rpcDecoder(m)
             \/ \E d \in decoding : Deliver(d)
      PROVE  UNCHANGED <<list, keep, place, panicked>>
  BY <1>7, Zenon DEF Close, writeHandler, rpcDecoder, Deliver, keepVars
<1>8. CASE UNCHANGED vars
  BY <1>8, <1>5, Zenon DEF vars, keepVars
<1>9. CASE Next
  BY <1>1, <1>2, <1>4, <1>5, <1>6, <1>7, <1>9, ZenonT(30) DEF Next
<1> QED BY <1>8, <1>9, Zenon

TypeInv == KeepType /\ ConnType /\ ReqType

\* Types and the count of the list hold in every reachable state.
LEMMA TypesAlways == Spec => [](TypeInv /\ PlaceInv)
<1>1. Init => TypeInv /\ PlaceInv
  <2>1. Init => TypeInv
    BY Init_Types, Zenon DEF TypeInv
  <2>2. Init => PlaceInv
    <3> SUFFICES ASSUME Init PROVE PlaceInv
      BY Zenon
    <3>1. Listed = {} /\ Len(list) = 0 /\ panicked = "no"
      BY Zenon DEF Listed, Init
    <3> QED BY <3>1, FS_EmptySet, Zenon DEF PlaceInv, ListIsCounted, Listed
  <2> QED BY <2>1, <2>2, Zenon
<1>2. TypeInv /\ PlaceInv /\ [Next]_vars => (TypeInv /\ PlaceInv)'
  BY Next_KeepType, Next_ConnType, Next_ReqType, Next_PlaceInv, Zenon DEF TypeInv
<1> QED BY <1>1, <1>2, PTL DEF Spec

\* The variables stay in their types: a queue of messages never holds more than
\* the channel does, and a call has a result when it has returned and not before.
THEOREM SimTypeCorrect == Spec => []TypeOK
<1>1. TypeInv => TypeOK
  BY Zenon DEF TypeInv, KeepType, ConnType, ReqType, CallType, TypeOK
<1> QED BY <1>1, TypesAlways, PTL

\* The list of connections has one entry for every address that is dialing or
\* connected, however KeepConnections come and go, and with at most two
\* addresses none of them looks past its end.
THEOREM ListTheorem == Spec => []ListIsCounted
<1>1. PlaceInv => ListIsCounted
  BY Zenon DEF PlaceInv
<1> QED BY <1>1, TypesAlways, PTL

-----------------------------------------------------------------------------
(* A verdict is in one place *)

\* Where the elements of the tail come from.
LEMMA TailElements ==
    ASSUME NEW S, NEW s \in Seq(S), s # << >>
    PROVE  /\ 1 \in DOMAIN s /\ Head(s) = s[1]
           /\ \A i \in DOMAIN Tail(s) : i \in Nat /\ i # 0 /\ i + 1 \in DOMAIN s /\ Tail(s)[i] = s[i + 1]
<1>1. PICK t : t = Tail(s)
  BY Zenon
<1>2. t \in Seq(S) /\ Len(t) = Len(s) - 1 /\ \A i \in 1 .. Len(t) : t[i] = s[i + 1]
  BY <1>1, HeadTailProperties, Zenon
<1>3. Len(s) \in Nat /\ Len(s) # 0 /\ DOMAIN s = 1 .. Len(s) /\ DOMAIN t = 1 .. Len(t)
  BY <1>2, SeqElements
<1>4. Head(s) = s[1]
  OBVIOUS
<1>5. \A i \in 1 .. Len(t) : i \in Nat /\ i # 0 /\ i + 1 \in 1 .. Len(s)
  BY <1>2, <1>3
<1> QED BY <1>1, <1>2, <1>3, <1>4, <1>5, SMTT(30)

\* Where the elements come from after Append.
LEMMA AppendElements ==
    ASSUME NEW S, NEW s \in Seq(S), NEW e \in S
    PROVE  \A i \in DOMAIN Append(s, e) : \/ i \in DOMAIN s /\ Append(s, e)[i] = s[i]
                                          \/ i = Len(s) + 1 /\ Append(s, e)[i] = e
<1>1. PICK t : t = Append(s, e)
  BY Zenon
<1>2. t \in Seq(S) /\ Len(t) = Len(s) + 1 /\ (\A i \in 1 .. Len(s) : t[i] = s[i]) /\ t[Len(s) + 1] = e
  BY <1>1, AppendProperties
<1>3. Len(s) \in Nat /\ DOMAIN s = 1 .. Len(s) /\ DOMAIN t = 1 .. Len(t)
  BY <1>2, SeqElements, Zenon
<1>4. \A i \in 1 .. Len(t) : i \in 1 .. Len(s) \/ i = Len(s) + 1
  BY <1>2, <1>3
<1> QED BY <1>1, <1>2, <1>3, <1>4, Zenon

Message == [id : Nat, req : Requests]

\* The messages that wait to be written to an address.
LEMMA InputElements ==
    ASSUME ConnType, NEW k \in Keepers
    PROVE  /\ input[k] \in Seq(Message) /\ Len(input[k]) \in Nat /\ DOMAIN input[k] = 1 .. Len(input[k])
           /\ \A i \in DOMAIN input[k] : input[k][i] \in Message
<1>1. input[k] \in Seq(Message)
  BY Zenon DEF ConnType, Message
<1> QED BY <1>1, SeqElements, Zenon

\* writeHandler takes the first message of a queue, ...
LEMMA InputTail ==
    ASSUME ConnType, NEW k \in Keepers, input[k] # << >>, input' = [input EXCEPT ![k] = Tail(@)]
    PROVE  /\ 1 \in DOMAIN input[k] /\ Head(input[k]) = input[k][1]
           /\ \A i \in DOMAIN input'[k] : i \in Nat /\ i # 0 /\ i + 1 \in DOMAIN input[k] /\ input'[k][i] = input[k][i + 1]
           /\ \A l \in Keepers \ {k} : input'[l] = input[l]
<1>1. input[k] \in Seq(Message)
  BY InputElements, Zenon
<1>2. input'[k] = Tail(input[k]) /\ \A l \in Keepers \ {k} : input'[l] = input[l]
  BY Zenon DEF ConnType
<1>3. /\ 1 \in DOMAIN input[k] /\ Head(input[k]) = input[k][1]
      /\ \A i \in DOMAIN Tail(input[k]) :
            i \in Nat /\ i # 0 /\ i + 1 \in DOMAIN input[k] /\ Tail(input[k])[i] = input[k][i + 1]
  BY <1>1, TailElements, Zenon
<1> QED BY <1>2, <1>3, Zenon

\* ... and RequestRPC adds one at the end.
LEMMA InputAppend ==
    ASSUME ConnType, NEW k \in Keepers, NEW m \in Message, input' = [input EXCEPT ![k] = Append(input[k], m)]
    PROVE  /\ \A i \in DOMAIN input'[k] : \/ i \in DOMAIN input[k] /\ input'[k][i] = input[k][i]
                                          \/ i = Len(input[k]) + 1 /\ input'[k][i] = m
           /\ \A l \in Keepers \ {k} : input'[l] = input[l]
<1>1. input[k] \in Seq(Message)
  BY InputElements, Zenon
<1>2. input'[k] = Append(input[k], m) /\ \A l \in Keepers \ {k} : input'[l] = input[l]
  BY Zenon DEF ConnType
<1>3. \A i \in DOMAIN Append(input[k], m) : \/ i \in DOMAIN input[k] /\ Append(input[k], m)[i] = input[k][i]
                                            \/ i = Len(input[k]) + 1 /\ Append(input[k], m)[i] = m
  BY <1>1, AppendElements, Zenon
<1> QED BY <1>2, <1>3, Zenon

\* The places of a message or an answer, and what the steps do to them.
Alone(o) ==
    /\ Queued(o) => ~OnWire(o) /\ ~Decoded(o) /\ ~Buffered(o)
    /\ OnWire(o) => ~Decoded(o) /\ ~Buffered(o)
    /\ Decoded(o) => ~Buffered(o)
OneQueued ==
    \A k, l \in Keepers : \A i \in DOMAIN input[k], j \in DOMAIN input[l] :
        input[k][i].req = input[l][j].req => k = l /\ i = j
OneOnWire == \A m, n \in wire : m.req = n.req => m = n
OneDecoded == \A d, e \in decoding : d.req = e.req => d = e
OneBuffered == \A ch, dh \in Channels : buf[ch] \cap buf[dh] # {} => ch = dh

\* OnePlace, conjunct by conjunct.
LEMMA OnePlaceParts == OnePlace <=> OneQueued /\ OneOnWire /\ OneDecoded /\ OneBuffered /\ \A o \in Requests : Alone(o)
BY Zenon DEF OnePlace, OneQueued, OneOnWire, OneDecoded, OneBuffered, Alone

\* The same after a step.
LEMMA OnePlacePartsPrime == (OnePlace <=> OneQueued /\ OneOnWire /\ OneDecoded /\ OneBuffered /\ \A o \in Requests : Alone(o))'
BY OnePlaceParts, PTL

\* writeHandler moves one message from the input to the wire.
LEMMA WriteMoves ==
    ASSUME ConnType, OnePlace, NEW k \in Keepers, writeHandler(k)
    PROVE  LET q == input[k][1].req
           IN  /\ 1 \in DOMAIN input[k] /\ q \in Requests /\ Queued(q)
               /\ wire' = wire \cup {[through |-> Current(k), id |-> input[k][1].id, req |-> q]}
               /\ \A l \in Keepers : \A i \in DOMAIN input'[l] :
                     \E j \in DOMAIN input[l] : input'[l][i] = input[l][j] /\ input[l][j].req # q
               /\ OneQueued'
               /\ UNCHANGED <<buf, decoding, cache, messageID, callVars>>
<1> DEFINE q == input[k][1].req
<1>1. input[k] # << >> /\ input' = [input EXCEPT ![k] = Tail(@)]
  BY Zenon DEF writeHandler
<1>2. /\ 1 \in DOMAIN input[k] /\ Head(input[k]) = input[k][1]
      /\ \A i \in DOMAIN input'[k] : i \in Nat /\ i # 0 /\ i + 1 \in DOMAIN input[k] /\ input'[k][i] = input[k][i + 1]
      /\ \A l \in Keepers \ {k} : input'[l] = input[l]
  BY <1>1, InputTail, Zenon
<1>3. wire' = wire \cup {[through |-> Current(k), id |-> input[k][1].id, req |-> q]}
  BY <1>2, Zenon DEF writeHandler
<1>4. q \in Requests
  BY <1>2, InputElements, Zenon DEF Message
<1>5. OneQueued
  BY OnePlaceParts, Zenon
<1>6. ASSUME NEW l \in Keepers, NEW i \in DOMAIN input'[l]
      PROVE  \E j \in DOMAIN input[l] : input'[l][i] = input[l][j] /\ input[l][j].req # q
  <2>1. CASE l = k
    <3>1. i \in Nat /\ i # 0 /\ i + 1 \in DOMAIN input[k] /\ input'[k][i] = input[k][i + 1]
      BY <1>2, <1>6, <2>1, Zenon
    <3>2. i + 1 # 1
      BY <3>1
    <3>3. input[k][i + 1].req # q
      BY <1>2, <1>5, <3>1, <3>2 DEF OneQueued
    <3> QED BY <2>1, <3>1, <3>3, Zenon
  <2>2. CASE l # k
    <3>1. input'[l] = input[l]
      BY <1>2, <2>2, Zenon
    <3>2. input[l][i].req # q
      BY <1>2, <1>5, <1>6, <2>2, <3>1, ZenonT(30) DEF OneQueued
    <3> QED BY <1>6, <3>1, <3>2, Zenon
  <2> QED BY <2>1, <2>2, Zenon
<1>7. OneQueued'
  <2> SUFFICES ASSUME NEW a \in Keepers, NEW b \in Keepers, NEW i \in DOMAIN input'[a], NEW j \in DOMAIN input'[b],
                      input'[a][i].req = input'[b][j].req
               PROVE  a = b /\ i = j
    BY Zenon DEF OneQueued
  <2>1. CASE a = k /\ b = k
    <3>1. i \in Nat /\ j \in Nat /\ i + 1 \in DOMAIN input[k] /\ j + 1 \in DOMAIN input[k] /\ input[k][i + 1].req = input[k][j + 1].req
      BY <1>2, <2>1, Zenon
    <3>2. i + 1 = j + 1
      BY <1>5, <3>1 DEF OneQueued
    <3> QED BY <2>1, <3>1, <3>2
  <2>2. CASE a = k /\ b # k
    <3>1. i + 1 \in DOMAIN input[k] /\ j \in DOMAIN input[b] /\ input[k][i + 1].req = input[b][j].req
      BY <1>2, <2>2, Zenon
    <3> QED BY <1>5, <2>2, <3>1, Zenon DEF OneQueued
  <2>3. CASE a # k /\ b = k
    <3>1. i \in DOMAIN input[a] /\ j + 1 \in DOMAIN input[k] /\ input[a][i].req = input[k][j + 1].req
      BY <1>2, <2>3, Zenon
    <3> QED BY <1>5, <2>3, <3>1, ZenonT(30) DEF OneQueued
  <2>4. CASE a # k /\ b # k
    <3>1. i \in DOMAIN input[a] /\ j \in DOMAIN input[b] /\ input[a][i].req = input[b][j].req
      BY <1>2, <2>4, Zenon
    <3> QED BY <1>5, <3>1 DEF OneQueued
  <2> QED BY <2>1, <2>2, <2>3, <2>4, Zenon
<1>8. Queued(q)
  BY <1>2, Zenon DEF Queued
<1>9. UNCHANGED <<buf, decoding, cache, messageID, callVars>>
  BY Zenon DEF writeHandler
<1> QED BY <1>2, <1>3, <1>4, <1>6, <1>7, <1>8, <1>9, ZenonT(30)

\* A new message is the only one about its block in the input.
LEMMA RequestMoves ==
    ASSUME ConnType, OnePlace, NEW r \in Requests, ~Queued(r), NEW k \in Keepers, NEW id \in Nat,
           input' = [input EXCEPT ![k] = Append(input[k], [id |-> id, req |-> r])]
    PROVE  /\ \A l \in Keepers : \A i \in DOMAIN input'[l] :
                  \/ i \in DOMAIN input[l] /\ input'[l][i] = input[l][i]
                  \/ input'[l][i] = [id |-> id, req |-> r]
           /\ OneQueued'
<1> DEFINE m == [id |-> id, req |-> r]
<1>1. m \in Message /\ m.req = r
  BY Zenon DEF Message
<1>2. /\ \A i \in DOMAIN input'[k] : \/ i \in DOMAIN input[k] /\ input'[k][i] = input[k][i]
                                     \/ i = Len(input[k]) + 1 /\ input'[k][i] = m
      /\ \A l \in Keepers \ {k} : input'[l] = input[l]
  <2> HIDE DEF m
  <2> QED BY <1>1, InputAppend, Zenon DEF m
<1>3. ASSUME NEW l \in Keepers, NEW i \in DOMAIN input'[l]
      PROVE  \/ i \in DOMAIN input[l] /\ input'[l][i] = input[l][i]
             \/ l = k /\ i = Len(input[k]) + 1 /\ input'[l][i] = m
  <2> HIDE DEF m
  <2> QED BY <1>2, <1>3, Zenon
<1>4. \A l \in Keepers : \A i \in DOMAIN input[l] : input[l][i].req # r
  BY Zenon DEF Queued
<1>5. OneQueued
  BY OnePlaceParts, Zenon
<1> HIDE DEF m
<1>6. OneQueued'
  <2> SUFFICES ASSUME NEW a \in Keepers, NEW b \in Keepers, NEW i \in DOMAIN input'[a], NEW j \in DOMAIN input'[b],
                      input'[a][i].req = input'[b][j].req
               PROVE  a = b /\ i = j
    BY Zenon DEF OneQueued
  <2>1. \/ i \in DOMAIN input[a] /\ input'[a][i] = input[a][i]
        \/ a = k /\ i = Len(input[k]) + 1 /\ input'[a][i] = m
    BY <1>3, Zenon
  <2>2. \/ j \in DOMAIN input[b] /\ input'[b][j] = input[b][j]
        \/ b = k /\ j = Len(input[k]) + 1 /\ input'[b][j] = m
    BY <1>3, ZenonT(30)
  <2>3. CASE i \in DOMAIN input[a] /\ input'[a][i] = input[a][i] /\ j \in DOMAIN input[b] /\ input'[b][j] = input[b][j]
    BY <1>5, <2>3 DEF OneQueued
  <2>4. CASE (i \in DOMAIN input[a] /\ input'[a][i] = input[a][i]) /\ input'[b][j] = m
    BY <1>1, <1>4, <2>4, Zenon
  <2>5. CASE input'[a][i] = m /\ (j \in DOMAIN input[b] /\ input'[b][j] = input[b][j])
    BY <1>1, <1>4, <2>5, Zenon
  <2> QED BY <2>1, <2>2, <2>3, <2>4, <2>5, ZenonT(30)
<1> QED BY <1>3, <1>6, Zenon DEF m

\* rpcDecoder moves a message from the wire to the channel the cache has for
\* its identifier, if any.
LEMMA DecodeMoves ==
    ASSUME ConnType, OnePlace, CacheInv, NEW m \in wire, rpcDecoder(m)
    PROVE  /\ OnWire(m.req) /\ m.req \in Requests
           /\ wire' = wire \ {m} /\ cache' \subseteq cache
           /\ \A d \in decoding' : \/ d \in decoding
                                   \/ d.req = m.req /\ \E e \in cache : e.conn = m.through /\ e.id = m.id /\ d.ch = e.ch
           /\ OneDecoded'
           /\ UNCHANGED <<input, messageID, buf, callVars>>
<1> DEFINE found == { e \in cache : e.conn = m.through /\ e.id = m.id }
<1>1. decoding' = decoding \cup { [ch |-> e.ch, req |-> m.req] : e \in found }
  BY Zenon DEF rpcDecoder
<1>2. OnWire(m.req) /\ m.req \in Requests
  BY Zenon DEF OnWire, ConnType
<1>3. wire' = wire \ {m} /\ cache' \subseteq cache
  BY Zenon DEF rpcDecoder
<1>4. UNCHANGED <<input, messageID, buf, callVars>>
  BY Zenon DEF rpcDecoder
<1>5. ASSUME NEW d \in decoding' PROVE d \in decoding \/ \E e \in found : d = [ch |-> e.ch, req |-> m.req]
  BY <1>1, <1>5, Zenon
<1>6. \A e, f \in found : e = f
  BY DEF CacheInv
<1>7. \A d \in decoding : d.req # m.req
  BY <1>2, OnePlaceParts, Zenon DEF Alone, Decoded
<1>8. \A d, e \in decoding : d.req = e.req => d = e
  BY OnePlaceParts, Zenon DEF OneDecoded
<1>9. ASSUME NEW d \in decoding', NEW e \in decoding', d.req = e.req PROVE d = e
  <2>1. CASE d \in decoding /\ e \in decoding
    BY <1>8, <1>9, <2>1, Zenon
  <2>2. CASE d \notin decoding /\ e \notin decoding
    BY <1>5, <1>6, <1>9, <2>2, Zenon
  <2>3. CASE d \in decoding /\ e \notin decoding
    <3>1. e.req = m.req
      BY <1>5, <1>9, <2>3
    <3> QED BY <1>7, <1>9, <2>3, <3>1, Zenon
  <2>4. CASE d \notin decoding /\ e \in decoding
    <3>1. d.req = m.req
      BY <1>5, <1>9, <2>4
    <3> QED BY <1>7, <1>9, <2>4, <3>1, Zenon
  <2> QED BY <2>1, <2>2, <2>3, <2>4, Zenon
<1>10. OneDecoded'
  BY <1>9, Zenon DEF OneDecoded
<1>11. ASSUME NEW d \in decoding'
       PROVE  \/ d \in decoding
              \/ d.req = m.req /\ \E e \in cache : e.conn = m.through /\ e.id = m.id /\ d.ch = e.ch
  <2>1. CASE d \in decoding
    BY <2>1, Zenon
  <2>2. CASE d \notin decoding
    <3>1. PICK e \in found : d = [ch |-> e.ch, req |-> m.req]
      BY <1>5, <1>11, <2>2, Zenon
    <3> QED BY <3>1, Zenon
  <2> QED BY <2>1, <2>2, Zenon
<1> QED BY <1>2, <1>3, <1>4, <1>10, <1>11, ZenonT(30)

\* Deliver moves a decoded answer to its channel, or drops it.
LEMMA DeliverMoves ==
    ASSUME ConnType, OnePlace, NEW d \in decoding, Deliver(d)
    PROVE  /\ Decoded(d.req) /\ d.req \in Requests /\ d.ch \in Channels
           /\ decoding' = decoding \ {d}
           /\ \A ch \in Channels : buf'[ch] = buf[ch] \/ (ch = d.ch /\ buf'[ch] = {d.req})
           /\ OneBuffered'
           /\ UNCHANGED <<input, messageID, cache, wire, callVars>>
<1>1. Decoded(d.req) /\ d.req \in Requests /\ d.ch \in Channels
  BY Zenon DEF Decoded, ConnType
<1>2. \A ch \in Channels : buf'[ch] = buf[ch] \/ (ch = d.ch /\ buf'[ch] = {d.req})
  BY <1>1, Zenon DEF Deliver, ConnType
<1>3. \A ch \in Channels : d.req \notin buf[ch]
  BY <1>1, OnePlaceParts, Zenon DEF Alone, Buffered
<1>4. OneBuffered
  BY OnePlaceParts, Zenon
<1>5. ASSUME NEW ch \in Channels, NEW dh \in Channels, NEW o \in buf'[ch], o \in buf'[dh] PROVE ch = dh
  <2>1. o \in buf[ch] \/ (ch = d.ch /\ o = d.req)
    BY <1>2, <1>5, Zenon
  <2>2. o \in buf[dh] \/ (dh = d.ch /\ o = d.req)
    BY <1>2, <1>5, Zenon
  <2> QED BY <1>3, <1>4, <2>1, <2>2, Zenon DEF OneBuffered
<1>6. OneBuffered'
  BY <1>5, Zenon DEF OneBuffered
<1>7. decoding' = decoding \ {d} /\ UNCHANGED <<input, messageID, cache, wire, callVars>>
  BY Zenon DEF Deliver
<1> QED BY <1>1, <1>2, <1>6, <1>7, Zenon

\* The steps as they look to a verdict.
Silent == UNCHANGED <<connVars, call, ended, result>>
Fallback(r) == (Turn(r) \/ Quit(r)) /\ UNCHANGED <<connVars, ended>>

\* The steps, by what they do to what stands for a verdict.
LEMMA VerdictSteps ==
    ASSUME KeepType, ReqType, [Next]_vars
    PROVE  \/ Silent
           \/ \E k \in Keepers : writeHandler(k)
           \/ \E c \in open : Close(c)
           \/ \E m \in wire : rpcDecoder(m)
           \/ \E d \in decoding : Deliver(d)
           \/ \E r \in Requests : Fallback(r) \/ RequestRPC(r) \/ Receive(r) \/ GiveUp(r) \/ ContextEnds(r)
<1>1. ASSUME NEW k \in Keepers, Enlist(k) \/ Dial(k) \/ MarkHealthy(k) \/ Delist(k) PROVE Silent
  BY <1>1, Zenon DEF Enlist, Dial, MarkHealthy, Delist, Silent, callVars
<1>2. ASSUME NEW r \in Requests, ValidateBlock(r) \/ TryNode(r) \/ Get(r) \/ TryOther(r) PROVE Silent \/ Fallback(r)
  BY <1>2, Turns, Zenon DEF Silent, Fallback
<1>3. CASE UNCHANGED vars
  BY <1>3, Zenon DEF vars, callVars, Silent
<1>4. CASE Next
  BY <1>1, <1>2, <1>4, ZenonT(30) DEF Next, Step
<1> QED BY <1>3, <1>4, Zenon

\* A step that leaves the verdicts where they are, or loses some.
LEMMA FewerPlaces ==
    ASSUME OnePlace, UNCHANGED input, wire' \subseteq wire, UNCHANGED decoding, \A ch \in Channels : buf'[ch] \subseteq buf[ch]
    PROVE  /\ \A o \in Requests : /\ Queued(o)' => Queued(o)
                                  /\ OnWire(o)' => OnWire(o)
                                  /\ Decoded(o)' => Decoded(o)
                                  /\ Buffered(o)' => Buffered(o)
           /\ OnePlace'
<1>1. ASSUME NEW o \in Requests PROVE (Queued(o)' => Queued(o)) /\ (Decoded(o)' => Decoded(o))
  BY Zenon DEF Queued, Decoded
<1>2. ASSUME NEW o \in Requests PROVE (OnWire(o)' => OnWire(o)) /\ (Buffered(o)' => Buffered(o))
  BY Zenon DEF OnWire, Buffered
<1>3. OneQueued' /\ OneDecoded'
  BY OnePlaceParts DEF OneQueued, OneDecoded
<1>4. OneOnWire'
  BY OnePlaceParts, Zenon DEF OneOnWire
<1>5. OneBuffered'
  <2>1. OneBuffered
    BY OnePlaceParts, Zenon
  <2> QED BY <2>1, Zenon DEF OneBuffered
<1>6. \A o \in Requests : Alone(o)'
  BY <1>1, <1>2, OnePlaceParts, Zenon DEF Alone
<1> QED BY <1>1, <1>2, <1>3, <1>4, <1>5, <1>6, OnePlacePartsPrime, ZenonT(30)

\* Every step keeps what stands for a verdict in one place.
LEMMA Next_OnePlace ==
    ASSUME KeepType, ConnType, ReqType, OnePlace, SentInv, CacheInv, [Next]_vars
    PROVE  OnePlace'
<1>1. CASE Silent
  BY <1>1, FewerPlaces, Zenon DEF Silent, connVars
<1>2. ASSUME NEW k \in Keepers, writeHandler(k) PROVE OnePlace'
  <2> DEFINE q == input[k][1].req
             m0 == [through |-> Current(k), id |-> input[k][1].id, req |-> q]
  <2>1. /\ q \in Requests /\ Queued(q) /\ wire' = wire \cup {m0}
        /\ \A l \in Keepers : \A i \in DOMAIN input'[l] :
              \E j \in DOMAIN input[l] : input'[l][i] = input[l][j] /\ input[l][j].req # q
        /\ OneQueued'
        /\ UNCHANGED <<buf, decoding>>
    BY <1>2, WriteMoves, ZenonT(30)
  <2>2. m0.req = q
    BY Zenon
  <2> HIDE DEF q, m0
  <2>3. \A m \in wire : m.req # q
    BY <2>1, OnePlaceParts, ZenonT(30) DEF Alone, OnWire
  <2>4. OneOnWire'
    BY <2>1, <2>2, <2>3, OnePlaceParts, ZenonT(30) DEF OneOnWire
  <2>5. OneDecoded' /\ OneBuffered'
    BY <2>1, OnePlaceParts, Zenon DEF OneDecoded, OneBuffered
  <2>6. ASSUME NEW o \in Requests
        PROVE  /\ Queued(o)' => Queued(o) /\ o # q
               /\ OnWire(o)' => OnWire(o) \/ o = q
               /\ Decoded(o)' <=> Decoded(o)
               /\ Buffered(o)' <=> Buffered(o)
    <3>1. Queued(o)' => Queued(o) /\ o # q
      BY <2>1 DEF Queued
    <3>2. OnWire(o)' => OnWire(o) \/ o = q
      BY <2>1, <2>2, Zenon DEF OnWire
    <3>3. (Decoded(o)' <=> Decoded(o)) /\ (Buffered(o)' <=> Buffered(o))
      BY <2>1, Zenon DEF Decoded, Buffered
    <3> QED BY <3>1, <3>2, <3>3, Zenon
  <2>7. \A o \in Requests : Alone(o)'
    BY <2>1, <2>6, OnePlaceParts, ZenonT(30) DEF Alone
  <2> QED BY <2>1, <2>4, <2>5, <2>7, OnePlacePartsPrime, ZenonT(30)
<1>3. ASSUME NEW c \in open, Close(c) PROVE OnePlace'
  BY <1>3, FewerPlaces, Zenon DEF Close
<1>4. ASSUME NEW m \in wire, rpcDecoder(m) PROVE OnePlace'
  <2>1. /\ OnWire(m.req) /\ m.req \in Requests /\ wire' = wire \ {m} /\ UNCHANGED <<input, buf>>
        /\ \A d \in decoding' : d \in decoding \/ d.req = m.req
        /\ OneDecoded'
    BY <1>4, DecodeMoves, ZenonT(30)
  <2>2. OneQueued' /\ OneBuffered' /\ OneOnWire'
    BY <2>1, OnePlaceParts DEF OneQueued, OneBuffered, OneOnWire
  <2>3. ASSUME NEW o \in Requests
        PROVE  /\ Queued(o)' <=> Queued(o)
               /\ OnWire(o)' => OnWire(o) /\ o # m.req
               /\ Decoded(o)' => Decoded(o) \/ o = m.req
               /\ Buffered(o)' <=> Buffered(o)
    <3>1. (Queued(o)' <=> Queued(o)) /\ (Buffered(o)' <=> Buffered(o))
      BY <2>1, Zenon DEF Queued, Buffered
    <3>2. OnWire(o)' => OnWire(o) /\ o # m.req
      BY <2>1, OnePlaceParts, Zenon DEF OnWire, OneOnWire
    <3>3. Decoded(o)' => Decoded(o) \/ o = m.req
      BY <2>1, Zenon DEF Decoded
    <3> QED BY <3>1, <3>2, <3>3, Zenon
  <2>4. \A o \in Requests : Alone(o)'
    BY <2>1, <2>3, OnePlaceParts, Zenon DEF Alone
  <2> QED BY <2>1, <2>2, <2>4, OnePlacePartsPrime, ZenonT(30)
<1>5. ASSUME NEW d \in decoding, Deliver(d) PROVE OnePlace'
  <2>1. /\ Decoded(d.req) /\ d.req \in Requests /\ decoding' = decoding \ {d} /\ UNCHANGED <<input, wire>>
        /\ \A ch \in Channels : buf'[ch] = buf[ch] \/ (ch = d.ch /\ buf'[ch] = {d.req})
        /\ OneBuffered'
    BY <1>5, DeliverMoves, Zenon
  <2>2. OneQueued' /\ OneDecoded' /\ OneOnWire'
    BY <2>1, OnePlaceParts DEF OneQueued, OneDecoded, OneOnWire
  <2>3. ASSUME NEW o \in Requests
        PROVE  /\ Queued(o)' <=> Queued(o)
               /\ OnWire(o)' <=> OnWire(o)
               /\ Decoded(o)' => Decoded(o) /\ o # d.req
               /\ Buffered(o)' => Buffered(o) \/ o = d.req
    <3>1. (Queued(o)' <=> Queued(o)) /\ (OnWire(o)' <=> OnWire(o))
      BY <2>1, Zenon DEF Queued, OnWire
    <3>2. Decoded(o)' => Decoded(o) /\ o # d.req
      BY <2>1, OnePlaceParts, Zenon DEF Decoded, OneDecoded
    <3>3. Buffered(o)' => Buffered(o) \/ o = d.req
      BY <2>1, Zenon DEF Buffered
    <3> QED BY <3>1, <3>2, <3>3, Zenon
  <2>4. \A o \in Requests : Alone(o)'
    BY <2>1, <2>3, OnePlaceParts, Zenon DEF Alone
  <2> QED BY <2>1, <2>2, <2>4, OnePlacePartsPrime, ZenonT(30)
<1>6. ASSUME NEW r \in Requests, RequestRPC(r) PROVE OnePlace'
  <2>1. PICK k \in Keepers, id \in Nat :
            /\ call[r].pc = "send" /\ UNCHANGED <<buf, decoding, wire>>
            /\ input' = [input EXCEPT ![k] = Append(input[k], [id |-> id, req |-> r])]
    <3>1. /\ call[r].conn[1] \in Keepers /\ messageID[call[r].conn] \in Nat
          /\ call[r].pc = "send" /\ UNCHANGED <<buf, decoding, wire>>
          /\ input' = [input EXCEPT ![call[r].conn[1]] =
                          Append(input[call[r].conn[1]], [id |-> messageID[call[r].conn] + 1, req |-> r])]
      BY <1>6, Requested, ZenonT(30)
    <3>2. messageID[call[r].conn] + 1 \in Nat
      BY <3>1
    <3> QED BY <3>1, <3>2, ZenonT(30)
  <2>2. ~Out(r)
    BY <2>1, Zenon DEF SentInv
  <2>3. /\ \A l \in Keepers : \A i \in DOMAIN input'[l] :
              \/ i \in DOMAIN input[l] /\ input'[l][i] = input[l][i]
              \/ input'[l][i] = [id |-> id, req |-> r]
        /\ OneQueued'
    BY <2>1, <2>2, RequestMoves, ZenonT(30) DEF Out
  <2>4. OneOnWire' /\ OneDecoded' /\ OneBuffered'
    BY <2>1, OnePlaceParts, Zenon DEF OneOnWire, OneDecoded, OneBuffered
  <2>5. ASSUME NEW o \in Requests
        PROVE  /\ Queued(o)' => Queued(o) \/ o = r
               /\ (OnWire(o)' <=> OnWire(o)) /\ (Decoded(o)' <=> Decoded(o)) /\ (Buffered(o)' <=> Buffered(o))
    <3>1. Queued(o)' => Queued(o) \/ o = r
      BY <2>3 DEF Queued
    <3>2. (OnWire(o)' <=> OnWire(o)) /\ (Decoded(o)' <=> Decoded(o)) /\ (Buffered(o)' <=> Buffered(o))
      BY <2>1, Zenon DEF OnWire, Decoded, Buffered
    <3> QED BY <3>1, <3>2, ZenonT(30)
  <2>6. \A o \in Requests : Alone(o)'
    BY <2>2, <2>5, OnePlaceParts, Zenon DEF Alone, Out
  <2> QED BY <2>3, <2>4, <2>6, OnePlacePartsPrime, Zenon
<1>7. ASSUME NEW r \in Requests, Receive(r) PROVE OnePlace'
  <2>1. buf' = [buf EXCEPT ![call[r].ch] = {}] /\ UNCHANGED <<input, wire, decoding>>
    BY <1>7, Zenon DEF Receive
  <2>2. \A ch \in Channels : buf'[ch] \subseteq buf[ch]
    BY <2>1, Zenon DEF ConnType
  <2> QED BY <2>1, <2>2, FewerPlaces, Zenon
<1>8. ASSUME NEW r \in Requests, Fallback(r) \/ GiveUp(r) \/ ContextEnds(r) PROVE UNCHANGED <<input, wire, decoding, buf>>
  BY <1>8, Zenon DEF Fallback, GiveUp, ContextEnds, connVars
<1>9. ASSUME UNCHANGED <<input, wire, decoding, buf>> PROVE OnePlace'
  BY <1>9, FewerPlaces, Zenon
<1> QED BY <1>1, <1>2, <1>3, <1>4, <1>5, <1>6, <1>7, <1>8, <1>9, VerdictSteps, ZenonT(30)

-----------------------------------------------------------------------------
(* Identifiers and channels *)

\* Calls that stop waiting and entries that leave the cache do no harm.
LEMMA CacheShrinks ==
    ASSUME CacheInv, cache' \subseteq cache, UNCHANGED messageID,
           \A q \in Requests : call'[q].pc = "wait" => call'[q] = call[q]
    PROVE  CacheInv'
<1>1. \A e \in cache' : e.ch[1] = e.conn /\ e.id <= messageID'[e.conn]
  BY Zenon DEF CacheInv
<1>2. \A e, f \in cache' : e.conn = f.conn /\ e.id = f.id => e = f
  BY Zenon DEF CacheInv
<1>3. ASSUME NEW q \in Requests, call'[q].pc = "wait"
      PROVE  /\ call'[q].ch[1] = call'[q].conn /\ call'[q].id <= messageID'[call'[q].conn]
             /\ \A e \in cache' : e.conn = call'[q].conn /\ e.id = call'[q].id => e.ch = call'[q].ch
  BY <1>3, SMTT(30) DEF CacheInv
<1>4. \A q, o \in Requests : call'[q].pc = "wait" /\ call'[o].pc = "wait" /\ call'[q].ch = call'[o].ch => q = o
  BY DEF CacheInv
<1> QED BY <1>1, <1>2, <1>3, <1>4, ZenonT(30) DEF CacheInv

\* A new identifier is on no pending request of its connection, and a channel of
\* the pool is waited on by nobody.
LEMMA RequestCacheInv ==
    ASSUME KeepType, ConnType, ReqType, CacheInv, NEW r \in Requests, RequestRPC(r)
    PROVE  CacheInv'
<1> DEFINE c == call[r].conn
           id == messageID[c] + 1
<1>1. PICK ch \in Pool(c) :
          /\ c \in Conns /\ messageID[c] \in Nat /\ ch[1] = c
          /\ cache' = cache \cup {[conn |-> c, id |-> id, ch |-> ch]}
          /\ call'[r].pc = "wait" /\ call'[r].conn = c /\ call'[r].id = id /\ call'[r].ch = ch
          /\ \A q \in Requests \ {r} : call'[q] = call[q]
          /\ messageID' = [messageID EXCEPT ![c] = id]
  BY Requested, ZenonT(30)
<1>2. PICK new : new = [conn |-> c, id |-> id, ch |-> ch]
  BY ZenonT(30)
<1>3. new.conn = c /\ new.id = id /\ new.ch = ch /\ cache' = cache \cup {new}
  BY <1>1, <1>2, ZenonT(30)
<1>4. \A b \in Conns : messageID'[b] \in Nat /\ messageID[b] \in Nat /\ messageID[b] <= messageID'[b]
  BY <1>1, SMTT(30) DEF ConnType
<1>5. messageID'[c] = id /\ ~(id <= messageID[c]) /\ id <= id
  BY <1>1 DEF ConnType
<1> HIDE DEF id
<1>6. \A e \in cache : e.conn \in Conns /\ e.id \in Nat
  BY Zenon DEF ConnType
<1>7. \A e \in cache : e.conn = c => e.id # id
  BY <1>5, Zenon DEF CacheInv
<1>8. ASSUME NEW e \in cache PROVE e.ch[1] = e.conn /\ e.id <= messageID'[e.conn]
  <2>1. e.ch[1] = e.conn /\ e.id <= messageID[e.conn]
    BY ZenonT(30) DEF CacheInv
  <2> QED BY <1>4, <1>6, <2>1, SMTT(30)
<1>9. \A e \in cache' : e.ch[1] = e.conn /\ e.id <= messageID'[e.conn]
  BY <1>1, <1>3, <1>5, <1>8, ZenonT(30)
<1>10. \A e, f \in cache' : e.conn = f.conn /\ e.id = f.id => e = f
  BY <1>3, <1>7, SMTT(30) DEF CacheInv
<1>11. ASSUME NEW q \in Requests, call'[q].pc = "wait"
       PROVE  /\ call'[q].ch[1] = call'[q].conn /\ call'[q].id <= messageID'[call'[q].conn]
              /\ \A e \in cache' : e.conn = call'[q].conn /\ e.id = call'[q].id => e.ch = call'[q].ch
  <2>1. CASE q = r
    BY <1>1, <1>3, <1>5, <1>7, <2>1, ZenonT(30)
  <2>2. CASE q # r
    <3>1. call'[q] = call[q] /\ call[q].pc = "wait"
      BY <1>1, <1>11, <2>2, Zenon
    <3>2. call[q].conn \in Conns /\ call[q].id \in Nat
      BY <3>1, Zenon DEF ReqType, CallType
    <3>3. /\ call[q].ch[1] = call[q].conn /\ call[q].id <= messageID[call[q].conn]
          /\ \A e \in cache : e.conn = call[q].conn /\ e.id = call[q].id => e.ch = call[q].ch
      BY <3>1, Zenon DEF CacheInv
    <3>4. call[q].id <= messageID'[call[q].conn]
      BY <1>4, <3>2, <3>3, SMTT(30)
    <3>5. call[q].conn = c => call[q].id # id
      BY <1>5, <3>3, ZenonT(30)
    <3> QED BY <1>3, <3>1, <3>3, <3>4, <3>5, ZenonT(30)
  <2> QED BY <2>1, <2>2, Zenon
<1>12. ASSUME NEW q \in Requests, q # r, call'[q].pc = "wait" PROVE call'[q].ch # call'[r].ch
  <2>1. ch \notin Held
    BY <1>1, Zenon DEF Pool
  <2>2. call[q].ch # ch
    BY <1>1, <1>12, <2>1, Zenon DEF Held
  <2> QED BY <1>1, <1>12, <2>2, ZenonT(30)
<1>13. ASSUME NEW q \in Requests, NEW o \in Requests, call'[q].pc = "wait", call'[o].pc = "wait", call'[q].ch = call'[o].ch
       PROVE  q = o
  <2>1. CASE q = r \/ o = r
    BY <1>12, <1>13, <2>1, ZenonT(30)
  <2>2. CASE q # r /\ o # r
    BY <1>1, <1>13, <2>2, SMTT(30) DEF CacheInv
  <2> QED BY <2>1, <2>2, Zenon
<1> QED BY <1>9, <1>10, <1>11, <1>13, ZenonT(30) DEF CacheInv

\* Every step keeps identifiers and channels apart.
LEMMA Next_CacheInv ==
    ASSUME KeepType, ConnType, ReqType, CacheInv, [Next]_vars
    PROVE  CacheInv'
<1>1. ASSUME cache' \subseteq cache, UNCHANGED <<messageID, call>> PROVE CacheInv'
  BY <1>1, CacheShrinks, Zenon
<1>2. ASSUME \/ Silent
             \/ \E k \in Keepers : writeHandler(k)
             \/ \E c \in open : Close(c)
             \/ \E d \in decoding : Deliver(d)
             \/ \E r \in Requests : ContextEnds(r)
      PROVE  UNCHANGED <<cache, messageID, call>>
  BY <1>2, ZenonT(30) DEF Silent, writeHandler, Close, Deliver, ContextEnds, connVars, callVars
<1>3. ASSUME NEW m \in wire, rpcDecoder(m) PROVE cache' \subseteq cache /\ UNCHANGED <<messageID, call>>
  BY <1>3, Zenon DEF rpcDecoder, callVars
<1>4. ASSUME NEW r \in Requests, NEW about \in Requests \cup {"error"}, Return(r, about), UNCHANGED <<cache, messageID>> PROVE CacheInv'
  <2>1. \A q \in Requests : call'[q].pc = "wait" => call'[q] = call[q]
    BY <1>4, Returned, Zenon
  <2> QED BY <1>4, <2>1, CacheShrinks, Zenon
<1>5. ASSUME NEW r \in Requests, Fallback(r) PROVE CacheInv'
  <2>1. UNCHANGED <<cache, messageID>>
    BY <1>5, Zenon DEF Fallback, connVars
  <2>2. CASE Turn(r)
    <3>1. \A q \in Requests : call'[q].pc = "wait" => call'[q] = call[q]
      BY <2>2, Turned, Zenon
    <3> QED BY <2>1, <3>1, CacheShrinks, Zenon
  <2>3. CASE Quit(r)
    BY <1>4, <2>1, <2>3, Zenon DEF Quit
  <2> QED BY <1>5, <2>2, <2>3, Zenon DEF Fallback
<1>6. ASSUME NEW r \in Requests, Receive(r) PROVE CacheInv'
  BY <1>4, <1>6, Received, Zenon
<1>7. ASSUME NEW r \in Requests, GiveUp(r) PROVE CacheInv'
  <2>1. \A q \in Requests : call'[q].pc = "wait" => call'[q] = call[q]
    BY <1>7, GaveUp, Zenon
  <2> QED BY <1>7, <2>1, CacheShrinks, GaveUp, Zenon
<1> QED BY <1>1, <1>2, <1>3, <1>5, <1>6, <1>7, RequestCacheInv, VerdictSteps, ZenonT(30)

-----------------------------------------------------------------------------
(* A block is sent once, by a call that waits *)

\* Only RequestRPC brings anything about a block out.
LEMMA OutSteps ==
    ASSUME KeepType, ConnType, ReqType, OnePlace, CacheInv,
           \/ Silent
           \/ \E k \in Keepers : writeHandler(k)
           \/ \E c \in open : Close(c)
           \/ \E m \in wire : rpcDecoder(m)
           \/ \E d \in decoding : Deliver(d)
           \/ \E r \in Requests : Fallback(r) \/ Receive(r) \/ GiveUp(r) \/ ContextEnds(r)
    PROVE  \A o \in Requests : Out(o)' => Out(o)
<1>1. ASSUME UNCHANGED input, wire' \subseteq wire, UNCHANGED decoding, \A ch \in Channels : buf'[ch] \subseteq buf[ch]
      PROVE  \A o \in Requests : Out(o)' => Out(o)
  BY <1>1, FewerPlaces, ZenonT(30) DEF Out
<1>2. ASSUME UNCHANGED <<input, wire, decoding, buf>> PROVE \A o \in Requests : Out(o)' => Out(o)
  BY <1>1, <1>2, Zenon
<1>3. ASSUME Silent \/ \E r \in Requests : Fallback(r) \/ GiveUp(r) \/ ContextEnds(r) PROVE UNCHANGED <<input, wire, decoding, buf>>
  BY <1>3, Zenon DEF Silent, Fallback, GiveUp, ContextEnds, connVars
<1>4. ASSUME NEW k \in Keepers, writeHandler(k) PROVE \A o \in Requests : Out(o)' => Out(o)
  <2>1. /\ Queued(input[k][1].req)
        /\ \A l \in Keepers : \A i \in DOMAIN input'[l] : \E j \in DOMAIN input[l] : input'[l][i] = input[l][j]
        /\ \A m \in wire' : m \in wire \/ m.req = input[k][1].req
        /\ UNCHANGED <<buf, decoding>>
    BY <1>4, WriteMoves, SMTT(30)
  <2>2. ASSUME NEW o \in Requests, Queued(o)' PROVE Queued(o)
    BY <2>1, <2>2 DEF Queued
  <2>3. ASSUME NEW o \in Requests, OnWire(o)' PROVE OnWire(o) \/ Queued(o)
    <3>1. PICK m \in wire' : m.req = o
      BY <2>3, Zenon DEF OnWire
    <3>2. CASE m \in wire
      BY <3>1, <3>2, Zenon DEF OnWire
    <3>3. CASE m.req = input[k][1].req
      BY <2>1, <3>1, <3>3, Zenon
    <3> QED BY <2>1, <3>2, <3>3, Zenon
  <2>4. \A o \in Requests : (Decoded(o)' => Decoded(o)) /\ (Buffered(o)' => Buffered(o))
    BY <2>1, ZenonT(30) DEF Decoded, Buffered
  <2> QED BY <2>2, <2>3, <2>4, ZenonT(30) DEF Out
<1>5. ASSUME NEW c \in open, Close(c) PROVE \A o \in Requests : Out(o)' => Out(o)
  BY <1>1, <1>5, Zenon DEF Close
<1>6. ASSUME NEW m \in wire, rpcDecoder(m) PROVE \A o \in Requests : Out(o)' => Out(o)
  <2>1. /\ OnWire(m.req) /\ wire' \subseteq wire /\ UNCHANGED <<input, buf>>
        /\ \A d \in decoding' : d \in decoding \/ d.req = m.req
    BY <1>6, DecodeMoves, ZenonT(30)
  <2>2. \A o \in Requests : Decoded(o)' => Decoded(o) \/ OnWire(o)
    BY <2>1, ZenonT(30) DEF Decoded
  <2>3. \A o \in Requests : (Queued(o)' => Queued(o)) /\ (OnWire(o)' => OnWire(o)) /\ (Buffered(o)' => Buffered(o))
    BY <2>1, Zenon DEF Queued, OnWire, Buffered
  <2> QED BY <2>2, <2>3, ZenonT(30) DEF Out
<1>7. ASSUME NEW d \in decoding, Deliver(d) PROVE \A o \in Requests : Out(o)' => Out(o)
  <2>1. /\ Decoded(d.req) /\ decoding' \subseteq decoding /\ UNCHANGED <<input, wire>>
        /\ \A ch \in Channels : buf'[ch] = buf[ch] \/ buf'[ch] = {d.req}
    BY <1>7, DeliverMoves, Zenon
  <2>2. \A o \in Requests : Buffered(o)' => Buffered(o) \/ Decoded(o)
    BY <2>1, Zenon DEF Buffered
  <2>3. \A o \in Requests : (Queued(o)' => Queued(o)) /\ (OnWire(o)' => OnWire(o)) /\ (Decoded(o)' => Decoded(o))
    BY <2>1, ZenonT(30) DEF Queued, OnWire, Decoded
  <2> QED BY <2>2, <2>3, ZenonT(30) DEF Out
<1>8. ASSUME NEW r \in Requests, Receive(r) PROVE \A o \in Requests : Out(o)' => Out(o)
  <2>1. buf' = [buf EXCEPT ![call[r].ch] = {}] /\ UNCHANGED <<input, wire, decoding>>
    BY <1>8, Zenon DEF Receive
  <2>2. \A ch \in Channels : buf'[ch] \subseteq buf[ch]
    BY <2>1, Zenon DEF ConnType
  <2> QED BY <1>1, <2>1, <2>2, Zenon
<1> QED BY <1>2, <1>3, <1>4, <1>5, <1>6, <1>7, <1>8, ZenonT(30)

\* What a call has received is nowhere else.
LEMMA ReceivedIsGone ==
    ASSUME ConnType, OnePlace, NEW ch \in Channels, NEW about \in Requests, about \in buf[ch],
           buf' = [buf EXCEPT ![ch] = {}], UNCHANGED <<input, wire, decoding>>
    PROVE  ~Out(about)'
<1>1. Buffered(about)
  BY Zenon DEF Buffered
<1>2. ~Queued(about) /\ ~OnWire(about) /\ ~Decoded(about)
  BY <1>1, OnePlaceParts, ZenonT(30) DEF Alone
<1>3. ~Queued(about)' /\ ~OnWire(about)' /\ ~Decoded(about)'
  BY <1>2, Zenon DEF Queued, OnWire, Decoded
<1>4. \A dh \in Channels : about \notin buf'[dh]
  BY OnePlaceParts, Zenon DEF OneBuffered, ConnType
<1>5. ~Buffered(about)'
  BY <1>4, Zenon DEF Buffered
<1> QED BY <1>3, <1>5, Zenon DEF Out

\* A verdict stays, and so does the end of a context.
LEMMA LostStays ==
    ASSUME KeepType, ConnType, ReqType, [Next]_vars, NEW o \in Requests, Lost(o)
    PROVE  Lost(o)'
<1>1. ASSUME ended \subseteq ended', result'[o] = result[o] \/ result[o] = "none" PROVE Lost(o)'
  <2>1. "none" \notin Requests
    BY SimAssumption, Zenon
  <2> QED BY <1>1, <2>1, Zenon DEF Lost
<1>2. ASSUME UNCHANGED <<ended, result>> PROVE Lost(o)'
  BY <1>1, <1>2, Zenon
<1>3. ASSUME \/ Silent
             \/ \E k \in Keepers : writeHandler(k)
             \/ \E c \in open : Close(c)
             \/ \E m \in wire : rpcDecoder(m)
             \/ \E d \in decoding : Deliver(d)
             \/ \E r \in Requests : RequestRPC(r) \/ GiveUp(r)
      PROVE  UNCHANGED <<ended, result>>
  BY <1>3, ZenonT(30) DEF Silent, writeHandler, Close, rpcDecoder, Deliver, RequestRPC, GiveUp, callVars
<1>4. ASSUME NEW r \in Requests, ContextEnds(r) PROVE Lost(o)'
  BY <1>1, <1>4, Zenon DEF ContextEnds
<1>5. ASSUME NEW r \in Requests, NEW about \in Requests \cup {"error"}, Return(r, about), call[r].pc # "done", UNCHANGED ended PROVE Lost(o)'
  <2>1. result[r] = "none"
    BY <1>5, Zenon DEF ReqType
  <2>2. result'[o] = result[o] \/ result[o] = "none"
    BY <1>5, <2>1, Returned, Zenon
  <2> QED BY <1>1, <1>5, <2>2, Zenon
<1>6. ASSUME NEW r \in Requests, Fallback(r) PROVE Lost(o)'
  <2>1. CASE Turn(r)
    BY <1>2, <1>6, <2>1, Zenon DEF Fallback, Turn
  <2>2. CASE Quit(r)
    BY <1>5, <1>6, <2>2, Zenon DEF Fallback, Quit
  <2> QED BY <1>6, <2>1, <2>2, Zenon DEF Fallback
<1>7. ASSUME NEW r \in Requests, Receive(r) PROVE Lost(o)'
  BY <1>5, <1>7, Received, Zenon
<1> QED BY <1>2, <1>3, <1>4, <1>6, <1>7, VerdictSteps, ZenonT(30)

Sent(o) == call[o].pc \in {"wait", "failed", "done"}

\* What a step has to show for SentInv.
LEMMA SentStep ==
    ASSUME SentInv,
           \A o \in Requests : Out(o)' => /\ Sent(o)'
                                          /\ call'[o].pc = "wait" \/ Lost(o)',
           \A r, o \in Requests : r # o /\ result'[r] = o => Sent(o)',
           \A r \in Requests : call'[r].pc = "failed" => r \in ended'
    PROVE  SentInv'
BY Zenon DEF SentInv, Sent

\* Every step keeps that what is out about a block was sent by a call that
\* waits or is lost.
LEMMA Next_SentInv ==
    ASSUME KeepType, ConnType, ReqType, OnePlace, SentInv, CacheInv, [Next]_vars
    PROVE  SentInv'
<1>1. \A o \in Requests : Lost(o) => Lost(o)'
  BY LostStays, Zenon
<1>2. ASSUME UNCHANGED <<call, result>>, ended \subseteq ended', \A o \in Requests : Out(o)' => Out(o) PROVE SentInv'
  <2>1. ASSUME NEW o \in Requests, Out(o)' PROVE Sent(o)' /\ (call'[o].pc = "wait" \/ Lost(o)')
    <3>1. Sent(o) /\ (call[o].pc = "wait" \/ Lost(o))
      BY <1>2, <2>1, Zenon DEF SentInv, Sent
    <3> QED BY <1>1, <1>2, <3>1, Zenon DEF Sent
  <2>2. \A r, o \in Requests : r # o /\ result'[r] = o => Sent(o)'
    BY <1>2, Zenon DEF SentInv, Sent
  <2>3. \A r \in Requests : call'[r].pc = "failed" => r \in ended'
    BY <1>2, Zenon DEF SentInv
  <2> QED BY <2>1, <2>2, <2>3, SentStep, Zenon
<1>3. ASSUME \/ Silent
             \/ \E k \in Keepers : writeHandler(k)
             \/ \E c \in open : Close(c)
             \/ \E m \in wire : rpcDecoder(m)
             \/ \E d \in decoding : Deliver(d)
      PROVE  UNCHANGED <<call, ended, result>>
  BY <1>3, ZenonT(30) DEF Silent, writeHandler, Close, rpcDecoder, Deliver, callVars
<1>4. ASSUME NEW r \in Requests, ContextEnds(r) PROVE UNCHANGED <<call, result>> /\ ended \subseteq ended'
  BY <1>4, Zenon DEF ContextEnds
<1>5. ASSUME NEW r \in Requests, \A q \in Requests \ {r} : call'[q] = call[q], UNCHANGED ended, call'[r].pc = "failed" => r \in ended,
             \A o \in Requests \ {r} : Out(o)' => Out(o),
             Out(r)' => Sent(r)' /\ (call'[r].pc = "wait" \/ Lost(r)'),
             \A o \in Requests : o # r /\ result'[r] = o => Sent(o),
             \A q \in Requests \ {r} : result'[q] = result[q],
             Sent(r)' \/ ~Sent(r)
      PROVE  SentInv'
  <2>1. ASSUME NEW o \in Requests, Out(o)' PROVE Sent(o)' /\ (call'[o].pc = "wait" \/ Lost(o)')
    <3>1. CASE o = r
      BY <1>5, <2>1, <3>1, Zenon
    <3>2. CASE o # r
      <4>1. Sent(o) /\ (call[o].pc = "wait" \/ Lost(o)) /\ call'[o] = call[o]
        BY <1>5, <2>1, <3>2, ZenonT(30) DEF SentInv, Sent
      <4> QED BY <1>1, <4>1, Zenon DEF Sent
    <3> QED BY <3>1, <3>2, Zenon
  <2>2. ASSUME NEW q \in Requests, NEW o \in Requests, q # o, result'[q] = o PROVE Sent(o)'
    <3>1. Sent(o)
      <4>1. CASE q = r
        BY <1>5, <2>2, <4>1, ZenonT(30)
      <4>2. CASE q # r
        BY <1>5, <2>2, <4>2, Zenon DEF SentInv, Sent
      <4> QED BY <4>1, <4>2, Zenon
    <3>2. CASE o = r
      BY <1>5, <3>1, <3>2, ZenonT(30)
    <3>3. CASE o # r
      BY <1>5, <3>1, <3>3, ZenonT(30) DEF Sent
    <3> QED BY <3>2, <3>3, Zenon
  <2>3. \A q \in Requests : call'[q].pc = "failed" => q \in ended'
    BY <1>5, Zenon DEF SentInv
  <2> QED BY <2>1, <2>2, <2>3, SentStep, Zenon
<1>6. ASSUME NEW r \in Requests, Fallback(r) PROVE SentInv'
  <2>1. UNCHANGED ended /\ \A o \in Requests : Out(o)' => Out(o)
    BY <1>6, OutSteps, Zenon DEF Fallback
  <2>2. CASE Turn(r)
    <3>1. call[r].pc \in {"idle", "try"} /\ UNCHANGED result /\ result[r] = "none"
      BY <2>2, Zenon DEF Turn, SentInv, ReqType
    <3>2. ~Sent(r) /\ ~Out(r)
      BY <3>1, Zenon DEF SentInv, Sent
    <3>3. \A q \in Requests \ {r} : call'[q] = call[q]
      BY <2>2, Turned, Zenon
    <3>4. call'[r].pc # "failed" /\ "none" \notin Requests
      BY <2>2, Turned, SimAssumption, Zenon
    <3> QED BY <1>5, <2>1, <3>1, <3>2, <3>3, <3>4, ZenonT(30)
  <2>3. CASE Quit(r)
    <3>1. PICK about \in {"error", r} : Return(r, about) /\ call[r].pc \in {"try", "failed"}
      BY <2>3, Zenon DEF Quit
    <3>2. /\ call'[r].pc = "done" /\ result'[r] = about
          /\ \A q \in Requests \ {r} : call'[q] = call[q] /\ result'[q] = result[q]
      BY <3>1, Returned, Zenon
    <3>3. Out(r) => Lost(r)
      BY <3>1, Zenon DEF SentInv
    <3>4. Sent(r)'
      BY <3>2, Zenon DEF Sent
    <3>5. "error" \notin Requests
      BY SimAssumption, Zenon
    <3> QED BY <1>1, <1>5, <2>1, <3>1, <3>2, <3>3, <3>4, <3>5, ZenonT(30)
  <2> QED BY <1>6, <2>2, <2>3, ZenonT(30) DEF Fallback
<1>7. ASSUME NEW r \in Requests, RequestRPC(r) PROVE SentInv'
  <2>1. PICK k \in Keepers, id \in Nat :
            /\ call[r].pc = "send" /\ call'[r].pc = "wait" /\ UNCHANGED <<buf, decoding, wire, ended, result>>
            /\ \A q \in Requests \ {r} : call'[q] = call[q]
            /\ input' = [input EXCEPT ![k] = Append(input[k], [id |-> id, req |-> r])]
    <3>1. /\ call[r].conn[1] \in Keepers /\ messageID[call[r].conn] \in Nat
          /\ call[r].pc = "send" /\ call'[r].pc = "wait" /\ UNCHANGED <<buf, decoding, wire, ended, result>>
          /\ \A q \in Requests \ {r} : call'[q] = call[q]
          /\ input' = [input EXCEPT ![call[r].conn[1]] =
                          Append(input[call[r].conn[1]], [id |-> messageID[call[r].conn] + 1, req |-> r])]
      BY <1>7, Requested, ZenonT(30)
    <3>2. messageID[call[r].conn] + 1 \in Nat
      BY <3>1, SMTT(30)
    <3> QED BY <3>1, <3>2, ZenonT(30)
  <2>2. ~Queued(r) /\ result[r] = "none" /\ "none" \notin Requests
    BY <2>1, SimAssumption, ZenonT(30) DEF SentInv, Out, ReqType
  <2>3. \A l \in Keepers : \A i \in DOMAIN input'[l] :
            (i \in DOMAIN input[l] /\ input'[l][i] = input[l][i]) \/ input'[l][i] = [id |-> id, req |-> r]
    <3>1. input' = [input EXCEPT ![k] = Append(input[k], [id |-> id, req |-> r])] /\ k \in Keepers /\ id \in Nat
      BY <2>1, Zenon
    <3>2. ~Queued(r)
      BY <2>2, Zenon
    <3> QED BY <3>1, <3>2, RequestMoves, SMTT(30)
  <2>4. \A o \in Requests \ {r} : Queued(o)' => Queued(o)
    BY <2>3, SMTT(30) DEF Queued
  <2>5. \A o \in Requests : (OnWire(o)' => OnWire(o)) /\ (Decoded(o)' => Decoded(o)) /\ (Buffered(o)' => Buffered(o))
    BY <2>1, Zenon DEF OnWire, Decoded, Buffered
  <2>6. \A o \in Requests \ {r} : Out(o)' => Out(o)
    BY <2>4, <2>5, ZenonT(30) DEF Out
  <2>7. Sent(r)' /\ UNCHANGED ended /\ call'[r].pc = "wait" /\ call'[r].pc # "failed"
    BY <2>1, Zenon DEF Sent
  <2>8. /\ \A o \in Requests : o # r /\ result'[r] = o => Sent(o)
        /\ \A q \in Requests \ {r} : result'[q] = result[q]
    BY <2>1, <2>2, Zenon
  <2> QED BY <1>5, <2>1, <2>6, <2>7, <2>8, ZenonT(30)
<1>8. ASSUME NEW r \in Requests, Receive(r) PROVE SentInv'
  <2>1. PICK about \in Requests :
             /\ call[r].pc = "wait" /\ call[r].ch \in Channels /\ about \in buf[call[r].ch] /\ Return(r, about)
             /\ buf' = [buf EXCEPT ![call[r].ch] = {}]
             /\ UNCHANGED <<input, messageID, cache, decoding, wire, next, ended>>
    BY <1>8, Received, ZenonT(30)
  <2>2. /\ call'[r].pc = "done" /\ result'[r] = about
        /\ \A q \in Requests \ {r} : call'[q] = call[q] /\ result'[q] = result[q]
    BY <2>1, Returned, Zenon
  <2>3. \A o \in Requests : Out(o)' => Out(o)
    BY <1>8, OutSteps, Zenon
  <2>4. ~Out(about)'
    BY <2>1, ReceivedIsGone, ZenonT(30)
  <2>5. Sent(r)' /\ (about # r => Lost(r)')
    BY <2>2, Zenon DEF Sent, Lost
  <2>6. Sent(about)
    <3>1. Out(about)
      BY <2>1, Zenon DEF Out, Buffered
    <3> QED BY <3>1, Zenon DEF SentInv, Sent
  <2>7. /\ \A o \in Requests : o # r /\ result'[r] = o => Sent(o)
        /\ Out(r)' => Sent(r)' /\ (call'[r].pc = "wait" \/ Lost(r)')
        /\ call'[r].pc = "failed" => r \in ended
    BY <2>2, <2>4, <2>5, <2>6, ZenonT(30)
  <2> QED BY <1>5, <2>1, <2>2, <2>3, <2>5, <2>7, ZenonT(30)
<1>9. ASSUME NEW r \in Requests, GiveUp(r) PROVE SentInv'
  <2>1. /\ call'[r].pc = "failed" /\ r \in ended /\ call[r].pc = "wait"
        /\ \A q \in Requests \ {r} : call'[q] = call[q]
        /\ UNCHANGED <<ended, result>>
    BY <1>9, GaveUp, Zenon
  <2>2. \A o \in Requests : Out(o)' => Out(o)
    BY <1>9, OutSteps, Zenon
  <2>3. Sent(r)' /\ Lost(r)'
    BY <2>1, Zenon DEF Sent, Lost
  <2>4. \A o \in Requests : o # r /\ result'[r] = o => Sent(o)
    BY <2>1, Zenon DEF SentInv, Sent
  <2> QED BY <1>5, <2>1, <2>2, <2>3, <2>4, ZenonT(30)
<1>10. ASSUME \/ Silent
              \/ \E k \in Keepers : writeHandler(k)
              \/ \E c \in open : Close(c)
              \/ \E m \in wire : rpcDecoder(m)
              \/ \E d \in decoding : Deliver(d)
       PROVE  SentInv'
  <2>1. UNCHANGED <<call, ended, result>>
    BY <1>3, <1>10, Zenon
  <2>2. \A o \in Requests : Out(o)' => Out(o)
    BY <1>10, OutSteps, ZenonT(30)
  <2> QED BY <1>2, <2>1, <2>2, ZenonT(30)
<1>11. ASSUME NEW r \in Requests, ContextEnds(r) PROVE SentInv'
  <2>1. \A o \in Requests : Out(o)' => Out(o)
    BY <1>11, OutSteps, ZenonT(30)
  <2> QED BY <1>2, <1>4, <1>11, <2>1, ZenonT(30)
<1> QED BY <1>6, <1>7, <1>8, <1>9, <1>10, <1>11, VerdictSteps, ZenonT(30)

-----------------------------------------------------------------------------
(* Whose verdict a call takes *)

OwnAt(o) ==
    /\ \A k \in Keepers : \A i \in DOMAIN input[k] : input[k][i].req = o => input[k][i].id = call[o].id
    /\ \A m \in wire : m.req = o => m.id = call[o].id
    /\ \A d \in decoding : d.req = o => d.ch[1] # call[o].conn \/ d.ch = call[o].ch
    /\ \A ch \in Channels : o \in buf[ch] => ch[1] # call[o].conn \/ ch = call[o].ch
Elsewhere(o) == \A r \in Requests : r # o /\ result[r] = o => call[r].conn # call[o].conn

\* OwnInv, request by request.
LEMMA OwnParts == OwnInv <=> \A o \in Requests : ~Lost(o) => OwnAt(o) /\ Elsewhere(o)
BY Zenon DEF OwnInv, OwnAt, Elsewhere

\* The same after a step.
LEMMA OwnPartsPrime == (OwnInv <=> \A o \in Requests : ~Lost(o) => OwnAt(o) /\ Elsewhere(o))'
BY OwnParts, PTL

\* Of a block about which nothing is out there is nothing to show.
LEMMA NothingOut == \A o \in Requests : ~Out(o) => OwnAt(o)
BY Zenon DEF Out, Queued, OnWire, Decoded, Buffered, OwnAt

\* The same after a step.
LEMMA NothingOutPrime == (\A o \in Requests : ~Out(o) => OwnAt(o))'
BY NothingOut, PTL

\* What is on its way to its call stays so as long as nothing new is added.
LEMMA OwnKept ==
    ASSUME NEW o \in Requests, OwnAt(o), call'[o] = call[o],
           \A k \in Keepers : \A i \in DOMAIN input'[k] :
               input'[k][i].req = o => \E j \in DOMAIN input[k] : input'[k][i] = input[k][j],
           wire' \subseteq wire, decoding' \subseteq decoding, \A ch \in Channels : buf'[ch] \subseteq buf[ch]
    PROVE  OwnAt(o)'
<1>1. \A k \in Keepers : \A i \in DOMAIN input'[k] : input'[k][i].req = o => input'[k][i].id = call'[o].id
  BY DEF OwnAt
<1>2. \A m \in wire' : m.req = o => m.id = call'[o].id
  BY Zenon DEF OwnAt
<1>3. \A d \in decoding' : d.req = o => d.ch[1] # call'[o].conn \/ d.ch = call'[o].ch
  BY Zenon DEF OwnAt
<1>4. \A ch \in Channels : o \in buf'[ch] => ch[1] # call'[o].conn \/ ch = call'[o].ch
  BY Zenon DEF OwnAt
<1> QED BY <1>1, <1>2, <1>3, <1>4, ZenonT(30) DEF OwnAt

\* The steps of messages.
LEMMA OwnMessages ==
    ASSUME KeepType, ConnType, ReqType, OnePlace, SentInv, CacheInv, NEW o \in Requests, ~Lost(o), OwnAt(o),
           \/ Silent
           \/ \E k \in Keepers : writeHandler(k)
           \/ \E c \in open : Close(c)
           \/ \E m \in wire : rpcDecoder(m)
           \/ \E d \in decoding : Deliver(d)
    PROVE  OwnAt(o)'
<1>1. CASE Silent
  <2>1. UNCHANGED <<input, wire, decoding, buf, call>>
    BY <1>1, Zenon DEF Silent, connVars
  <2> QED BY <2>1, OwnKept, Zenon
<1>2. ASSUME NEW k \in Keepers, writeHandler(k) PROVE OwnAt(o)'
  <2> DEFINE m0 == [through |-> Current(k), id |-> input[k][1].id, req |-> input[k][1].req]
  <2>1. /\ 1 \in DOMAIN input[k] /\ wire' = wire \cup {m0} /\ UNCHANGED <<buf, decoding, callVars>>
        /\ \A l \in Keepers : \A i \in DOMAIN input'[l] : \E j \in DOMAIN input[l] : input'[l][i] = input[l][j]
    BY <1>2, WriteMoves, ZenonT(30)
  <2>2. m0.req = input[k][1].req /\ m0.id = input[k][1].id /\ UNCHANGED call
    BY <2>1, Zenon DEF callVars
  <2> HIDE DEF m0
  <2>3. \A l \in Keepers : \A i \in DOMAIN input'[l] : input'[l][i].req = o => input'[l][i].id = call'[o].id
    BY <2>1, <2>2 DEF OwnAt
  <2>4. \A m \in wire' : m.req = o => m.id = call'[o].id
    BY <2>1, <2>2 DEF OwnAt
  <2>5. /\ \A d \in decoding' : d.req = o => d.ch[1] # call'[o].conn \/ d.ch = call'[o].ch
        /\ \A ch \in Channels : o \in buf'[ch] => ch[1] # call'[o].conn \/ ch = call'[o].ch
    BY <2>1, <2>2, Zenon DEF OwnAt
  <2> QED BY <2>3, <2>4, <2>5, ZenonT(30) DEF OwnAt
<1>3. ASSUME NEW c \in open, Close(c) PROVE OwnAt(o)'
  <2>1. UNCHANGED <<input, decoding, buf, call>> /\ wire' \subseteq wire
    BY <1>3, Zenon DEF Close, callVars
  <2> QED BY <2>1, OwnKept, Zenon
<1>4. ASSUME NEW m \in wire, rpcDecoder(m) PROVE OwnAt(o)'
  <2>1. /\ wire' \subseteq wire /\ UNCHANGED <<input, buf, callVars>>
        /\ \A d \in decoding' : \/ d \in decoding
                                \/ d.req = m.req /\ \E e \in cache : e.conn = m.through /\ e.id = m.id /\ d.ch = e.ch
    BY <1>4, DecodeMoves, Zenon
  <2>2. UNCHANGED call
    BY <2>1, Zenon DEF callVars
  <2>3. ASSUME NEW d \in decoding', d.req = o PROVE d.ch[1] # call[o].conn \/ d.ch = call[o].ch
    <3>1. CASE d \in decoding
      BY <2>3, <3>1, Zenon DEF OwnAt
    <3>2. CASE d \notin decoding
      <4>1. PICK e \in cache : m.req = o /\ e.conn = m.through /\ e.id = m.id /\ d.ch = e.ch
        BY <2>1, <2>3, <3>2, ZenonT(30)
      <4>2. m.id = call[o].id
        BY <4>1, ZenonT(30) DEF OwnAt
      <4>3. call[o].pc = "wait"
        <5>1. Out(o)
          BY <4>1, Zenon DEF Out, OnWire
        <5> QED BY <5>1, Zenon DEF SentInv
      <4>4. e.ch[1] = e.conn /\ (e.conn = call[o].conn /\ e.id = call[o].id => e.ch = call[o].ch)
        BY <4>3, ZenonT(30) DEF CacheInv
      <4> QED BY <4>1, <4>2, <4>4, Zenon
    <3> QED BY <3>1, <3>2, Zenon
  <2>4. /\ \A l \in Keepers : \A i \in DOMAIN input'[l] : input'[l][i].req = o => input'[l][i].id = call'[o].id
        /\ \A n \in wire' : n.req = o => n.id = call'[o].id
        /\ \A ch \in Channels : o \in buf'[ch] => ch[1] # call'[o].conn \/ ch = call'[o].ch
    BY <2>1, <2>2, Zenon DEF OwnAt
  <2> QED BY <2>2, <2>3, <2>4, ZenonT(30) DEF OwnAt
<1>5. ASSUME NEW d \in decoding, Deliver(d) PROVE OwnAt(o)'
  <2>1. /\ decoding' \subseteq decoding /\ UNCHANGED <<input, wire, callVars>>
        /\ \A ch \in Channels : buf'[ch] = buf[ch] \/ (ch = d.ch /\ buf'[ch] = {d.req})
    BY <1>5, DeliverMoves, ZenonT(30)
  <2>2. UNCHANGED call
    BY <2>1, Zenon DEF callVars
  <2>3. ASSUME NEW ch \in Channels, o \in buf'[ch] PROVE ch[1] # call[o].conn \/ ch = call[o].ch
    <3>1. CASE o \in buf[ch]
      BY <3>1, ZenonT(30) DEF OwnAt
    <3>2. CASE ch = d.ch /\ d.req = o
      BY <3>2, Zenon DEF OwnAt
    <3> QED BY <2>1, <2>3, <3>1, <3>2, ZenonT(30)
  <2>4. /\ \A l \in Keepers : \A i \in DOMAIN input'[l] : input'[l][i].req = o => input'[l][i].id = call'[o].id
        /\ \A n \in wire' : n.req = o => n.id = call'[o].id
        /\ \A e \in decoding' : e.req = o => e.ch[1] # call'[o].conn \/ e.ch = call'[o].ch
    BY <2>1, <2>2, Zenon DEF OwnAt
  <2> QED BY <2>2, <2>3, <2>4, ZenonT(30) DEF OwnAt
<1> QED BY <1>1, <1>2, <1>3, <1>4, <1>5, ZenonT(30)

\* The steps of calls: what is about another block is where it was ...
LEMMA Next_OwnInv ==
    ASSUME KeepType, ConnType, ReqType, OnePlace, SentInv, CacheInv, OwnInv, [Next]_vars
    PROVE  OwnInv'
<1>1. \A o \in Requests : ~Lost(o)' => ~Lost(o) /\ OwnAt(o) /\ Elsewhere(o)
  BY LostStays, OwnParts, Zenon
<1>2. ASSUME \/ Silent
             \/ \E k \in Keepers : writeHandler(k)
             \/ \E c \in open : Close(c)
             \/ \E m \in wire : rpcDecoder(m)
             \/ \E d \in decoding : Deliver(d)
      PROVE  OwnInv'
  <2>1. UNCHANGED <<call, result>>
    BY <1>2, Zenon DEF Silent, writeHandler, Close, rpcDecoder, Deliver, callVars
  <2>2. ASSUME NEW o \in Requests, ~Lost(o)' PROVE OwnAt(o)'
    <3>1. ~Lost(o) /\ OwnAt(o)
      BY <1>1, <2>2, Zenon
    <3> QED BY <1>2, <3>1, OwnMessages, Zenon
  <2>3. ASSUME NEW o \in Requests, ~Lost(o)' PROVE Elsewhere(o)'
    <3>1. Elsewhere(o)
      BY <1>1, <2>3, Zenon
    <3> QED BY <2>1, <3>1, Zenon DEF Elsewhere
  <2> QED BY <2>2, <2>3, OwnPartsPrime, Zenon
\* ... and what is about the block of the call is nowhere, or where the call says.
<1>3. ASSUME NEW r \in Requests,
             \A q \in Requests \ {r} : call'[q] = call[q] /\ result'[q] = result[q],
             \A k \in Keepers : \A i \in DOMAIN input'[k] :
                 input'[k][i].req # r => \E j \in DOMAIN input[k] : input'[k][i] = input[k][j],
             UNCHANGED <<wire, decoding>>, \A ch \in Channels : buf'[ch] \subseteq buf[ch],
             ~Lost(r)' => OwnAt(r)' /\ Elsewhere(r)',
             \A o \in Requests \ {r} : ~Lost(o) /\ result'[r] = o => call'[r].conn # call[o].conn
      PROVE  OwnInv'
  <2>1. ASSUME NEW o \in Requests, o # r, ~Lost(o)' PROVE OwnAt(o)' /\ Elsewhere(o)'
    <3>1. ~Lost(o) /\ OwnAt(o) /\ Elsewhere(o)
      BY <1>1, <2>1, ZenonT(30)
    <3>2. call'[o] = call[o]
      BY <1>3, <2>1, ZenonT(30)
    <3>3. OwnAt(o)'
      BY <1>3, <2>1, <3>1, <3>2, OwnKept, ZenonT(30)
    <3>4. ASSUME NEW q \in Requests, q # o, result'[q] = o PROVE call'[q].conn # call'[o].conn
      <4>1. CASE q = r
        BY <1>3, <2>1, <3>1, <3>2, <3>4, <4>1, ZenonT(30)
      <4>2. CASE q # r
        BY <1>3, <3>1, <3>2, <3>4, <4>2, ZenonT(30) DEF Elsewhere
      <4> QED BY <4>1, <4>2, ZenonT(30)
    <3>5. Elsewhere(o)'
      BY <3>4, Zenon DEF Elsewhere
    <3> QED BY <3>3, <3>5, Zenon
  <2> QED BY <1>3, <2>1, OwnPartsPrime, ZenonT(30)
<1>4. ASSUME NEW r \in Requests, UNCHANGED <<input, wire, decoding, buf>>,
             \A q \in Requests \ {r} : call'[q] = call[q] /\ result'[q] = result[q],
             ~Lost(r)' => OwnAt(r)' /\ Elsewhere(r)',
             \A o \in Requests \ {r} : result'[r] # o
      PROVE  OwnInv'
  <2>1. \A k \in Keepers : \A i \in DOMAIN input'[k] :
            input'[k][i].req # r => \E j \in DOMAIN input[k] : input'[k][i] = input[k][j]
    BY <1>4, Zenon
  <2>2. UNCHANGED <<wire, decoding>> /\ \A ch \in Channels : buf'[ch] \subseteq buf[ch]
    BY <1>4, Zenon
  <2>3. \A o \in Requests \ {r} : ~Lost(o) /\ result'[r] = o => call'[r].conn # call[o].conn
    BY <1>4, Zenon
  <2> QED BY <1>3, <1>4, <2>1, <2>2, <2>3, ZenonT(30)
<1>5. ASSUME NEW r \in Requests, Fallback(r) PROVE OwnInv'
  <2>1. UNCHANGED <<input, wire, decoding, buf, ended>> /\ \A o \in Requests : Out(o)' => Out(o)
    <3>1. \A o \in Requests : Out(o)' => Out(o)
      BY <1>5, OutSteps, Zenon
    <3> QED BY <1>5, <3>1, ZenonT(30) DEF Fallback, connVars
  <2>2. CASE Turn(r)
    <3>1. call[r].pc \in {"idle", "try"} /\ UNCHANGED result /\ result[r] = "none"
      BY <2>2, Zenon DEF Turn, SentInv, ReqType
    <3>2. ~Out(r) /\ \A q \in Requests : q # r => result[q] # r
      BY <3>1, Zenon DEF SentInv
    <3>3. \A q \in Requests \ {r} : call'[q] = call[q]
      BY <2>2, Turned, Zenon
    <3>4. OwnAt(r)'
      BY <2>1, <3>2, NothingOutPrime, Zenon
    <3>5. Elsewhere(r)'
      BY <3>1, <3>2, Zenon DEF Elsewhere
    <3>6. "none" \notin Requests
      BY SimAssumption, Zenon
    <3>7. \A q \in Requests \ {r} : call'[q] = call[q] /\ result'[q] = result[q]
      BY <3>1, <3>3, Zenon
    <3>8. \A o \in Requests \ {r} : result'[r] # o
      BY <3>1, <3>6, Zenon
    <3> QED BY <1>4, <2>1, <3>4, <3>5, <3>7, <3>8, ZenonT(30)
  <2>3. CASE Quit(r)
    <3>1. PICK about \in {"error", r} : Return(r, about) /\ call[r].pc \in {"try", "failed"}
      BY <2>3, Zenon DEF Quit
    <3>2. /\ call'[r].conn = call[r].conn /\ result'[r] = about
          /\ \A q \in Requests \ {r} : call'[q] = call[q] /\ result'[q] = result[q]
      BY <3>1, Returned, Zenon
    <3>3. ASSUME ~Lost(r)' PROVE OwnAt(r)' /\ Elsewhere(r)'
      <4>1. ~Lost(r) /\ Elsewhere(r)
        BY <1>1, <3>3, Zenon
      <4>2. ~Out(r)
        BY <3>1, <4>1, Zenon DEF SentInv
      <4>3. OwnAt(r)'
        BY <2>1, <4>2, NothingOutPrime, ZenonT(30)
      <4>4. Elsewhere(r)'
        BY <3>2, <4>1, Zenon DEF Elsewhere
      <4> QED BY <4>3, <4>4, Zenon
    <3>4. "error" \notin Requests
      BY SimAssumption, Zenon
    <3>5. \A o \in Requests \ {r} : result'[r] # o
      <4>1. result'[r] = "error" \/ result'[r] = r
        BY <3>1, <3>2, ZenonT(30)
      <4> QED BY <3>4, <4>1, ZenonT(30)
    <3> QED BY <1>4, <2>1, <3>2, <3>3, <3>5, ZenonT(30)
  <2> QED BY <1>5, <2>2, <2>3, Zenon DEF Fallback
<1>6. ASSUME NEW r \in Requests, RequestRPC(r) PROVE OwnInv'
  <2>1. PICK k \in Keepers, id \in Nat :
            /\ UNCHANGED <<buf, decoding, wire, ended, result>>
            /\ call[r].pc = "send" /\ call'[r].id = id
            /\ \A q \in Requests \ {r} : call'[q] = call[q]
            /\ input' = [input EXCEPT ![k] = Append(input[k], [id |-> id, req |-> r])]
    <3>1. /\ messageID[call[r].conn] \in Nat /\ call[r].conn[1] \in Keepers /\ UNCHANGED <<buf, decoding, wire, ended, result>>
          /\ call[r].pc = "send" /\ call'[r].id = messageID[call[r].conn] + 1
          /\ \A q \in Requests \ {r} : call'[q] = call[q]
          /\ input' = [input EXCEPT ![call[r].conn[1]] =
                          Append(input[call[r].conn[1]], [id |-> messageID[call[r].conn] + 1, req |-> r])]
      BY <1>6, Requested, ZenonT(30)
    <3>2. messageID[call[r].conn] + 1 \in Nat
      BY <3>1, SMTT(30)
    <3> QED BY <3>1, <3>2, ZenonT(30)
  <2>2. ~Out(r) /\ result[r] = "none" /\ "none" \notin Requests /\ \A q \in Requests : q # r => result[q] # r
    BY <2>1, SimAssumption, ZenonT(30) DEF SentInv, ReqType
  <2>3. ~Queued(r) /\ ~OnWire(r) /\ ~Decoded(r) /\ ~Buffered(r)
    BY <2>2, ZenonT(30) DEF Out
  <2>4. \A l \in Keepers : \A i \in DOMAIN input'[l] :
            (i \in DOMAIN input[l] /\ input'[l][i] = input[l][i]) \/ input'[l][i] = [id |-> id, req |-> r]
    <3>1. input' = [input EXCEPT ![k] = Append(input[k], [id |-> id, req |-> r])] /\ k \in Keepers /\ id \in Nat
      BY <2>1, Zenon
    <3>2. ~Queued(r)
      BY <2>3, Zenon
    <3> QED BY <3>1, <3>2, RequestMoves, SMTT(30)
  <2>5. \A l \in Keepers : \A i \in DOMAIN input'[l] : input'[l][i].req = r => input'[l][i].id = call'[r].id
    <3> SUFFICES ASSUME NEW l \in Keepers, NEW i \in DOMAIN input'[l], input'[l][i].req = r PROVE input'[l][i].id = id
      BY <2>1, Zenon
    <3>1. ~(i \in DOMAIN input[l] /\ input'[l][i] = input[l][i])
      BY <2>3, Zenon DEF Queued
    <3> QED BY <2>4, <3>1
  <2>6. /\ \A m \in wire' : m.req # r
        /\ \A d \in decoding' : d.req # r
        /\ \A ch \in Channels : r \notin buf'[ch]
    BY <2>1, <2>3, Zenon DEF OnWire, Decoded, Buffered
  <2>7. OwnAt(r)'
    BY <2>5, <2>6, ZenonT(30) DEF OwnAt
  <2>8. Elsewhere(r)'
    BY <2>1, <2>2, Zenon DEF Elsewhere
  <2>9. \A l \in Keepers : \A i \in DOMAIN input'[l] :
            input'[l][i].req # r => \E j \in DOMAIN input[l] : input'[l][i] = input[l][j]
    BY <2>4
  <2>10. \A q \in Requests \ {r} : call'[q] = call[q] /\ result'[q] = result[q]
    BY <2>1, Zenon
  <2>11. UNCHANGED <<wire, decoding>> /\ \A ch \in Channels : buf'[ch] \subseteq buf[ch]
    BY <2>1, Zenon
  <2>12. \A o \in Requests \ {r} : result'[r] # o
    BY <2>1, <2>2, Zenon
  <2> QED BY <1>3, <2>7, <2>8, <2>9, <2>10, <2>11, <2>12, ZenonT(30)
<1>7. ASSUME NEW r \in Requests, Receive(r) PROVE OwnInv'
  <2>1. PICK about \in Requests :
             /\ call[r].pc = "wait" /\ call[r].ch \in Channels /\ about \in buf[call[r].ch] /\ Return(r, about)
             /\ buf' = [buf EXCEPT ![call[r].ch] = {}]
             /\ UNCHANGED <<input, messageID, cache, decoding, wire, next, ended>>
    BY <1>7, Received, Zenon
  <2>2. /\ call'[r].conn = call[r].conn /\ result'[r] = about
        /\ \A q \in Requests \ {r} : call'[q] = call[q] /\ result'[q] = result[q]
    BY <2>1, Returned, Zenon
  <2>3. ASSUME ~Lost(r)' PROVE OwnAt(r)' /\ Elsewhere(r)'
    <3>1. about = r
      BY <2>2, <2>3, Zenon DEF Lost
    <3>2. OwnAt(r)'
      <4>1. ~Out(r)'
        BY <2>1, <3>1, ReceivedIsGone, ZenonT(30)
      <4> QED BY <4>1, NothingOutPrime, ZenonT(30)
    <3>3. Elsewhere(r)
      BY <1>1, <2>3, Zenon
    <3>4. Elsewhere(r)'
      BY <2>2, <3>3, Zenon DEF Elsewhere
    <3> QED BY <3>2, <3>4, Zenon
  <2>4. ASSUME NEW o \in Requests, o # r, ~Lost(o), result'[r] = o PROVE call'[r].conn # call[o].conn
    <3>1. about = o
      BY <2>2, <2>4, Zenon
    <3>2. call[o].pc = "wait"
      <4>1. Out(o)
        BY <2>1, <3>1, Zenon DEF Out, Buffered
      <4> QED BY <2>4, <4>1, Zenon DEF SentInv
    <3>3. call[r].ch # call[o].ch /\ call[r].ch[1] = call[r].conn
      BY <2>1, <2>4, <3>2, ZenonT(30) DEF CacheInv
    <3>4. call[r].ch[1] # call[o].conn \/ call[r].ch = call[o].ch
      BY <2>1, <2>4, <3>1, OwnParts, ZenonT(30) DEF OwnAt
    <3> QED BY <2>2, <3>3, <3>4, Zenon
  <2>5. \A ch \in Channels : buf'[ch] \subseteq buf[ch]
    BY <2>1, Zenon DEF ConnType
  <2>6. \A k \in Keepers : \A i \in DOMAIN input'[k] :
            input'[k][i].req # r => \E j \in DOMAIN input[k] : input'[k][i] = input[k][j]
    BY <2>1, Zenon
  <2>7. \A o \in Requests \ {r} : ~Lost(o) /\ result'[r] = o => call'[r].conn # call[o].conn
    BY <2>4, Zenon
  <2>8. UNCHANGED <<wire, decoding>>
    BY <2>1, Zenon
  <2> QED BY <1>3, <2>2, <2>3, <2>5, <2>6, <2>7, <2>8, ZenonT(30)
<1>8. ASSUME NEW r \in Requests, GiveUp(r) PROVE OwnInv'
  <2>1. /\ r \in ended /\ call'[r].conn = call[r].conn /\ UNCHANGED <<input, buf, decoding, wire, ended, result>>
        /\ \A q \in Requests \ {r} : call'[q] = call[q]
        /\ call[r].pc = "wait"
    BY <1>8, GaveUp, Zenon
  <2>2. Lost(r)'
    BY <2>1, Zenon DEF Lost
  <2>3. result[r] = "none" /\ "none" \notin Requests
    BY <2>1, SimAssumption, Zenon DEF ReqType
  <2>4. /\ \A q \in Requests \ {r} : call'[q] = call[q] /\ result'[q] = result[q]
        /\ \A o \in Requests \ {r} : result'[r] # o
    BY <2>1, <2>3, Zenon
  <2> QED BY <1>4, <2>1, <2>2, <2>4, ZenonT(30)
<1>9. ASSUME NEW r \in Requests, ContextEnds(r) PROVE OwnInv'
  <2>1. UNCHANGED <<input, wire, decoding, buf, call, result>>
    BY <1>9, ZenonT(30) DEF ContextEnds, connVars
  <2>2. ASSUME NEW o \in Requests, ~Lost(o)' PROVE OwnAt(o)' /\ Elsewhere(o)'
    <3>1. OwnAt(o) /\ Elsewhere(o)
      BY <1>1, <2>2, Zenon
    <3>2. OwnAt(o)'
      BY <2>1, <3>1, OwnKept, Zenon
    <3>3. Elsewhere(o)'
      BY <2>1, <3>1, Zenon DEF Elsewhere
    <3> QED BY <3>2, <3>3, Zenon
  <2> QED BY <2>2, OwnPartsPrime, Zenon
<1> QED BY <1>2, <1>5, <1>6, <1>7, <1>8, <1>9, VerdictSteps, ZenonT(30)

VerdictInv == OnePlace /\ SentInv /\ CacheInv /\ OwnInv

\* At first nothing is out.
LEMMA Init_VerdictInv == Init => VerdictInv
<1> SUFFICES ASSUME Init PROVE VerdictInv
  BY Zenon
<1>1. /\ \A k \in Keepers : DOMAIN input[k] = {}
      /\ wire = {} /\ decoding = {} /\ cache = {} /\ \A ch \in Channels : buf[ch] = {}
  BY DEF Init
<1>2. \A r \in Requests : call[r].pc = "idle" /\ result[r] = "none"
  BY Zenon DEF Init, NoCall
<1>3. \A o \in Requests : ~Queued(o) /\ ~OnWire(o) /\ ~Decoded(o) /\ ~Buffered(o)
  BY <1>1, Zenon DEF Queued, OnWire, Decoded, Buffered
<1>4. \A r, o \in Requests : result[r] # o
  BY <1>2, SimAssumption, Zenon
<1>5. OnePlace
  BY <1>1, <1>3, ZenonT(30) DEF OnePlace
<1>6. SentInv
  BY <1>2, <1>3, <1>4, ZenonT(30) DEF SentInv, Out
<1>7. CacheInv
  BY <1>1, <1>2, Zenon DEF CacheInv
<1>8. OwnInv
  BY <1>1, <1>4, Zenon DEF OwnInv
<1> QED BY <1>5, <1>6, <1>7, <1>8, ZenonT(30) DEF VerdictInv

\* The invariants about verdicts hold in every reachable state.
LEMMA VerdictAlways == Spec => []VerdictInv
<1>1. TypeInv /\ VerdictInv /\ [Next]_vars => VerdictInv'
  BY Next_OnePlace, Next_SentInv, Next_CacheInv, Next_OwnInv, Zenon DEF TypeInv, VerdictInv
<1> QED BY <1>1, Init_VerdictInv, TypesAlways, PTL DEF Spec

\* A set whose elements are all equal has at most one.
LEMMA OneOrNone ==
    ASSUME NEW S, \A x, y \in S : x = y
    PROVE  Cardinality(S) \in {0, 1} /\ (S = {} => Cardinality(S) = 0)
<1>1. CASE S = {}
  BY <1>1, FS_EmptySet, Zenon
<1>2. CASE S # {}
  <2>1. PICK x : S = {x}
    BY <1>2
  <2> QED BY <1>2, <2>1, FS_Singleton, Zenon
<1> QED BY <1>1, <1>2, Zenon

\* A block is never with the nodes twice, on a queue or on the wire: a call that
\* has failed is over, as only the end of its context makes it fail.
THEOREM AtMostOnceTheorem == Spec => []AtMostOnce
<1>1. TypeInv /\ VerdictInv => AtMostOnce
  <2> SUFFICES ASSUME ConnType, OnePlace, NEW r \in Requests
               PROVE  Cardinality({ m \in wire : m.req = r })
                      + Cardinality({ x \in Keepers \X (1 .. InputSize) : x[2] <= Len(input[x[1]]) /\ input[x[1]][x[2]].req = r }) <= 1
    BY Zenon DEF TypeInv, VerdictInv, AtMostOnce
  <2> DEFINE W == { m \in wire : m.req = r }
             Q == { x \in Keepers \X (1 .. InputSize) : x[2] <= Len(input[x[1]]) /\ input[x[1]][x[2]].req = r }
  <2>1. \A m, n \in W : m = n
    BY ZenonT(30) DEF OnePlace
  <2>2. ASSUME NEW x \in Q PROVE x = <<x[1], x[2]>> /\ x[1] \in Keepers /\ x[2] \in DOMAIN input[x[1]] /\ input[x[1]][x[2]].req = r
    <3>1. x = <<x[1], x[2]>> /\ x[1] \in Keepers /\ x[2] \in 1 .. InputSize /\ x[2] <= Len(input[x[1]]) /\ input[x[1]][x[2]].req = r
      BY <2>2
    <3>2. Len(input[x[1]]) \in Nat /\ DOMAIN input[x[1]] = 1 .. Len(input[x[1]])
      BY <3>1, InputElements, Zenon
    <3> QED BY <3>1, <3>2, SimAssumption, SMTT(30)
  <2> HIDE DEF W, Q
  <2>3. ASSUME NEW x \in Q, NEW y \in Q PROVE x = y
    <3>1. x[1] = y[1] /\ x[2] = y[2]
      BY <2>2, OnePlaceParts DEF OneQueued
    <3> QED BY <2>2, <3>1, Zenon
  <2>4. W = {} \/ Q = {}
    <3> SUFFICES ASSUME NEW m \in W, NEW x \in Q PROVE FALSE
      BY ZenonT(30)
    <3>1. Queued(r)
      BY <2>2, Zenon DEF Queued
    <3>2. OnWire(r)
      BY Zenon DEF W, OnWire
    <3> QED BY <3>1, <3>2, OnePlaceParts, ZenonT(30) DEF Alone
  <2>5. Cardinality(W) \in {0, 1} /\ (W = {} => Cardinality(W) = 0)
    BY <2>1, OneOrNone, Zenon
  <2>6. Cardinality(Q) \in {0, 1} /\ (Q = {} => Cardinality(Q) = 0)
    BY <2>3, OneOrNone, Zenon
  <2>7. Cardinality(W) + Cardinality(Q) <= 1
    BY <2>4, <2>5, <2>6, SMTT(30)
  <2> QED BY <2>7, Zenon DEF W, Q
<1> QED BY <1>1, TypesAlways, VerdictAlways, PTL

\* A call takes the verdict on another block for its own only if that block's
\* call had given up, had been sent by another connection, or had itself been
\* given a wrong verdict: a pending request is looked up by the identifier alone
\* and its channel used again, and this is all that comes of it.
THEOREM VerdictTheorem == Spec => []VerdictIsOwn
<1>1. VerdictInv => VerdictIsOwn
  <2> SUFFICES ASSUME OwnInv, NEW r \in Requests, NEW o \in Requests, r # o, result[r] = o, ~Lost(o)
               PROVE  call[o].conn # call[r].conn
    BY ZenonT(30) DEF VerdictInv, VerdictIsOwn, Lost
  <2>1. Elsewhere(o)
    BY OwnParts, Zenon
  <2> QED BY <2>1, Zenon DEF Elsewhere
<1> QED BY <1>1, VerdictAlways, PTL

-----------------------------------------------------------------------------
(* A call on an open connection is answered *)

\* A connection is the pair of its address and its number.
LEMMA ConnParts ==
    ASSUME NEW c \in Conns
    PROVE  c[1] \in Keepers /\ c[2] \in Nat /\ c = <<c[1], c[2]>>
BY SimAssumption DEF Conns

\* A step that leaves KeepConnections alone, and gives calls only connections
\* that are healthy.
LEMMA OpenKept ==
    ASSUME OpenInv, UNCHANGED <<keep, made>>, open' \subseteq open, Used' \subseteq Used
    PROVE  OpenInv'
<1>1. \A k : Current(k)' = Current(k)
  BY Zenon DEF Current
<1> QED BY <1>1, Zenon DEF OpenInv

\* The connections in use after a step of a call.
LEMMA UsedStep ==
    ASSUME KeepType, ConnType, ReqType, NEW r \in Requests, ValidateBlock(r) \/ Step(r) \/ ContextEnds(r)
    PROVE  Used' \subseteq Used
<1>1. UNCHANGED healthy
  BY Zenon DEF ValidateBlock, Step, TryNode, Get, RequestRPC, Receive, GiveUp, TryOther, ContextEnds, keepVars
<1>2. ASSUME NEW q \in Requests, call'[q].pc \in {"send", "wait"} PROVE call'[q].conn \in Used
  <2>1. CASE UNCHANGED call
    BY <1>2, <2>1, Zenon DEF Used
  <2>2. ASSUME NEW about \in Requests \cup {"error"}, Return(r, about) PROVE call'[q].conn \in Used
    BY <1>2, <2>2, Returned, Zenon DEF Used
  <2>3. CASE ValidateBlock(r) \/ TryNode(r) \/ Get(r) \/ TryOther(r)
    <3>1. UNCHANGED call \/ Turn(r) \/ Quit(r)
      BY <2>3, Turns, Zenon
    <3>2. CASE Turn(r)
      BY <1>2, <3>2, Turned, Zenon DEF Used
    <3>3. CASE Quit(r)
      BY <2>2, <3>3, Zenon DEF Quit
    <3> QED BY <2>1, <3>1, <3>2, <3>3, Zenon
  <2>4. CASE RequestRPC(r)
    <3>1. call[r].pc = "send" /\ call'[r].conn = call[r].conn /\ \A p \in Requests \ {r} : call'[p] = call[p]
      BY <2>4, Requested, ZenonT(30)
    <3> QED BY <1>2, <3>1, Zenon DEF Used
  <2>5. CASE Receive(r)
    BY <2>2, <2>5, Received, Zenon
  <2>6. CASE GiveUp(r)
    BY <1>2, <2>6, GaveUp, Zenon DEF Used
  <2>7. CASE ContextEnds(r)
    BY <2>1, <2>7, Zenon DEF ContextEnds
  <2> QED BY <2>3, <2>4, <2>5, <2>6, <2>7, Zenon DEF Step
<1> QED BY <1>1, <1>2, Zenon DEF Used

\* A KeepConnection gives its next connection a number of its own.
LEMMA EnlistOpen ==
    ASSUME KeepType, ReqType, OpenInv, NEW k \in Keepers, Enlist(k)
    PROVE  OpenInv'
<1>1. /\ keep[k] = "new" /\ made' = [made EXCEPT ![k] = @ + 1] /\ keep' = [keep EXCEPT ![k] = "dial"]
      /\ UNCHANGED <<open, healthy, call>>
  BY Zenon DEF Enlist, callVars
<1>2. /\ made[k] \in Nat /\ made'[k] = made[k] + 1 /\ keep'[k] = "dial"
      /\ \A l \in Keepers \ {k} : made'[l] = made[l] /\ keep'[l] = keep[l]
  BY <1>1, SimAssumption DEF KeepType
<1>3. Used' = Used /\ Used \subseteq Conns
  BY <1>1, Zenon DEF Used, ReqType, KeepType
<1>4. \A l \in Keepers \ {k} : Current(l)' = Current(l)
  BY <1>2, Zenon DEF Current
<1>5. ASSUME NEW c \in open PROVE c[1] # k /\ c = Current(c[1]) /\ c[1] \in Keepers
  BY <1>1, ConnParts, Zenon DEF OpenInv, KeepType
<1>6. \A c \in open' : c = Current(c[1])'
  BY <1>1, <1>4, <1>5, Zenon
<1>7. ASSUME NEW l \in Keepers, keep'[l] \in {"new", "dial"} PROVE Current(l)' \notin open'
  <2>1. Current(k)'[1] = k
    BY DEF Current
  <2>2. CASE l = k
    BY <1>1, <1>5, <2>1, <2>2, Zenon
  <2>3. CASE l # k
    BY <1>1, <1>2, <1>4, <1>7, <2>3, Zenon DEF OpenInv
  <2> QED BY <2>2, <2>3, Zenon
<1>8. ASSUME NEW c \in Used PROVE c[2] <= made'[c[1]] /\ (keep'[c[1]] = "dial" => c # Current(c[1])')
  <2>1. c[1] \in Keepers /\ c[2] \in Nat /\ c = <<c[1], c[2]>>
    BY <1>3, <1>8, ConnParts, Zenon
  <2>2. c[2] <= made[c[1]] /\ (keep[c[1]] = "dial" => c # Current(c[1]))
    BY <1>8, Zenon DEF OpenInv
  <2>3. CASE c[1] = k
    <3>1. c[2] <= made'[k] /\ c[2] # made'[k]
      BY <1>2, <2>1, <2>2, <2>3
    <3> QED BY <2>1, <2>3, <3>1 DEF Current
  <2>4. CASE c[1] # k
    BY <1>2, <1>4, <2>1, <2>2, <2>4, Zenon
  <2> QED BY <2>3, <2>4, Zenon
<1> QED BY <1>3, <1>6, <1>7, <1>8, Zenon DEF OpenInv

\* The other steps of a KeepConnection open or use its last connection only.
LEMMA KeepOpen ==
    ASSUME KeepType, ReqType, OpenInv, NEW k \in Keepers, Dial(k) \/ MarkHealthy(k) \/ Delist(k)
    PROVE  OpenInv'
<1>1. UNCHANGED <<made, call>> /\ \A l \in Keepers \ {k} : keep'[l] = keep[l]
  BY Zenon DEF Dial, MarkHealthy, Delist, callVars, KeepType
<1>2. \A l : Current(l)' = Current(l)
  BY <1>1, Zenon DEF Current
<1>3. Current(k)[1] = k /\ Current(k)[2] = made[k]
  BY DEF Current
<1>4. Used \subseteq Conns
  BY Zenon DEF Used, ReqType, KeepType
<1>5. \A c \in Used : c[1] \in Keepers
  BY <1>4, ConnParts, Zenon
<1>6. CASE Dial(k)
  <2>1. keep[k] = "dial" /\ keep'[k] = "mark" /\ open' = open \cup {Current(k)} /\ UNCHANGED healthy
    BY <1>6, Zenon DEF Dial, KeepType
  <2>2. Used' = Used
    BY <1>1, <2>1, Zenon DEF Used
  <2>3. \A c \in open' : c = Current(c[1])
    BY <1>3, <2>1, Zenon DEF OpenInv
  <2>4. ASSUME NEW l \in Keepers, keep'[l] \in {"new", "dial"} PROVE Current(l) \notin open'
    <3>1. l # k /\ keep'[l] = keep[l]
      BY <1>1, <2>1, <2>4
    <3>2. Current(l) \notin open
      BY <2>4, <3>1, Zenon DEF OpenInv
    <3>3. Current(l) # Current(k)
      BY <3>1 DEF Current
    <3> QED BY <2>1, <3>2, <3>3, Zenon
  <2>5. \A c \in Used : c[2] <= made[c[1]] /\ (keep'[c[1]] = "dial" => c # Current(c[1]))
    BY <1>1, <1>5, <2>1, Zenon DEF OpenInv
  <2> QED BY <1>1, <1>2, <2>2, <2>3, <2>4, <2>5, Zenon DEF OpenInv
<1>7. CASE MarkHealthy(k)
  <2>1. keep'[k] = "up" /\ healthy' = healthy \cup {Current(k)} /\ UNCHANGED open
    BY <1>7, Zenon DEF MarkHealthy, KeepType
  <2>2. Used' \subseteq Used \cup {Current(k)}
    BY <1>1, <2>1, Zenon DEF Used
  <2>3. made[k] <= made[k]
    BY DEF KeepType
  <2>4. \A c \in Used' : c[2] <= made[c[1]] /\ (keep'[c[1]] = "dial" => c # Current(c[1]))
    BY <1>1, <1>3, <1>5, <2>1, <2>2, <2>3, Zenon DEF OpenInv
  <2>5. \A l \in Keepers : keep'[l] \in {"new", "dial"} => Current(l) \notin open'
    BY <1>1, <2>1, Zenon DEF OpenInv
  <2> QED BY <1>1, <1>2, <2>1, <2>4, <2>5, Zenon DEF OpenInv
<1>8. CASE Delist(k)
  <2>1. keep'[k] = "new" /\ (keep[k] = "dial" \/ Current(k) \notin open) /\ UNCHANGED <<open, healthy>>
    BY <1>8, Zenon DEF Delist, KeepType
  <2>2. Used' = Used
    BY <1>1, <2>1, Zenon DEF Used
  <2>3. \A l \in Keepers : keep'[l] \in {"new", "dial"} => Current(l) \notin open
    BY <1>1, <2>1, Zenon DEF OpenInv
  <2>4. \A c \in Used : c[2] <= made[c[1]] /\ (keep'[c[1]] = "dial" => c # Current(c[1]))
    BY <1>1, <1>5, <2>1, Zenon DEF OpenInv
  <2> QED BY <1>1, <1>2, <2>1, <2>2, <2>3, <2>4, Zenon DEF OpenInv
<1> QED BY <1>6, <1>7, <1>8, Zenon

\* Every step keeps what is known of the open connections.
LEMMA Next_OpenInv ==
    ASSUME KeepType, ConnType, ReqType, OpenInv, [Next]_vars
    PROVE  OpenInv'
<1>1. ASSUME UNCHANGED <<keep, made, open, healthy, call>> PROVE OpenInv'
  <2>1. Used' \subseteq Used /\ open' \subseteq open /\ UNCHANGED <<keep, made>>
    BY <1>1, Zenon DEF Used
  <2> QED BY <2>1, OpenKept, Zenon
<1>2. ASSUME NEW k \in Keepers, Enlist(k) \/ Dial(k) \/ MarkHealthy(k) \/ Delist(k) PROVE OpenInv'
  BY <1>2, EnlistOpen, KeepOpen, Zenon
<1>3. ASSUME \/ \E k \in Keepers : writeHandler(k)
             \/ \E m \in wire : rpcDecoder(m)
             \/ \E d \in decoding : Deliver(d)
             \/ UNCHANGED vars
      PROVE  UNCHANGED <<keep, made, open, healthy, call>>
  BY <1>3, ZenonT(30) DEF writeHandler, rpcDecoder, Deliver, keepVars, callVars, vars
<1>4. ASSUME NEW c \in open, Close(c) PROVE OpenInv'
  <2>1. open' \subseteq open /\ healthy' \subseteq healthy /\ UNCHANGED <<keep, made, call>>
    BY <1>4, Zenon DEF Close, callVars
  <2>2. Used' \subseteq Used
    BY <2>1, Zenon DEF Used
  <2> QED BY <2>1, <2>2, OpenKept, Zenon
<1>5. ASSUME NEW r \in Requests, ValidateBlock(r) \/ Step(r) \/ ContextEnds(r) PROVE OpenInv'
  <2>1. UNCHANGED keepVars
    BY <1>5, Zenon DEF ValidateBlock, Step, TryNode, Get, RequestRPC, Receive, GiveUp, TryOther, ContextEnds
  <2>2. Used' \subseteq Used
    BY <1>5, UsedStep, Zenon
  <2> QED BY <2>1, <2>2, OpenKept, Zenon DEF keepVars
<1> QED BY <1>1, <1>2, <1>3, <1>4, <1>5, ZenonT(30) DEF Next

\* What call r waits for on connection c, with identifier id and channel ch.
Note(r, id) == [id |-> id, req |-> r]
InQueue(r, k, id) == \E i \in DOMAIN input[k] : input[k][i] = Note(r, id)
Written(r, c, id) == [through |-> c, id |-> id, req |-> r] \in wire
Entered(c, id) == \E e \in cache : e.conn = c /\ e.id = id
Answer(ch) == buf[ch] # {} \/ \E d \in decoding : d.ch = ch
Coming(r, c, id, ch) == Answer(ch) \/ (Entered(c, id) /\ (InQueue(r, c[1], id) \/ Written(r, c, id)))

\* VerdictCanCome, for one call.
LEMMA ComingParts ==
    VerdictCanCome <=> \A r \in Requests : call[r].pc = "wait" /\ call[r].conn \in open =>
                           Coming(r, call[r].conn, call[r].id, call[r].ch)
BY Zenon DEF VerdictCanCome, MessageOut, Coming, Answer, Entered, InQueue, Written, Note

\* The same after a step.
LEMMA ComingPartsPrime ==
    VerdictCanCome' <=> \A r \in Requests : call'[r].pc = "wait" /\ call'[r].conn \in open' =>
                           Coming(r, call[r].conn, call[r].id, call[r].ch)'
BY Zenon DEF VerdictCanCome, MessageOut, Coming, Answer, Entered, InQueue, Written, Note

\* The elements of a sequence but the first are those of its tail.
LEMMA TailKeeps ==
    ASSUME NEW S, NEW s \in Seq(S), s # << >>, NEW i \in DOMAIN s, i # 1
    PROVE  i - 1 \in DOMAIN Tail(s) /\ Tail(s)[i - 1] = s[i]
OBVIOUS

\* A message that is written goes through the connection it was queued for.
LEMMA WriteComing ==
    ASSUME KeepType, ConnType, OpenInv, NEW k \in Keepers, writeHandler(k), NEW r \in Requests, NEW c \in open, NEW id, NEW ch,
           Coming(r, c, id, ch)
    PROVE  Coming(r, c, id, ch)'
<1>1. /\ input[k] # << >> /\ input' = [input EXCEPT ![k] = Tail(@)]
      /\ wire' = wire \cup {[through |-> Current(k), id |-> Head(input[k]).id, req |-> Head(input[k]).req]}
      /\ UNCHANGED <<cache, buf, decoding>>
  BY Zenon DEF writeHandler
<1>2. c[1] \in Keepers /\ c = Current(c[1])
  BY ConnParts, Zenon DEF OpenInv, KeepType
<1>3. (Answer(ch) => Answer(ch)') /\ (Entered(c, id) => Entered(c, id)') /\ (Written(r, c, id) => Written(r, c, id)')
  BY <1>1, Zenon DEF Answer, Entered, Written
<1>4. ASSUME InQueue(r, c[1], id) PROVE InQueue(r, c[1], id)' \/ Written(r, c, id)'
  <2>1. CASE c[1] # k
    <3>1. input'[c[1]] = input[c[1]]
      BY <1>1, <1>2, <2>1, Zenon DEF ConnType
    <3> QED BY <1>4, <3>1, Zenon DEF InQueue
  <2>2. CASE c[1] = k
    <3>1. PICK i \in DOMAIN input[k] : input[k][i] = Note(r, id)
      BY <1>4, <2>2, Zenon DEF InQueue
    <3>2. input[k] \in Seq(Message) /\ input'[k] = Tail(input[k]) /\ Head(input[k]) = input[k][1]
      BY <1>1, InputElements, InputTail, Zenon DEF ConnType
    <3>3. CASE i = 1
      <4>1. Head(input[k]).id = id /\ Head(input[k]).req = r
        BY <3>1, <3>2, <3>3 DEF Note
      <4> QED BY <1>1, <1>2, <2>2, <4>1, Zenon DEF Written
    <3>4. CASE i # 1
      <4>1. i - 1 \in DOMAIN input'[k] /\ input'[k][i - 1] = Note(r, id)
        BY <1>1, <3>1, <3>2, <3>4, TailKeeps, Zenon
      <4> QED BY <2>2, <4>1, Zenon DEF InQueue
    <3> QED BY <3>3, <3>4, Zenon
  <2> QED BY <2>1, <2>2, Zenon
<1> QED BY <1>3, <1>4, Zenon DEF Coming

\* The decoder that takes the entry of a call out of the table has an answer for
\* its channel, be it the answer to the call or not.
LEMMA DecodeComing ==
    ASSUME NEW m \in wire, rpcDecoder(m), NEW r \in Requests, NEW c, NEW id, NEW ch,
           \A e \in cache : e.conn = c /\ e.id = id => e.ch = ch,
           Coming(r, c, id, ch)
    PROVE  Coming(r, c, id, ch)'
<1>1. /\ wire' = wire \ {m} /\ UNCHANGED <<input, buf>>
      /\ cache' = cache \ { e \in cache : e.conn = m.through /\ e.id = m.id }
      /\ decoding' = decoding \cup { [ch |-> e.ch, req |-> m.req] : e \in { f \in cache : f.conn = m.through /\ f.id = m.id } }
  BY Zenon DEF rpcDecoder
<1>2. Answer(ch) => Answer(ch)'
  BY <1>1, Zenon DEF Answer
<1>3. ASSUME NEW e \in cache, e.conn = c, e.id = id, m.through = c, m.id = id PROVE Answer(ch)'
  <2>1. [ch |-> e.ch, req |-> m.req] \in decoding'
    BY <1>1, <1>3, Zenon
  <2>2. [ch |-> e.ch, req |-> m.req].ch = ch
    BY <1>3, Zenon
  <2> QED BY <2>1, <2>2, Zenon DEF Answer
<1>4. ASSUME m.through # c \/ m.id # id
      PROVE  (Entered(c, id) => Entered(c, id)') /\ (Written(r, c, id) => Written(r, c, id)')
  <2>1. Entered(c, id) => Entered(c, id)'
    BY <1>1, <1>4, Zenon DEF Entered
  <2>2. m # [through |-> c, id |-> id, req |-> r]
    BY <1>4
  <2>3. Written(r, c, id) => Written(r, c, id)'
    BY <1>1, <2>2, Zenon DEF Written
  <2> QED BY <2>1, <2>3, Zenon
<1>5. InQueue(r, c[1], id) => InQueue(r, c[1], id)'
  BY <1>1, Zenon DEF InQueue
<1> QED BY <1>2, <1>3, <1>4, <1>5, Zenon DEF Coming, Entered

\* An answer is dropped only if another is in the channel, as long as the
\* connection is open.
LEMMA DeliverComing ==
    ASSUME ConnType, NEW d \in decoding, Deliver(d), NEW r \in Requests, NEW c \in open, NEW id, NEW ch \in Channels, ch[1] = c,
           Coming(r, c, id, ch)
    PROVE  Coming(r, c, id, ch)'
<1>1. /\ decoding' = decoding \ {d} /\ UNCHANGED <<input, cache, wire>>
      /\ \/ buf[d.ch] = {} /\ buf' = [buf EXCEPT ![d.ch] = {d.req}]
         \/ (buf[d.ch] # {} \/ d.ch[1] \notin open) /\ UNCHANGED buf
  BY Zenon DEF Deliver
<1>2. buf[ch] # {} => buf'[ch] # {}
  BY <1>1, Zenon DEF ConnType
<1>3. d.ch = ch => buf'[ch] # {}
  BY <1>1, Zenon DEF ConnType
<1>4. Answer(ch) => Answer(ch)'
  BY <1>1, <1>2, <1>3, Zenon DEF Answer
<1> QED BY <1>1, <1>4, Zenon DEF Coming, Entered, InQueue, Written

\* A step that leaves the messages, the table and the answers of a call alone.
LEMMA ComingKept ==
    ASSUME NEW r, NEW c, NEW id, NEW ch, Coming(r, c, id, ch),
           buf'[ch] = buf[ch], UNCHANGED <<decoding, input>>,
           \A m \in wire : m.through = c => m \in wire',
           \A e \in cache : e.conn = c /\ e.id = id => e \in cache'
    PROVE  Coming(r, c, id, ch)'
<1>1. Answer(ch) => Answer(ch)'
  BY Zenon DEF Answer
<1>2. Entered(c, id) => Entered(c, id)'
  BY Zenon DEF Entered
<1>3. Written(r, c, id) => Written(r, c, id)'
  BY Zenon DEF Written
<1>4. InQueue(r, c[1], id) => InQueue(r, c[1], id)'
  BY Zenon DEF InQueue
<1> QED BY <1>1, <1>2, <1>3, <1>4, Zenon DEF Coming

\* A call that waits after a step has just sent its request or waited before,
\* for the same thing and on a connection that was open.
LEMMA WaitedBefore ==
    ASSUME KeepType, ConnType, ReqType, OpenInv, [Next]_vars, NEW r \in Requests,
           call'[r].pc = "wait", call'[r].conn \in open', ~RequestRPC(r)
    PROVE  call'[r] = call[r] /\ call[r].conn \in open
<1>1. call'[r] = call[r]
  <2>1. CASE UNCHANGED call
    BY <2>1, Zenon
  <2>2. ASSUME NEW q \in Requests, NEW about \in Requests \cup {"error"}, Return(q, about) PROVE call'[r] = call[r]
    BY <2>2, Returned, Zenon
  <2>3. ASSUME NEW q \in Requests, Fallback(q) PROVE call'[r] = call[r]
    <3>1. CASE Turn(q)
      BY <3>1, Turned, Zenon
    <3>2. CASE Quit(q)
      BY <2>2, <3>2, Zenon DEF Quit
    <3> QED BY <2>3, <3>1, <3>2, Zenon DEF Fallback
  <2>4. ASSUME NEW q \in Requests, RequestRPC(q) PROVE call'[r] = call[r]
    <3>1. q # r /\ \A p \in Requests \ {q} : call'[p] = call[p]
      BY <2>4, Requested, ZenonT(30)
    <3> QED BY <3>1, Zenon
  <2>5. ASSUME NEW q \in Requests, Receive(q) \/ GiveUp(q) PROVE call'[r] = call[r]
    BY <2>2, <2>5, Received, GaveUp, Zenon
  <2>6. ASSUME \/ Silent
               \/ \E k \in Keepers : writeHandler(k)
               \/ \E c \in open : Close(c)
               \/ \E m \in wire : rpcDecoder(m)
               \/ \E d \in decoding : Deliver(d)
               \/ \E q \in Requests : ContextEnds(q)
        PROVE  UNCHANGED call
    BY <2>6, ZenonT(30) DEF Silent, writeHandler, Close, rpcDecoder, Deliver, ContextEnds, callVars
  <2> QED BY <2>1, <2>3, <2>4, <2>5, <2>6, VerdictSteps, ZenonT(30)
<1>2. call[r].conn \in Used
  BY <1>1, Zenon DEF Used
<1>3. ASSUME NEW k \in Keepers, Dial(k) PROVE call[r].conn \in open
  <2>1. keep[k] = "dial" /\ open' = open \cup {Current(k)}
    BY <1>3, Zenon DEF Dial
  <2>2. Current(k)[1] = k
    BY DEF Current
  <2> QED BY <1>1, <1>2, <2>1, <2>2, Zenon DEF OpenInv
<1>4. (\E k \in Keepers : Dial(k)) \/ open' \subseteq open
  <2>1. ASSUME NEW k \in Keepers, Enlist(k) \/ MarkHealthy(k) \/ Delist(k) \/ writeHandler(k) PROVE open' \subseteq open
    BY <2>1, Zenon DEF Enlist, MarkHealthy, Delist, writeHandler, keepVars
  <2>2. ASSUME (\E c \in open : Close(c)) \/ (\E m \in wire : rpcDecoder(m)) \/ (\E d \in decoding : Deliver(d)) PROVE open' \subseteq open
    BY <2>2, Zenon DEF Close, rpcDecoder, Deliver, keepVars
  <2>3. ASSUME NEW q \in Requests, ValidateBlock(q) \/ Step(q) \/ ContextEnds(q) PROVE open' \subseteq open
    BY <2>3, Zenon DEF ValidateBlock, Step, TryNode, Get, RequestRPC, Receive, GiveUp, TryOther, ContextEnds, keepVars
  <2>4. CASE UNCHANGED vars
    BY <2>4, Zenon DEF vars, keepVars
  <2> QED BY <2>1, <2>2, <2>3, <2>4, ZenonT(30) DEF Next
<1> QED BY <1>1, <1>3, <1>4, Zenon

\* Appending keeps the elements of a sequence and adds one.
LEMMA AppendKeeps ==
    ASSUME NEW S, NEW s \in Seq(S), NEW e \in S
    PROVE  /\ \A i \in DOMAIN s : i \in DOMAIN Append(s, e) /\ Append(s, e)[i] = s[i]
           /\ \E i \in DOMAIN Append(s, e) : Append(s, e)[i] = e
<1>1. PICK n : n = Len(s) + 1
  OBVIOUS
<1>2. n \in DOMAIN Append(s, e) /\ Append(s, e)[n] = e
  BY <1>1
<1>3. \A i \in DOMAIN s : i \in DOMAIN Append(s, e) /\ Append(s, e)[i] = s[i]
  OBVIOUS
<1> QED BY <1>2, <1>3, Zenon

\* A request puts its message in the queue of its connection and its entry in
\* the table, and takes nothing of another call away.
LEMMA RequestComing ==
    ASSUME KeepType, ConnType, ReqType, NEW q \in Requests, RequestRPC(q)
    PROVE  /\ Coming(q, call[q].conn, call[q].id, call[q].ch)'
           /\ \A r \in Requests, c \in Conns : \A id, ch : Coming(r, c, id, ch) => Coming(r, c, id, ch)'
<1>1. PICK b, n, h :
          /\ b \in Conns /\ b[1] \in Keepers /\ n \in Nat
          /\ cache' = cache \cup {[conn |-> b, id |-> n, ch |-> h]}
          /\ call'[q].conn = b /\ call'[q].id = n /\ call'[q].ch = h
          /\ input' = [input EXCEPT ![b[1]] = Append(input[b[1]], [id |-> n, req |-> q])]
          /\ UNCHANGED <<buf, decoding, wire>>
  <2>1. PICK b, n : b = call[q].conn /\ n = messageID[b] + 1
    BY Zenon
  <2>2. PICK h \in Pool(b) :
          /\ b \in Conns /\ b[1] \in Keepers /\ messageID[b] \in Nat
          /\ cache' = cache \cup {[conn |-> b, id |-> n, ch |-> h]}
          /\ call'[q].conn = b /\ call'[q].id = n /\ call'[q].ch = h
          /\ input' = [input EXCEPT ![b[1]] = Append(input[b[1]], [id |-> n, req |-> q])]
          /\ UNCHANGED <<buf, decoding, wire>>
    BY <2>1, Requested, ZenonT(30)
  <2>3. n = messageID[b] + 1 /\ messageID[b] \in Nat
    BY <2>1, <2>2, Zenon
  <2>4. n \in Nat
    BY <2>3, SMTT(30)
  <2> QED BY <2>2, <2>4, ZenonT(30)
<1>2. PICK m : m = [id |-> n, req |-> q]
  BY Zenon
<1>3. m \in Message /\ input[b[1]] \in Seq(Message)
  BY <1>1, <1>2, InputElements, Zenon DEF Message
<1>4. input'[b[1]] = Append(input[b[1]], m) /\ \A k \in Keepers \ {b[1]} : input'[k] = input[k]
  BY <1>1, <1>2, Zenon DEF ConnType
<1>5. /\ \A i \in DOMAIN input[b[1]] : i \in DOMAIN input'[b[1]] /\ input'[b[1]][i] = input[b[1]][i]
      /\ \E i \in DOMAIN input'[b[1]] : input'[b[1]][i] = m
  <2>1. /\ \A i \in DOMAIN input[b[1]] :
              i \in DOMAIN Append(input[b[1]], m) /\ Append(input[b[1]], m)[i] = input[b[1]][i]
        /\ \E i \in DOMAIN Append(input[b[1]], m) : Append(input[b[1]], m)[i] = m
    BY <1>3, AppendKeeps, SMTT(30)
  <2> QED BY <1>4, <2>1, Zenon
<1>6. \A k \in Keepers : \A i \in DOMAIN input[k] : i \in DOMAIN input'[k] /\ input'[k][i] = input[k][i]
  BY <1>4, <1>5, Zenon
<1>7. Coming(q, b, n, h)'
  <2>1. InQueue(q, b[1], n)'
    BY <1>2, <1>5, Zenon DEF InQueue, Note
  <2>2. Entered(b, n)'
    <3>1. PICK e : e = [conn |-> b, id |-> n, ch |-> h]
      BY Zenon
    <3>2. e.conn = b /\ e.id = n /\ e \in cache'
      BY <1>1, <3>1, Zenon
    <3> QED BY <3>2, Zenon DEF Entered
  <2> QED BY <2>1, <2>2, Zenon DEF Coming
<1>8. ASSUME NEW r \in Requests, NEW c \in Conns, NEW id, NEW ch, Coming(r, c, id, ch) PROVE Coming(r, c, id, ch)'
  <2>1. Answer(ch) => Answer(ch)'
    BY <1>1, Zenon DEF Answer
  <2>2. (Entered(c, id) => Entered(c, id)') /\ (Written(r, c, id) => Written(r, c, id)')
    BY <1>1, Zenon DEF Entered, Written
  <2>3. c[1] \in Keepers
    BY ConnParts, Zenon
  <2>4. InQueue(r, c[1], id) => InQueue(r, c[1], id)'
    BY <1>6, <2>3, Zenon DEF InQueue
  <2> QED BY <1>8, <2>1, <2>2, <2>4, Zenon DEF Coming
<1>9. Coming(q, call[q].conn, call[q].id, call[q].ch)'
  BY <1>1, <1>7, Zenon
<1> QED BY <1>8, <1>9, Zenon

\* Every step leaves a call that waits on an open connection something to wait
\* for.
LEMMA Next_Coming ==
    ASSUME KeepType, ConnType, ReqType, CacheInv, OpenInv, VerdictCanCome, [Next]_vars
    PROVE  VerdictCanCome'
<1> SUFFICES ASSUME NEW r \in Requests, call'[r].pc = "wait", call'[r].conn \in open'
             PROVE  Coming(r, call[r].conn, call[r].id, call[r].ch)'
  BY ComingPartsPrime, Zenon
<1>1. PICK c, id, ch : c = call'[r].conn /\ id = call'[r].id /\ ch = call'[r].ch
  BY Zenon
<1> SUFFICES Coming(r, c, id, ch)'
  BY <1>1, Zenon
<1>2. CASE RequestRPC(r)
  BY <1>1, <1>2, RequestComing, Zenon
<1>3. CASE ~RequestRPC(r)
  <2>1. call'[r] = call[r] /\ call[r].pc = "wait" /\ c \in open /\ c = call[r].conn /\ id = call[r].id /\ ch = call[r].ch
    BY <1>1, <1>3, WaitedBefore, Zenon
  <2>2. Coming(r, c, id, ch)
    BY <2>1, ComingParts, Zenon
  <2>3. /\ c \in Conns /\ ch \in Channels /\ ch[1] = c
        /\ \A e \in cache : e.conn = c /\ e.id = id => e.ch = ch
    BY <2>1, Zenon DEF ReqType, CacheInv
  <2>4. ASSUME UNCHANGED <<buf, decoding, input, cache>>, \A m \in wire : m.through = c => m \in wire' PROVE Coming(r, c, id, ch)'
    BY <2>2, <2>4, ComingKept, Zenon
  <2>5. ASSUME Silent \/ (\E q \in Requests : Fallback(q) \/ ContextEnds(q))
        PROVE  UNCHANGED <<buf, decoding, input, cache>> /\ \A m \in wire : m.through = c => m \in wire'
    BY <2>5, Zenon DEF Silent, Fallback, ContextEnds, connVars
  <2>6. ASSUME NEW b \in open, Close(b) PROVE Coming(r, c, id, ch)'
    <3>1. b # c /\ wire' = { m \in wire : m.through # b } /\ UNCHANGED <<buf, decoding, input, cache>>
      BY <1>1, <2>6, Zenon DEF Close
    <3> QED BY <2>4, <3>1, Zenon
  <2>7. ASSUME NEW k \in Keepers, writeHandler(k) PROVE Coming(r, c, id, ch)'
    BY <2>1, <2>2, <2>7, WriteComing, Zenon
  <2>8. ASSUME NEW m \in wire, rpcDecoder(m) PROVE Coming(r, c, id, ch)'
    BY <2>2, <2>3, <2>8, DecodeComing, Zenon
  <2>9. ASSUME NEW d \in decoding, Deliver(d) PROVE Coming(r, c, id, ch)'
    BY <2>1, <2>2, <2>3, <2>9, DeliverComing, Zenon
  <2>10. ASSUME NEW q \in Requests, RequestRPC(q) PROVE Coming(r, c, id, ch)'
    BY <2>2, <2>3, <2>10, RequestComing, Zenon
  <2>11. ASSUME NEW q \in Requests, Receive(q) PROVE Coming(r, c, id, ch)'
    <3>1. q # r
      BY <2>1, <2>11, Received, Returned, Zenon
    <3>2. call[q].pc = "wait" /\ buf' = [buf EXCEPT ![call[q].ch] = {}] /\ UNCHANGED <<input, cache, decoding, wire>>
      BY <2>11, Zenon DEF Receive
    <3>3. call[q].ch # ch
      BY <2>1, <3>1, <3>2, Zenon DEF CacheInv
    <3>4. buf'[ch] = buf[ch]
      BY <2>3, <3>2, <3>3, Zenon DEF ConnType
    <3> QED BY <2>2, <3>2, <3>4, ComingKept, Zenon
  <2>12. ASSUME NEW q \in Requests, GiveUp(q) PROVE Coming(r, c, id, ch)'
    <3>1. q # r
      BY <2>1, <2>12, GaveUp, Zenon
    <3>2. /\ call[q].pc = "wait" /\ UNCHANGED <<input, buf, decoding, wire>>
          /\ cache' = { e \in cache : e.conn # call[q].conn \/ e.id # call[q].id }
      BY <2>12, Zenon DEF GiveUp
    <3>3. call[q].ch # ch
      BY <2>1, <3>1, <3>2, Zenon DEF CacheInv
    <3>4. \A e \in cache : e.conn = call[q].conn /\ e.id = call[q].id => e.ch = call[q].ch
      BY <3>2, Zenon DEF CacheInv
    <3>5. \A e \in cache : e.conn = c /\ e.id = id => e \in cache'
      BY <2>3, <3>2, <3>3, <3>4, Zenon
    <3> QED BY <2>2, <3>2, <3>5, ComingKept, Zenon
  <2> QED BY <2>4, <2>5, <2>6, <2>7, <2>8, <2>9, <2>10, <2>11, <2>12, VerdictSteps, ZenonT(30)
<1> QED BY <1>2, <1>3, Zenon

\* A call that waits on an open connection has its message there and its entry
\* in the table, or an answer is on its way to its channel: no answer to another
\* call, late or for an identifier of an earlier connection, leaves it with none.
THEOREM ComingTheorem == Spec => []VerdictCanCome
<1>1. Init => OpenInv /\ VerdictCanCome
  <2> SUFFICES ASSUME Init PROVE OpenInv /\ VerdictCanCome
    BY Zenon
  <2>1. open = {} /\ healthy = {} /\ \A r \in Requests : call[r].pc = "idle"
    BY Zenon DEF Init, NoCall
  <2> QED BY <2>1, Zenon DEF OpenInv, Used, VerdictCanCome
<1>2. TypeInv /\ VerdictInv /\ OpenInv /\ VerdictCanCome /\ [Next]_vars => OpenInv' /\ VerdictCanCome'
  BY Next_OpenInv, Next_Coming, Zenon DEF TypeInv, VerdictInv
<1> QED BY <1>1, <1>2, TypesAlways, VerdictAlways, PTL DEF Spec
==============================================================================
