--------------------------- MODULE ShutdownProofs ----------------------------
(***************************************************************************)
(* Theorems about the end of the process and its two wait groups, for any  *)
(* number of goroutines and workers and any size of the channel between    *)
(* them: the counter of a group is exact until its channel is closed, and  *)
(* one round of Adds and Dones is waited for as a wait group should; the   *)
(* process uses the relay's group as WaitGroup says; the workers' group is *)
(* right for one round; what the warehouse promises of its channel holds   *)
(* if no worker was cancelled; and the order in which main closes the two  *)
(* leaves nothing in it.                                                   *)
(***************************************************************************)
EXTENDS Shutdown, FiniteSetTheorems, TLAPS

-----------------------------------------------------------------------------
(* A wait group.  The process has two, so what is said of one is said for  *)
(* any values: its users A, where they are (p), the counter (n), the       *)
(* channel (d), the panic (x), Close (c), and the history (z and l).       *)

AtWork(A, p) == { g \in A : p[g] = "working" }

GroupType(A, p, n, d, x, c, z, l) ==
    /\ p \in [A -> {"idle", "started", "adding", "working", "closing"}]
    /\ n \in Int /\ n <= Cardinality(A)
    /\ d \in BOOLEAN /\ x \in BOOLEAN /\ z \in BOOLEAN /\ l \in BOOLEAN
    /\ c \in {"open", "waiting", "finished", "timeout"}

GroupCount(A, p, n, d) ==
    /\ n <= Cardinality(AtWork(A, p))
    /\ ~d => n = Cardinality(AtWork(A, p))

\* WaitGroup's inductive invariant ...
GroupInv(A, p, n, d, x, c, z, l) ==
    /\ GroupType(A, p, n, d, x, c, z, l)
    /\ GroupCount(A, p, n, d)
    /\ ~z => ~l /\ ~d /\ ~x /\ \A g \in A : p[g] # "closing"
    /\ (z /\ ~l) =>
          /\ AtWork(A, p) = {}
          /\ ~x
          /\ \A g \in A : p[g] = "closing" => ~d /\ \A h \in A : p[h] = "closing" => g = h

\* ... and its steps.
Look(g, p, d, z, l, p1, l1) ==
    p[g] = "started" /\ p1 = [p EXCEPT ![g] = IF d THEN "working" ELSE "adding"] /\ l1 = (l \/ z)
Up(g, p, n, z, l, p1, n1, l1) ==
    p[g] = "adding" /\ p1 = [p EXCEPT ![g] = "working"] /\ n1 = n + 1 /\ l1 = (l \/ z)
Down(g, p, n, z, p1, n1, z1) ==
    p[g] = "working" /\ p1 = [p EXCEPT ![g] = IF n1 = 0 THEN "closing" ELSE "idle"]
    /\ n1 = n - 1 /\ z1 = (z \/ n1 = 0)
Shut(g, p, d, p1, d1, x1) ==
    p[g] = "closing" /\ p1 = [p EXCEPT ![g] = "idle"] /\ d1 = TRUE /\ x1 = d

GroupStep(A, p, n, d, x, c, z, l, p1, n1, d1, x1, c1, z1, l1) ==
    \/ /\ \E g \in A : p[g] = "idle" /\ p1 = [p EXCEPT ![g] = "started"]
       /\ n1 = n /\ d1 = d /\ x1 = x /\ c1 = c /\ z1 = z /\ l1 = l
    \/ (\E g \in A : Look(g, p, d, z, l, p1, l1)) /\ n1 = n /\ d1 = d /\ x1 = x /\ c1 = c /\ z1 = z
    \/ (\E g \in A : Up(g, p, n, z, l, p1, n1, l1)) /\ d1 = d /\ x1 = x /\ c1 = c /\ z1 = z
    \/ (\E g \in A : Down(g, p, n, z, p1, n1, z1)) /\ d1 = d /\ x1 = x /\ c1 = c /\ l1 = l
    \/ (\E g \in A : Shut(g, p, d, p1, d1, x1)) /\ n1 = n /\ c1 = c /\ z1 = z /\ l1 = l
    \/ /\ c1 \in {c, "waiting", "finished", "timeout"}
       /\ p1 = p /\ n1 = n /\ d1 = d /\ x1 = x /\ z1 = z /\ l1 = l

\* The set of working goroutines is finite, and no bigger than that of all.
LEMMA AtWorkFinite ==
    ASSUME NEW A, IsFiniteSet(A), NEW p
    PROVE  /\ IsFiniteSet(AtWork(A, p))
           /\ Cardinality(AtWork(A, p)) \in Nat
           /\ Cardinality(A) \in Nat
           /\ Cardinality(AtWork(A, p)) <= Cardinality(A)
<1>1. AtWork(A, p) \subseteq A
  BY Zenon DEF AtWork
<1> QED
  BY <1>1, FS_Subset, FS_CardinalityType, Zenon

\* A goroutine that starts to work makes the set one bigger, and one that
\* leaves makes it one smaller.
LEMMA JoinOrLeave ==
    ASSUME NEW A, IsFiniteSet(A), NEW p, NEW q, NEW g \in A
    PROVE  /\ p[g] # "working" /\ AtWork(A, q) = AtWork(A, p) \cup {g} =>
                 Cardinality(AtWork(A, q)) = Cardinality(AtWork(A, p)) + 1
           /\ p[g] = "working" /\ AtWork(A, q) = AtWork(A, p) \ {g} =>
                 Cardinality(AtWork(A, q)) = Cardinality(AtWork(A, p)) - 1
<1>1. p[g] = "working" <=> g \in AtWork(A, p)
  BY Zenon DEF AtWork
<1> QED
  BY <1>1, AtWorkFinite, FS_AddElement, FS_RemoveElement, SMTT(30)

\* A step keeps the invariant.
LEMMA GroupStepInv ==
    ASSUME NEW A, IsFiniteSet(A),
           NEW p, NEW n, NEW d, NEW x, NEW c, NEW z, NEW l,
           NEW p1, NEW n1, NEW d1, NEW x1, NEW c1, NEW z1, NEW l1,
           GroupInv(A, p, n, d, x, c, z, l),
           GroupStep(A, p, n, d, x, c, z, l, p1, n1, d1, x1, c1, z1, l1)
    PROVE  GroupInv(A, p1, n1, d1, x1, c1, z1, l1)
<1> DEFINE I1 == GroupInv(A, p1, n1, d1, x1, c1, z1, l1)
           T1 == GroupType(A, p1, n1, d1, x1, c1, z1, l1)
           W == AtWork(A, p)
           W1 == AtWork(A, p1)
<1> USE DEF GroupInv
<1>1. ASSUME NEW g \in A, p[g] = "idle", p1 = [p EXCEPT ![g] = "started"],
             n1 = n /\ d1 = d /\ x1 = x /\ c1 = c /\ z1 = z /\ l1 = l
      PROVE  I1
  <2>1. T1 /\ W1 = W
    BY <1>1, Zenon DEF GroupType, AtWork
  <2> QED
    BY <1>1, <2>1, Zenon DEF GroupCount, GroupType
<1>2. ASSUME NEW g \in A, Look(g, p, d, z, l, p1, l1), n1 = n /\ d1 = d /\ x1 = x /\ c1 = c /\ z1 = z
      PROVE  I1
  <2>1. CASE ~d
    <3>1. T1 /\ W1 = W
      BY <1>2, <2>1, Zenon DEF Look, GroupType, AtWork
    <3> QED
      BY <1>2, <2>1, <3>1, Zenon DEF Look, GroupCount, GroupType
  <2>2. CASE d
    <3>1. T1 /\ l1
      BY <1>2, <2>2, Zenon DEF Look, GroupType
    <3>2. W1 = W \cup {g}
      BY <1>2, <2>2, Zenon DEF Look, GroupType, AtWork
    <3>3. Cardinality(W1) = Cardinality(W) + 1
      BY <1>2, <3>2, JoinOrLeave, Zenon DEF Look
    <3>4. GroupCount(A, p1, n1, d1)
      BY <1>2, <2>2, <3>3, AtWorkFinite, SMTT(30) DEF GroupCount, GroupType
    <3> QED
      BY <1>2, <2>2, <3>1, <3>4, Zenon DEF GroupType
  <2> QED
    BY <2>1, <2>2, Zenon DEF GroupType
<1>3. ASSUME NEW g \in A, Up(g, p, n, z, l, p1, n1, l1), d1 = d /\ x1 = x /\ c1 = c /\ z1 = z
      PROVE  I1
  <2>1. W1 = W \cup {g}
    BY <1>3, Zenon DEF Up, GroupType, AtWork
  <2>2. Cardinality(W1) = Cardinality(W) + 1
    BY <1>3, <2>1, JoinOrLeave, Zenon DEF Up
  <2>3. GroupCount(A, p1, n1, d1)
    BY <1>3, <2>2, AtWorkFinite, SMTT(30) DEF Up, GroupCount, GroupType
  <2>4. n1 \in Int /\ n1 <= Cardinality(A)
    BY <1>3, <2>3, AtWorkFinite, SMTT(30) DEF Up, GroupCount, GroupType
  <2>5. T1
    BY <1>3, <2>4, Zenon DEF Up, GroupType
  <2> QED
    BY <1>3, <2>3, <2>5, Zenon DEF Up, GroupType
<1>4. ASSUME NEW g \in A, Down(g, p, n, z, p1, n1, z1), d1 = d /\ x1 = x /\ c1 = c /\ l1 = l
      PROVE  I1
  <2>1. T1 /\ W1 = W \ {g}
    <3>1. /\ n \in Int /\ n1 = n - 1 /\ n <= Cardinality(A) /\ Cardinality(A) \in Nat
          /\ p \in [A -> {"idle", "started", "adding", "working", "closing"}]
          /\ \E to \in {"closing", "idle"} : p1 = [p EXCEPT ![g] = to]
          /\ z1 = (z \/ n1 = 0)
      BY <1>4, AtWorkFinite, Zenon DEF Down, GroupType
    <3>2. n1 \in Int /\ n1 <= Cardinality(A)
      BY <3>1, SMTT(30)
    <3>3. p1 \in [A -> {"idle", "started", "adding", "working", "closing"}] /\ z1 \in BOOLEAN
      BY <3>1, Zenon
    <3>4. T1
      BY <1>4, <3>2, <3>3, Zenon DEF GroupType
    <3>5. W1 = W \ {g}
      BY <3>1, Zenon DEF AtWork
    <3> QED
      BY <3>4, <3>5, Zenon
  <2>2. GroupCount(A, p1, n1, d1)
    <3>1. Cardinality(W1) = Cardinality(W) - 1 /\ Cardinality(W) \in Nat
      <4>1. p[g] = "working" /\ W1 = W \ {g}
        BY <1>4, <2>1, Zenon DEF Down
      <4> QED
        BY <4>1, JoinOrLeave, AtWorkFinite, Zenon
    <3>2. n \in Int /\ n1 = n - 1 /\ n <= Cardinality(W) /\ (~d => n = Cardinality(W))
      BY <1>4, Zenon DEF Down, GroupCount, GroupType
    <3> HIDE DEF W, W1
    <3>3. n1 <= Cardinality(W1) /\ (~d1 => n1 = Cardinality(W1))
      BY <1>4, <3>1, <3>2, SMTT(30)
    <3> QED
      BY <3>3, Zenon DEF W1, GroupCount
  <2>3. z => l
    BY <1>4, Zenon DEF Down, AtWork, GroupType
  <2>4. CASE z
    BY <1>4, <2>1, <2>2, <2>3, <2>4, Zenon DEF Down, GroupType
  <2>5. CASE ~z /\ n1 # 0
    BY <1>4, <2>1, <2>2, <2>5, Zenon DEF Down, GroupType
  <2>6. CASE ~z /\ n1 = 0
    <3>1. Cardinality(W1) = 0
      BY <1>4, <2>2, <2>6, Zenon DEF GroupCount
    <3>2. W1 = {}
      BY <3>1, AtWorkFinite, FS_EmptySet, Zenon
    <3> QED
      BY <1>4, <2>1, <2>2, <2>6, <3>2, Zenon DEF Down, GroupType
  <2> QED
    BY <2>4, <2>5, <2>6, Zenon DEF GroupType
<1>5. ASSUME NEW g \in A, Shut(g, p, d, p1, d1, x1), n1 = n /\ c1 = c /\ z1 = z /\ l1 = l
      PROVE  I1
  <2>1. T1 /\ W1 = W
    BY <1>5, Zenon DEF Shut, GroupType, AtWork
  <2>2. z /\ d1
    BY <1>5, Zenon DEF Shut, GroupType
  <2> QED
    BY <1>5, <2>1, <2>2, Zenon DEF Shut, GroupType, GroupCount
<1>6. ASSUME c1 \in {c, "waiting", "finished", "timeout"},
             p1 = p /\ n1 = n /\ d1 = d /\ x1 = x /\ z1 = z /\ l1 = l
      PROVE  I1
  BY <1>6, Zenon DEF GroupType, GroupCount
<1> QED
  BY <1>1, <1>2, <1>3, <1>4, <1>5, <1>6, Zenon DEF GroupStep

-----------------------------------------------------------------------------
(* The relay's group *)

RelayGroup == GroupInv(Asyncs, pc, running, done, panicked, closing, zeroed, late)

\* The relay's group has the invariant of module WaitGroup.
LEMMA RelayGroupIsIInv == RelayGroup <=> IInv
  BY Zenon DEF RelayGroup, GroupInv, GroupType, GroupCount, AtWork, IInv, TypeOK, CountIsExact, Working

\* The same after a step.
LEMMA RelayGroupIsIInvPrime == RelayGroup' <=> IInv'
  BY Zenon DEF RelayGroup, GroupInv, GroupType, GroupCount, AtWork, IInv, TypeOK, CountIsExact, Working

\* A new wait group counts nobody.
LEMMA Init_IInv == Init => IInv
<1> SUFFICES ASSUME Init PROVE IInv
  BY Zenon
<1>1. Cardinality(Asyncs) \in Nat /\ Cardinality({}) = 0
  BY WaitGroupAssumption, FS_CardinalityType, FS_EmptySet, Zenon
<1>2. TypeOK
  <2>1. pc \in [Asyncs -> {"idle", "started", "adding", "working", "closing"}]
    BY Zenon DEF Init
  <2>2. running \in Int /\ running <= Cardinality(Asyncs) /\ closing \in {"open", "waiting", "finished", "timeout"}
    BY <1>1, SMTT(30) DEF Init
  <2> QED
    BY <2>1, <2>2, Zenon DEF Init, TypeOK
<1>3. Working = {}
  BY Zenon DEF Init, Working
<1>4. CountIsExact
  BY <1>1, <1>3, SMTT(30) DEF Init, CountIsExact
<1> QED
  BY <1>2, <1>4, Zenon DEF Init, IInv

\* The operations of WaitGroup are steps of a group.
LEMMA RelayGroupSteps ==
    ASSUME [Next]_vars
    PROVE  GroupStep(Asyncs, pc, running, done, panicked, closing, zeroed, late,
                     pc', running', done', panicked', closing', zeroed', late')
<1> USE DEF Goto, group, Look, Up, Down, Shut
<1>1. ASSUME NEW g \in Asyncs, Start(g) \/ AddLook(g) \/ AddCount(g)
      PROVE  GroupStep(Asyncs, pc, running, done, panicked, closing, zeroed, late,
                       pc', running', done', panicked', closing', zeroed', late')
  BY <1>1, Zenon DEF Start, AddLook, AddCount, GroupStep
<1>2. ASSUME NEW g \in Asyncs, DoneCount(g) \/ DoneClose(g)
      PROVE  GroupStep(Asyncs, pc, running, done, panicked, closing, zeroed, late,
                       pc', running', done', panicked', closing', zeroed', late')
  BY <1>2, Zenon DEF DoneCount, DoneClose, GroupStep
<1>3. CASE CloseWait \/ CloseFinished \/ CloseTimeout \/ UNCHANGED vars
  BY <1>3, Zenon DEF CloseWait, CloseFinished, CloseTimeout, vars, GroupStep
<1> QED
  BY <1>1, <1>2, <1>3, Zenon DEF Next, Async

\* Every step keeps the inductive invariant.
LEMMA Next_IInv == IInv /\ [Next]_vars => IInv'
<1> SUFFICES ASSUME IInv, [Next]_vars PROVE IInv'
  BY Zenon
<1>1. RelayGroup
  BY RelayGroupIsIInv, Zenon
<1>2. RelayGroup'
  BY <1>1, RelayGroupSteps, GroupStepInv, WaitGroupAssumption, SMTT(30) DEF RelayGroup
<1> QED
  BY <1>2, RelayGroupIsIInvPrime, Zenon

\* The types of a group, and that its counter never exceeds its users.
THEOREM TypeCorrect == Spec => []TypeOK
<1>1. IInv => TypeOK
  BY Zenon DEF IInv
<1> QED
  BY <1>1, Init_IInv, Next_IInv, PTL DEF Spec

\* Until the channel is closed the counter is the number of goroutines that
\* have added themselves and not left, and it never exceeds it.
THEOREM CountTheorem == Spec => []CountIsExact
<1>1. IInv => CountIsExact
  BY Zenon DEF IInv
<1> QED
  BY <1>1, Init_IInv, Next_IInv, PTL DEF Spec

\* If no Add takes a step after the counter has come back to zero, the
\* channel is closed once, and only when nobody is at work.
THEOREM OneRoundTheorem == Spec => []OneRound
<1>1. IInv => OneRound
  BY Zenon DEF IInv, OneRound
<1> QED
  BY <1>1, Init_IInv, Next_IInv, PTL DEF Spec

\* What a step of the process does to the relay's group is a step of it.
LEMMA GroupSteps == [ProcessNext]_processVars => [Next]_vars
<1> SUFFICES ASSUME [ProcessNext]_processVars PROVE [Next]_vars
  BY Zenon
<1>1. CASE UNCHANGED processVars
  BY <1>1, Zenon DEF processVars
<1>2. CASE ProcessNext
  <2>1. ~panicked
    BY <1>2, Zenon DEF ProcessNext, Gone
  <2>2. ASSUME NEW g \in Asyncs, StartAsync(g) PROVE [Next]_vars
    BY <2>1, <2>2, Zenon DEF StartAsync, Next, Async
  <2>3. ASSUME NEW g \in Asyncs, RelayAsync(g) PROVE [Next]_vars
    BY <2>1, <2>3, Zenon DEF RelayAsync, StoreAsync, Leave, Next, Async
  <2>4. ASSUME NEW w \in Workers, Run(w) PROVE UNCHANGED vars
    BY <2>4, Zenon DEF Run, Count, Take, handleRequest, Leaving
  <2>5. CASE Signal \/ ServerShutdown \/ Expire \/ Exit \/ CloseWarehouse
    BY <2>5, Zenon DEF Signal, ServerShutdown, Expire, Exit, CloseWarehouse
  <2>6. CASE CloseRegistrations \/ CloseRelay
    BY <2>1, <2>6, Zenon DEF CloseRegistrations, CloseRelay, Next
  <2> QED
    BY <1>2, <2>2, <2>3, <2>4, <2>5, <2>6, Zenon DEF ProcessNext, closemanager
<1> QED
  BY <1>1, <1>2, Zenon

\* The process implements the wait group of the relay, to which nothing but its
\* own operations is done.
THEOREM GroupRefinement == ProcessSpec => Spec
<1>1. ProcessInit => Init
  BY Zenon DEF ProcessInit
<1> QED
  BY <1>1, GroupSteps, PTL DEF ProcessSpec, Spec

\* The types of the relay's group, in the process.
THEOREM ProcessTypeOK == ProcessSpec => []TypeOK
  BY GroupRefinement, TypeCorrect, PTL

\* So the counter is exact until its channel is closed ...
THEOREM ProcessCount == ProcessSpec => []CountIsExact
  BY GroupRefinement, CountTheorem, PTL

\* ... and the group keeps its promise for one round.
THEOREM ProcessOneRound == ProcessSpec => []OneRound
  BY GroupRefinement, OneRoundTheorem, PTL

-----------------------------------------------------------------------------
(* The workers' group *)

PoolGroup == GroupInv(Workers, wpc, wrunning, wdone, wpanicked, wclosing, wzeroed, wlate)

\* The instance of the library's operator is that operator.
LEMMA Instances == \A S : Pool!Cardinality(S) = Cardinality(S)
  BY Zenon DEF Pool!Cardinality, Cardinality

\* The workers' group has the invariant of its instance of WaitGroup.
LEMMA PoolGroupIsIInv == PoolGroup <=> Pool!IInv
  BY Instances, Zenon DEF PoolGroup, GroupInv, GroupType, GroupCount, AtWork,
                   Pool!IInv, Pool!TypeOK, Pool!CountIsExact, Pool!Working

\* The same after a step.
LEMMA PoolGroupIsIInvPrime == PoolGroup' <=> Pool!IInv'
  BY Instances, Zenon DEF PoolGroup, GroupInv, GroupType, GroupCount, AtWork,
                   Pool!IInv, Pool!TypeOK, Pool!CountIsExact, Pool!Working

\* It starts with workers that have not announced themselves.
LEMMA Init_PoolInv == ProcessInit => Pool!IInv
<1> SUFFICES ASSUME ProcessInit PROVE Pool!IInv
  BY Zenon
<1>1. Pool!Working = {}
  BY Zenon DEF ProcessInit, Pool!Working
<1>2. Cardinality(Workers) \in Nat /\ Cardinality({}) = 0
  BY ShutdownAssumption, FS_CardinalityType, FS_EmptySet, Zenon
<1>3. Pool!CountIsExact
  <2>1. wrunning = 0
    BY Zenon DEF ProcessInit
  <2> QED
    BY <1>1, <1>2, <2>1, Instances, SMTT(30) DEF Pool!CountIsExact
<1>4. Pool!TypeOK
  <2>1. wpc \in [Workers -> {"idle", "started", "adding", "working", "closing"}]
    BY Zenon DEF ProcessInit
  <2>2. wrunning \in Int /\ wrunning <= Cardinality(Workers) /\ wclosing \in {"open", "waiting", "finished", "timeout"}
    BY <1>2, SMTT(30) DEF ProcessInit
  <2> QED
    BY <2>1, <2>2, Instances, Zenon DEF ProcessInit, Pool!TypeOK
<1> QED
  BY <1>1, <1>3, <1>4, Zenon DEF ProcessInit, Pool!IInv

\* What a step of the process does to it is a step of a group.
LEMMA PoolGroupSteps ==
    ASSUME [ProcessNext]_processVars
    PROVE  GroupStep(Workers, wpc, wrunning, wdone, wpanicked, wclosing, wzeroed, wlate,
                     wpc', wrunning', wdone', wpanicked', wclosing', wzeroed', wlate')
<1> DEFINE Step == GroupStep(Workers, wpc, wrunning, wdone, wpanicked, wclosing, wzeroed, wlate,
                             wpc', wrunning', wdone', wpanicked', wclosing', wzeroed', wlate')
<1>1. UNCHANGED poolVars => Step
  BY Zenon DEF poolVars, GroupStep
<1>2. ASSUME NEW w \in Workers, Pool!AddLook(w) \/ Pool!AddCount(w) PROVE Step
  BY <1>2, Zenon DEF Pool!AddLook, Pool!AddCount, Pool!Goto, Pool!group, Look, Up, GroupStep
<1>3. ASSUME NEW w \in Workers, Pool!DoneCount(w) \/ Pool!DoneClose(w) PROVE Step
  BY <1>3, Zenon DEF Pool!DoneCount, Pool!DoneClose, Pool!Goto, Pool!group, Down, Shut, GroupStep
<1>4. Pool!CloseWait \/ Pool!CloseFinished \/ Pool!CloseTimeout => Step
  BY Zenon DEF Pool!CloseWait, Pool!CloseFinished, Pool!CloseTimeout, Pool!group, GroupStep
<1> SUFFICES Step
  BY Zenon
<1> HIDE DEF Step
<1>5. CASE UNCHANGED processVars
  BY <1>1, <1>5, Zenon DEF processVars
<1>6. ASSUME NEW g \in Asyncs, StartAsync(g) \/ RelayAsync(g) PROVE Step
  BY <1>1, <1>6, Zenon DEF StartAsync, RelayAsync, StoreAsync, Leave
<1>7. ASSUME NEW w \in Workers, Run(w) PROVE Step
  BY <1>1, <1>2, <1>3, <1>7, Zenon DEF Run, Count, Take, handleRequest, Leaving
<1>8. CASE Signal \/ ServerShutdown \/ Expire \/ Exit \/ CloseRegistrations \/ CloseRelay
  BY <1>1, <1>8, Zenon DEF Signal, ServerShutdown, Expire, Exit, CloseRegistrations, CloseRelay
<1>9. CASE CloseWarehouse
  BY <1>4, <1>9, Zenon DEF CloseWarehouse
<1> QED
  BY <1>5, <1>6, <1>7, <1>8, <1>9, Zenon DEF ProcessNext, closemanager

\* Every step of the process keeps the invariant of the workers' group.
LEMMA Next_PoolInv == Pool!IInv /\ [ProcessNext]_processVars => Pool!IInv'
<1> SUFFICES ASSUME Pool!IInv, [ProcessNext]_processVars PROVE Pool!IInv'
  BY Zenon
<1>1. PoolGroup
  BY PoolGroupIsIInv, Zenon
<1>2. PoolGroup'
  BY <1>1, PoolGroupSteps, GroupStepInv, ShutdownAssumption, Zenon DEF PoolGroup
<1> QED
  BY <1>2, PoolGroupIsIInvPrime, Zenon

\* The workers' group counts its workers and keeps its promise for one round.
THEOREM WorkersTheorem == ProcessSpec => []WorkersOneRound
<1>1. Pool!IInv => WorkersOneRound
  BY Zenon DEF Pool!IInv, WorkersOneRound, Pool!OneRound
<1> QED
  BY <1>1, Init_PoolInv, Next_PoolInv, PTL DEF ProcessSpec

-----------------------------------------------------------------------------
(* The channel of the warehouse *)

\* Taking a request moves the others up by one.
LEMMA TailOf ==
    ASSUME NEW S, NEW q \in Seq(S), q # << >>
    PROVE  /\ Tail(q) \in Seq(S) /\ Head(q) \in S
           /\ \A i \in DOMAIN Tail(q) : i + 1 \in DOMAIN q /\ Tail(q)[i] = q[i + 1]
  BY SMTT(30)

\* A request that is sent comes after those in the channel.
LEMMA AppendOf ==
    ASSUME NEW S, NEW q \in Seq(S), NEW e \in S
    PROVE  /\ Append(q, e) \in Seq(S)
           /\ \A i \in DOMAIN Append(q, e) : Append(q, e)[i] = e \/ (i \in DOMAIN q /\ Append(q, e)[i] = q[i])
  BY SMTT(30)

\* A goroutine of the relay adds a request, early only before Close has begun.
LEMMA StoreWork ==
    ASSUME WorkInv, NEW g \in Asyncs, StoreAsync(g)
    PROVE  WorkInv'
<1>1. /\ requests' = Append(requests, IF clean THEN "late" ELSE "early")
      /\ UNCHANGED <<workVars, poolVars>>
  BY Zenon DEF StoreAsync
<1>2. /\ requests' \in Seq({"early", "late"})
      /\ clean => \A i \in DOMAIN requests' : requests'[i] = "late" \/ (i \in DOMAIN requests /\ requests'[i] = requests[i])
  <2>1. CASE clean
    BY <1>1, <2>1, AppendOf, SMTT(30) DEF WorkInv
  <2>2. CASE ~clean
    BY <1>1, <2>2, AppendOf, Zenon DEF WorkInv
  <2> QED
    BY <2>1, <2>2, Zenon
<1>3. ASSUME NEW w \in Workers, mode[w] = "drained" PROVE \A i \in DOMAIN requests' : requests'[i] # "early"
  BY <1>2, <1>3, Zenon DEF WorkInv
<1> QED
  BY <1>1, <1>2, <1>3, Zenon DEF WorkInv, workVars, poolVars

\* A worker that takes a request holds it instead of the channel.
LEMMA TakeWork ==
    ASSUME WorkInv, NEW w \in Workers, Take(w)
    PROVE  WorkInv'
<1>1. /\ wpc[w] = "working" /\ mode[w] \in {"loop", "drain"} /\ requests # << >>
      /\ hand' = [hand EXCEPT ![w] = {Head(requests)}] /\ requests' = Tail(requests)
      /\ UNCHANGED <<clean, mode, poolVars>>
  BY Zenon DEF Take
<1>2. /\ requests' \in Seq({"early", "late"}) /\ Head(requests) \in {"early", "late"}
      /\ \A i \in DOMAIN requests' : i + 1 \in DOMAIN requests /\ requests'[i] = requests[i + 1]
  BY <1>1, TailOf, SMTT(30) DEF WorkInv
<1>3. /\ hand' \in [Workers -> SUBSET {"early", "late"}]
      /\ \A v \in Workers : v # w => hand'[v] = hand[v]
  BY <1>1, <1>2, Zenon DEF WorkInv
<1>4. ASSUME NEW v \in Workers, mode[v] = "drained" PROVE \A i \in DOMAIN requests' : requests'[i] # "early"
  BY <1>2, <1>4, Zenon DEF WorkInv
<1> QED
  BY <1>1, <1>2, <1>3, <1>4, Zenon DEF WorkInv, poolVars

\* A worker that has handled its request, or leaves a loop, leaves the channel
\* alone.
LEMMA LoopWork ==
    ASSUME WorkInv, NEW w \in Workers, handleRequest(w) \/ Leaving(w)
    PROVE  WorkInv'
<1>1. UNCHANGED <<requests, clean, poolVars>>
  BY Zenon DEF handleRequest, Leaving
<1>2. CASE handleRequest(w)
  <2>1. hand' = [hand EXCEPT ![w] = {}] /\ UNCHANGED mode
    BY <1>2, Zenon DEF handleRequest
  <2> QED
    BY <1>1, <2>1, Zenon DEF WorkInv, poolVars
<1>3. CASE Leaving(w)
  <2>1. /\ wpc[w] = "working" /\ hand[w] = {} /\ UNCHANGED hand /\ mode[w] \in {"loop", "drain"}
        /\ \E m \in {"cancelled", "drain", "drained"} :
              /\ mode' = [mode EXCEPT ![w] = m]
              /\ m = "drain" => clean
              /\ m = "drained" => mode[w] = "drain" /\ requests = << >>
    BY <1>3, Zenon DEF Leaving
  <2>2. PICK m \in {"cancelled", "drain", "drained"} :
              /\ mode' = [mode EXCEPT ![w] = m]
              /\ m = "drain" => clean
              /\ m = "drained" => mode[w] = "drain" /\ requests = << >>
    BY <2>1, Zenon
  <2>3. /\ mode' \in [Workers -> {"loop", "cancelled", "drain", "drained"}] /\ mode'[w] = m
        /\ \A v \in Workers : v # w => mode'[v] = mode[v]
    BY <2>2, Zenon DEF WorkInv
  <2>4. ASSUME NEW v \in Workers, mode[v] \in {"cancelled", "drained"} PROVE mode'[v] \in {"cancelled", "drained"}
    BY <2>1, <2>3, <2>4, Zenon
  <2>5. m = "drained" => clean /\ \A i \in DOMAIN requests : requests[i] # "early"
    BY <2>2, SMTT(30) DEF WorkInv
  <2> QED
    BY <1>1, <2>1, <2>2, <2>3, <2>4, <2>5, Zenon DEF WorkInv, poolVars
<1> QED
  BY <1>2, <1>3, Zenon

\* A worker that leaves the group is done with its loop.
LEMMA CountWork ==
    ASSUME WorkInv, Pool!IInv, NEW w \in Workers, Count(w)
    PROVE  WorkInv'
<1>1. UNCHANGED <<requests, clean, mode, hand>>
  BY Zenon DEF Count, workVars
<1>2. wpc \in [Workers -> {"idle", "started", "adding", "working", "closing"}]
  BY Zenon DEF Pool!IInv, Pool!TypeOK
<1>3. CASE Pool!AddLook(w) \/ Pool!AddCount(w)
  <2>1. /\ wpc[w] \in {"started", "adding"} /\ wpc'[w] \in {"adding", "working"}
        /\ \A v \in Workers : v # w => wpc'[v] = wpc[v]
        /\ UNCHANGED <<wdone, wclosing, wzeroed>>
    BY <1>2, <1>3, Zenon DEF Pool!AddLook, Pool!AddCount, Pool!Goto, Pool!group
  <2> QED
    BY <1>1, <2>1, Zenon DEF WorkInv
<1>4. CASE Pool!DoneClose(w)
  <2>1. /\ wpc[w] = "closing" /\ wpc'[w] = "idle" /\ \A v \in Workers : v # w => wpc'[v] = wpc[v]
        /\ wdone' /\ UNCHANGED <<wclosing, wzeroed>>
    BY <1>2, <1>4, Zenon DEF Pool!DoneClose, Pool!Goto
  <2> QED
    BY <1>1, <2>1, Zenon DEF WorkInv
<1>5. CASE mode[w] \in {"cancelled", "drained"} /\ Pool!DoneCount(w)
  <2>1. /\ wpc[w] = "working" /\ wpc'[w] \in {"closing", "idle"} /\ \A v \in Workers : v # w => wpc'[v] = wpc[v]
        /\ UNCHANGED <<wdone, wclosing>>
    BY <1>2, <1>5, Zenon DEF Pool!DoneCount, Pool!Goto
  <2> QED
    BY <1>1, <1>5, <2>1, Zenon DEF WorkInv
<1> QED
  BY <1>3, <1>4, <1>5, Zenon DEF Count

\* Close finishes only when the workers' channel is closed.
LEMMA CloseWork ==
    ASSUME WorkInv, CloseWarehouse
    PROVE  WorkInv'
<1>1. UNCHANGED <<requests, mode, hand, wpc, wdone, wzeroed>> /\ (clean => clean')
  BY SMTT(30) DEF CloseWarehouse, Pool!CloseWait, Pool!CloseFinished, Pool!CloseTimeout, Pool!group
<1>2. wclosing' = "finished" => wdone
  BY Zenon DEF CloseWarehouse, Pool!CloseWait, Pool!CloseFinished, Pool!CloseTimeout
<1> QED
  BY <1>1, <1>2, Zenon DEF WorkInv

\* Every step of the process keeps what is known of the warehouse's channel.
LEMMA Next_WorkInv == Pool!IInv /\ WorkInv /\ [ProcessNext]_processVars => WorkInv'
<1> SUFFICES ASSUME Pool!IInv, WorkInv, [ProcessNext]_processVars PROVE WorkInv'
  BY Zenon
<1>1. CASE UNCHANGED <<requests, workVars, poolVars>>
  BY <1>1, Zenon DEF WorkInv, workVars, poolVars
<1>2. CASE UNCHANGED processVars
  BY <1>1, <1>2, Zenon DEF processVars
<1>3. ASSUME NEW g \in Asyncs, StartAsync(g) \/ RelayAsync(g) PROVE WorkInv'
  <2>1. CASE StoreAsync(g)
    BY <2>1, StoreWork, Zenon
  <2> QED
    BY <1>1, <1>3, <2>1, Zenon DEF StartAsync, RelayAsync, Leave
<1>4. ASSUME NEW w \in Workers, Run(w) PROVE WorkInv'
  BY <1>4, CountWork, TakeWork, LoopWork, Zenon DEF Run
<1>5. CASE Signal \/ ServerShutdown \/ Expire \/ Exit \/ CloseRegistrations \/ CloseRelay
  BY <1>1, <1>5, Zenon DEF Signal, ServerShutdown, Expire, Exit, CloseRegistrations, CloseRelay
<1>6. CASE CloseWarehouse
  BY <1>6, CloseWork, Zenon
<1> QED
  BY <1>2, <1>3, <1>4, <1>5, <1>6, Zenon DEF ProcessNext, closemanager

\* Once Close of the warehouse has seen its workers leave, every request that
\* was buffered before it began has been handled, if no worker was cancelled
\* and none announced itself late.
THEOREM DrainedTheorem == ProcessSpec => []Drained
<1>1. ProcessInit => WorkInv
  BY SMTT(30) DEF ProcessInit, WorkInv
<1>2. Pool!IInv /\ WorkInv => Drained
  <2> SUFFICES ASSUME Pool!IInv, WorkInv, wclosing = "finished", ~wlate, \A w \in Workers : mode[w] # "cancelled"
               PROVE  /\ \A i \in DOMAIN requests : requests[i] # "early"
                      /\ \A w \in Workers : "early" \notin hand[w]
    BY Zenon DEF Drained
  <2>1. wdone /\ wzeroed /\ Pool!Working = {}
    BY Zenon DEF WorkInv, Pool!IInv, Pool!TypeOK
  <2>2. PICK w \in Workers : mode[w] = "drained"
    BY <2>1, Zenon DEF WorkInv
  <2>3. \A v \in Workers : hand[v] = {}
    BY <2>1, Zenon DEF WorkInv, Pool!Working
  <2> QED
    BY <2>2, <2>3, Zenon DEF WorkInv
<1> QED
  BY <1>1, <1>2, Init_PoolInv, Next_PoolInv, Next_WorkInv, PTL DEF ProcessSpec

-----------------------------------------------------------------------------
(* The order of the two Closes *)

\* A goroutine of the relay hands over an early request before the Close of the
\* warehouse, and none once the Close of the relay has seen its group finish.
LEMMA StoreOrder ==
    ASSUME WorkInv, IInv, OrderInv, NEW g \in Asyncs, StoreAsync(g)
    PROVE  OrderInv'
<1>1. /\ pc[g] = "working"
      /\ requests' = Append(requests, IF clean THEN "late" ELSE "early")
      /\ UNCHANGED <<main, closing, done, late, clean, mode, hand>>
  BY Zenon DEF StoreAsync, vars, group, mainVars, workVars
<1>2. CASE clean
  <2>1. ~(closing = "finished" /\ ~late)
    BY <1>1, Zenon DEF OrderInv, IInv, TypeOK, Working
  <2> QED
    BY <1>1, <1>2, <2>1, Zenon DEF OrderInv
<1>3. CASE ~clean
  <2>1. \A i \in DOMAIN requests' : requests'[i] = "early"
    BY <1>1, <1>3, AppendOf, SMTT(30) DEF WorkInv, OrderInv
  <2> QED
    BY <1>1, <1>3, <2>1, Zenon DEF OrderInv
<1> QED
  BY <1>2, <1>3, Zenon

\* A worker's steps make no request late, and leave the loop after the signal.
LEMMA RunOrder ==
    ASSUME WorkInv, OrderInv, NEW w \in Workers, Run(w)
    PROVE  OrderInv'
<1>1. UNCHANGED <<main, closing, done, late, clean>>
  BY Zenon DEF Run, Count, Take, handleRequest, Leaving, vars, group, mainVars, workVars
<1>2. CASE Count(w)
  <2>1. UNCHANGED <<requests, mode, hand>>
    BY <1>2, Zenon DEF Count, workVars
  <2> QED
    BY <1>1, <2>1, SMTT(30) DEF OrderInv
<1>3. CASE Take(w)
  <2>1. /\ requests # << >> /\ hand' = [hand EXCEPT ![w] = {Head(requests)}]
        /\ requests' = Tail(requests) /\ UNCHANGED mode
    BY <1>3, Zenon DEF Take
  <2>2. requests \in Seq({"early", "late"}) /\ hand \in [Workers -> SUBSET {"early", "late"}]
    BY Zenon DEF WorkInv
  <2>3. 1 \in DOMAIN requests /\ Head(requests) = requests[1]
    BY <2>1, <2>2, SMTT(30)
  <2>4. \A i \in DOMAIN requests' : i + 1 \in DOMAIN requests /\ requests'[i] = requests[i + 1]
    BY <2>1, <2>2, TailOf, Zenon
  <2>5. \A v \in Workers : hand'[v] = IF v = w THEN {requests[1]} ELSE hand[v]
    BY <2>1, <2>2, <2>3, Zenon
  <2> QED
    BY <1>1, <2>1, <2>3, <2>4, <2>5, SMTT(30) DEF OrderInv
<1>4. CASE handleRequest(w)
  <2>1. hand' = [hand EXCEPT ![w] = {}] /\ UNCHANGED <<requests, mode>>
    BY <1>4, Zenon DEF handleRequest
  <2>2. \A v \in Workers : hand'[v] = IF v = w THEN {} ELSE hand[v]
    BY <2>1, Zenon DEF WorkInv
  <2> QED
    BY <1>1, <2>1, <2>2, SMTT(30) DEF OrderInv
<1>5. CASE Leaving(w)
  <2>1. main # "serving" /\ UNCHANGED <<requests, hand>>
    BY <1>5, Zenon DEF Leaving, OrderInv
  <2> QED
    BY <1>1, <2>1, Zenon DEF OrderInv
<1> QED
  BY <1>2, <1>3, <1>4, <1>5, Zenon DEF Run

\* closemanager: the relay is closed while cleanShutdown is still open.
LEMMA CloseOrder ==
    ASSUME OrderInv, closemanager
    PROVE  OrderInv'
<1>1. UNCHANGED <<requests, mode, hand, done, late>>
  BY Zenon DEF closemanager, CloseRegistrations, CloseRelay, CloseWarehouse, CloseWait, CloseFinished, CloseTimeout,
         vars, group, workVars
<1>2. CASE CloseRegistrations
  <2>1. main = "registrations" /\ main' = "relay" /\ closing' = "waiting" /\ UNCHANGED clean
    BY <1>2, Zenon DEF CloseRegistrations, CloseWait, workVars
  <2> QED
    BY <1>1, <2>1, Zenon DEF OrderInv
<1>3. CASE CloseRelay
  <2>1. /\ main = "relay" /\ main' = "warehouse" /\ UNCHANGED clean
        /\ closing' = "finished" => done
    BY <1>3, Zenon DEF CloseRelay, CloseFinished, CloseTimeout, workVars
  <2> QED
    BY <1>1, <2>1, Zenon DEF OrderInv
<1>4. CASE CloseWarehouse
  <2>1. main = "warehouse" /\ UNCHANGED <<main, closing>>
    BY <1>4, Zenon DEF CloseWarehouse, vars, mainVars
  <2>2. clean => clean'
    BY <1>4, Zenon DEF CloseWarehouse
  <2> QED
    BY <1>1, <2>1, <2>2, Zenon DEF OrderInv
<1> QED
  BY <1>2, <1>3, <1>4, Zenon DEF closemanager

\* A goroutine of the relay that does not hand over its request: whoever closes
\* the channel of the group keeps it closed, and late stays late.
LEMMA GroupOrder ==
    ASSUME IInv, OrderInv, NEW g \in Asyncs, StartAsync(g) \/ RelayAsync(g), ~StoreAsync(g)
    PROVE  OrderInv'
<1>1. UNCHANGED <<main, requests, clean, mode, hand>>
  BY Zenon DEF StartAsync, RelayAsync, Leave, mainVars, workVars
<1>2. Start(g) \/ AddLook(g) \/ AddCount(g) \/ DoneCount(g) \/ DoneClose(g)
  BY Zenon DEF StartAsync, RelayAsync, Leave
<1>3. UNCHANGED closing
  BY <1>2, Zenon DEF Start, AddLook, AddCount, DoneCount, DoneClose
<1>4. done => done'
  BY <1>2, Zenon DEF Start, AddLook, AddCount, DoneCount, DoneClose, group
<1>5. late => late'
  BY <1>2, Zenon DEF Start, AddLook, AddCount, DoneCount, DoneClose
<1> QED
  BY <1>1, <1>3, <1>4, <1>5, Zenon DEF OrderInv

\* Every step of the process keeps what is known of the order.
LEMMA Next_OrderInv == IInv /\ WorkInv /\ OrderInv /\ [ProcessNext]_processVars => OrderInv'
<1> SUFFICES ASSUME IInv, WorkInv, OrderInv, [ProcessNext]_processVars PROVE OrderInv'
  BY Zenon
<1>1. CASE UNCHANGED processVars
  BY <1>1, Zenon DEF OrderInv, processVars, vars, group, mainVars, workVars
<1>2. ASSUME NEW g \in Asyncs, StartAsync(g) \/ RelayAsync(g) PROVE OrderInv'
  BY <1>2, StoreOrder, GroupOrder, Zenon
<1>3. ASSUME NEW w \in Workers, Run(w) PROVE OrderInv'
  BY <1>3, RunOrder, Zenon
<1>4. CASE Signal \/ ServerShutdown \/ Expire \/ Exit
  <2>1. UNCHANGED <<closing, done, late, requests, clean, mode, hand>>
    BY <1>4, Zenon DEF Signal, ServerShutdown, Expire, Exit, vars, group, workVars
  <2>2. main' # "serving" /\ (main' = main \/ main' = "exit" \/ main \in {"serving", "server"})
    BY <1>4, Zenon DEF Signal, ServerShutdown, Expire, Exit
  <2> QED
    BY <2>1, <2>2, Zenon DEF OrderInv
<1>5. CASE closemanager
  BY <1>5, CloseOrder, Zenon
<1> QED
  BY <1>1, <1>2, <1>3, <1>4, <1>5, Zenon DEF ProcessNext

\* It holds at the start.
LEMMA Init_OrderInv == ProcessInit => OrderInv /\ WorkInv /\ IInv
<1>1. ProcessInit => OrderInv /\ WorkInv
  BY SMTT(30) DEF ProcessInit, Init, OrderInv, WorkInv
<1> QED
  BY <1>1, Init_IInv, Zenon DEF ProcessInit

\* Every step keeps the invariants of the process together.
LEMMA Next_All ==
    IInv /\ Pool!IInv /\ WorkInv /\ OrderInv /\ [ProcessNext]_processVars
        => IInv' /\ Pool!IInv' /\ WorkInv' /\ OrderInv'
  BY GroupSteps, Next_IInv, Next_PoolInv, Next_WorkInv, Next_OrderInv, Zenon

\* Nothing is left behind when both Closes have seen their groups finish.
THEOREM NothingLostTheorem == ProcessSpec => []NothingLost
<1>1. WorkInv /\ OrderInv /\ Drained => NothingLost
  <2> SUFFICES ASSUME WorkInv, OrderInv, Drained, closing = "finished", ~late,
                      wclosing = "finished", ~wlate, \A w \in Workers : mode[w] # "cancelled"
               PROVE  requests = << >> /\ \A w \in Workers : hand[w] = {}
    BY Zenon DEF NothingLost
  <2>1. \A i \in DOMAIN requests : FALSE
    BY Zenon DEF OrderInv, Drained
  <2>2. requests = << >>
    BY <2>1, SMTT(30) DEF WorkInv
  <2>3. \A w \in Workers : hand[w] \subseteq {"early"} /\ "early" \notin hand[w]
    BY Zenon DEF OrderInv, Drained
  <2> QED
    BY <2>2, <2>3, Zenon
<1> QED
  BY <1>1, DrainedTheorem, Init_OrderInv, Init_PoolInv, Next_All, PTL DEF ProcessSpec

\* The workers are in their loops until the signal.
THEOREM WorkersServeTheorem == ProcessSpec => []WorkersServe
<1>1. WorkInv /\ OrderInv => WorkersServe
  BY Zenon DEF WorkInv, OrderInv, WorkersServe
<1> QED
  BY <1>1, Init_OrderInv, Init_PoolInv, Next_All, PTL DEF ProcessSpec
==============================================================================
