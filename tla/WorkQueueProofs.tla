--------------------------- MODULE WorkQueueProofs ---------------------------
(***************************************************************************)
(* Proofs about WorkQueue, for every number of servers, callers and        *)
(* requests and every limit on the servers.                                *)
(***************************************************************************)
EXTENDS MCWorkQueue, FiniteSetTheorems, SequenceTheorems, WellFoundedInduction, TLAPS

ServerPCs == {"unborn", "starting", "waiting", "woken", "timedout", "engine", "relock",
              "exiting"}
CallerPCs == {"check", "enqueue", "returned"}
MainPCs == CallerPCs \cup {"destroy", "waiting", "woken", "destroyed", "walking"}

\* Where threads can be: servers, callers and main have program points of
\* their own, and main destroys the queue only after the callers returned.
Stages ==
  /\ \A s \in Servers : pc[s] \in ServerPCs
  /\ \A c \in Callers \ {Main} : pc[c] \in CallerPCs
  /\ pc[Main] \in MainPCs
  /\ pc[Main] \notin CallerPCs => \A c \in Callers \ {Main} : pc[c] = "returned"

\* A caller in workq_add has a request left, a server in the engine an element.
Locals ==
  /\ \A c \in Callers : Running /\ pc[c] = "enqueue" => count[c] < ITERATIONS
  /\ \A s \in Servers : pc[s] = "engine" => we[s] # NULL

\* The inductive invariant.  TypeOK needs CountsMatch, because wq->counter and
\* wq->idle are decremented without a test.
IInv == TypeOK /\ Stages /\ Locals /\ CountsMatch

\* Taking one element from a finite set lowers its cardinality by one.
LEMMA CardMinus ==
  ASSUME NEW S, IsFiniteSet(S), NEW x \in S
  PROVE  /\ IsFiniteSet(S \ {x})
         /\ Cardinality(S) \in Nat /\ Cardinality(S \ {x}) \in Nat
         /\ Cardinality(S \ {x}) = Cardinality(S) - 1
  BY FS_RemoveElement, FS_CardinalityType

\* Adding a new element to a finite set raises its cardinality by one.
LEMMA CardPlus ==
  ASSUME NEW S, IsFiniteSet(S), NEW x, x \notin S
  PROVE  Cardinality(S \cup {x}) = Cardinality(S) + 1
  BY FS_AddElement

\* The sets behind wq->counter and wq->idle are finite.
LEMMA FiniteServers ==
  /\ IsFiniteSet(LiveServers) /\ IsFiniteSet(IdleServers)
  /\ Cardinality(LiveServers) \in Nat /\ Cardinality(IdleServers) \in Nat
  <1>1. LiveServers \subseteq Servers /\ IdleServers \subseteq Servers
    BY DEF LiveServers, IdleServers
  <1> QED  BY <1>1, FS_Subset, FS_CardinalityType, ConstantsAssumption

\* Init establishes the invariant.
LEMMA InitIInv == Init => IInv
  <1> SUFFICES ASSUME Init PROVE IInv
    OBVIOUS
  <1>1. TypeOK
    <2>1. pc \in [Threads -> PCs]
      BY DEF Init, PCs
    <2>2. queue \in Seq(Items) /\ engine_list \in Seq(Nat) /\ done \in Seq(Items)
          /\ walk \in Seq(Nat)
      BY DEF Init
    <2>3. count \in [Callers -> 0..ITERATIONS]
      BY ConstantsAssumption DEF Init
    <2> QED  BY <2>1, <2>2, <2>3 DEF Init, TypeOK
  <1>2. Stages /\ Locals
    BY ConstantsAssumption
    DEF Init, Stages, Locals, Running, Threads, ServerPCs, CallerPCs, MainPCs
  <1>3. LiveServers = {} /\ IdleServers = {}
    BY DEF Init, LiveServers, IdleServers, LivePC, IdlePC, Threads
  <1>4. CountsMatch
    BY <1>3, FS_EmptySet, ConstantsAssumption DEF Init, CountsMatch
  <1> QED  BY <1>1, <1>2, <1>4 DEF IInv

\* One round of workq_server's loop, entered by server s with i idle servers
\* besides it, preserves the invariant.
LEMMA LoopIInv ==
  ASSUME IInv, NEW s \in Servers, pc[s] \in LivePC,
         NEW i, i = Cardinality(IdleServers \ {s}),
         NEW late \in BOOLEAN, ServerLoop(s, i, late), ServerUnchanged
  PROVE  IInv'
  <1> DEFINE Rest == IdleServers \ {s}
  <1>1. /\ IsFiniteSet(Rest) /\ i \in Nat
        /\ s \in LiveServers /\ s \in Threads
        /\ s \notin Callers
    BY FiniteServers, FS_Subset, FS_CardinalityType, ConstantsAssumption
    DEF LiveServers, Threads
  <1>2. CASE ServerWait(s, i)
    <2>1. pc' = [pc EXCEPT ![s] = "waiting"] /\ pc \in [Threads -> PCs]
      BY <1>2 DEF ServerWait, IInv, TypeOK
    <2>2. LiveServers' = LiveServers /\ IdleServers' = Rest \cup {s}
      BY <2>1, <1>1 DEF LiveServers, IdleServers, LivePC, IdlePC, Threads
    <2>3. Cardinality(Rest \cup {s}) = i + 1
      BY <1>1, CardPlus
    <2>4. CountsMatch'
      BY <1>2, <2>2, <2>3 DEF ServerWait, CountsMatch, IInv
    <2>5. TypeOK'
      BY <1>2, <2>1, <1>1 DEF ServerWait, ServerUnchanged, IInv, TypeOK, PCs, engines, summary
    <2>6. Stages' /\ Locals'
      BY <1>2, <2>1, <1>1, ConstantsAssumption
      DEF ServerWait, ServerUnchanged, IInv, Stages, Locals, Running, ServerPCs, Threads
    <2> QED  BY <2>4, <2>5, <2>6 DEF IInv
  <1>3. CASE ServerTake(s, i, late)
    <2>1. pc' = [pc EXCEPT ![s] = "engine"] /\ pc \in [Threads -> PCs]
      BY <1>3 DEF ServerTake, IInv, TypeOK
    <2>2. LiveServers' = LiveServers /\ IdleServers' = Rest
      BY <2>1, <1>1 DEF LiveServers, IdleServers, LivePC, IdlePC, Threads
    <2>3. CountsMatch'
      BY <1>3, <2>2 DEF ServerTake, CountsMatch, IInv
    <2>4. Head(queue) \in Items /\ Tail(queue) \in Seq(Items)
      BY <1>3 DEF ServerTake, IInv, TypeOK
    <2>5. TypeOK'
      BY <1>3, <2>1, <2>4, <1>1
      DEF ServerTake, ServerUnchanged, LastAfterTake, IInv, TypeOK, PCs, engines, summary
    <2>6. Stages' /\ Locals'
      BY <1>3, <2>1, <2>4, <1>1, ConstantsAssumption
      DEF ServerTake, ServerUnchanged, IInv, TypeOK, Stages, Locals, Running, ServerPCs, Threads
    <2> QED  BY <2>3, <2>5, <2>6 DEF IInv
  <1>4. CASE ServerQuit(s, i, late)
    <2> DEFINE p == [pc EXCEPT ![s] = "exiting"]
    <2>1. /\ pc' = p \/ pc' = Broadcast(p)
          /\ pc \in [Threads -> PCs] /\ pc' \in [Threads -> PCs]
      BY <1>4 DEF ServerQuit, IInv, TypeOK, Broadcast, PCs
    <2>2. /\ pc'[s] = "exiting"
          /\ \A t \in Threads \ {s} :
               pc'[t] = pc[t] \/ (pc[t] = "waiting" /\ pc'[t] = "woken")
      BY <2>1, <1>1 DEF Broadcast
    <2>3. LiveServers' = LiveServers \ {s} /\ IdleServers' = Rest
      BY <2>2, <1>1 DEF LiveServers, IdleServers, LivePC, IdlePC, Threads
    <2>4. CountsMatch' /\ counter' \in Nat
      <3>1. /\ Cardinality(LiveServers \ {s}) = Cardinality(LiveServers) - 1
            /\ Cardinality(LiveServers \ {s}) \in Nat /\ Cardinality(LiveServers) \in Nat
        BY <1>1, CardMinus, FiniteServers
      <3>2. /\ counter = Cardinality(LiveServers) /\ counter <= parallelism
            /\ counter' = counter - 1 /\ idle' = i /\ parallelism \in Nat
        BY <1>4, ConstantsAssumption DEF ServerQuit, CountsMatch, IInv
      <3> QED  BY <3>1, <3>2, <2>3 DEF CountsMatch
    <2>5. TypeOK'
      BY <1>4, <2>1, <2>4, <1>1
      DEF ServerQuit, ServerUnchanged, IInv, TypeOK, engines, summary
    <2>6. Stages'
      BY <2>2, <1>1, ConstantsAssumption
      DEF IInv, Stages, ServerPCs, CallerPCs, MainPCs, Threads
    <2>7. Locals'
      BY <1>4, <2>2, <1>1, ConstantsAssumption
      DEF ServerQuit, ServerUnchanged, IInv, Locals, Running, Threads
    <2> QED  BY <2>4, <2>5, <2>6, <2>7 DEF IInv
  <1> QED  BY <1>2, <1>3, <1>4 DEF ServerLoop

\* A step that leaves the two counters and the two sets of servers alone
\* leaves CountsMatch alone.
LEMMA SameServers ==
  ASSUME CountsMatch, LiveServers' = LiveServers, IdleServers' = IdleServers,
         counter' = counter, idle' = idle
  PROVE  CountsMatch'
  BY DEF CountsMatch

\* A waiter of wq->cv that becomes runnable is still counted as before.
LEMMA WakeIInv ==
  ASSUME IInv, NEW t \in Threads, pc[t] = "waiting",
         NEW to \in {"woken", "timedout"}, to = "timedout" => t \in Servers,
         pc' = [pc EXCEPT ![t] = to],
         UNCHANGED <<workq, we, timedout, engines, count, done, summary, failures, process>>
  PROVE  IInv'
  <1>1. TypeOK'
    BY DEF IInv, TypeOK, PCs, workq, engines, summary
  <1>2. LiveServers' = LiveServers /\ IdleServers' = IdleServers
    BY DEF IInv, TypeOK, LiveServers, IdleServers, LivePC, IdlePC, Threads
  <1>3. CountsMatch'
    BY <1>2, SameServers DEF IInv, workq
  <1>4. Stages' /\ Locals'
    BY ConstantsAssumption
    DEF IInv, TypeOK, Stages, Locals, Running, ServerPCs, CallerPCs, MainPCs, Threads
  <1> QED  BY <1>1, <1>3, <1>4 DEF IInv

\* workq_add preserves the invariant.
LEMMA AddIInv ==
  ASSUME IInv, NEW c \in Callers, AddLocked(c)
  PROVE  IInv'
  <1> DEFINE item == <<c, count[c] + 1>>
             p == [pc EXCEPT ![c] = "check"]
  <1>1. /\ c \in Threads /\ c \notin Servers /\ pc[c] = "enqueue"
        /\ pc \in [Threads -> PCs] /\ count[c] \in 0..ITERATIONS
        /\ count[c] < ITERATIONS
    BY ConstantsAssumption DEF AddLocked, Threads, IInv, TypeOK, Locals, Running
  <1>2. item \in Items /\ count[c] + 1 \in 0..ITERATIONS
    BY <1>1, ConstantsAssumption DEF Items
  <1>3. p \in [Threads -> PCs]
    BY <1>1 DEF PCs
  <1>4. /\ valid' \in BOOLEAN /\ quit' \in BOOLEAN /\ idle' \in Nat
        /\ queue' \in Seq(Items) /\ last' \in Items \cup {NULL}
        /\ we' \in [Servers -> Items \cup {NULL}]
        /\ timedout' \in [Servers -> BOOLEAN]
        /\ tsd' \in [Servers -> Nat]
        /\ engine_list' \in Seq(Nat)
        /\ count' \in [Callers -> 0..ITERATIONS]
        /\ done' \in Seq(Items)
        /\ walk' \in Seq(Nat) /\ calls' \in Nat
        /\ failures' \in Nat
    BY <1>2 DEF AddLocked, IInv, TypeOK, engines, summary
  <1>5. CASE /\ pc' \in Signal(p)
             /\ UNCHANGED <<counter, process>>
    <2>1. /\ pc' \in [Threads -> PCs]
          /\ pc'[c] = "check"
          /\ \A t \in Threads \ {c} :
               pc'[t] = pc[t] \/ (pc[t] = "waiting" /\ pc'[t] = "woken")
      BY <1>5, <1>3, <1>1 DEF Signal, Waiters, PCs
    <2>2. LiveServers' = LiveServers /\ IdleServers' = IdleServers
      BY <2>1, <1>1 DEF LiveServers, IdleServers, LivePC, IdlePC, Threads
    <2>3. CountsMatch'
      BY <2>2, <1>5, SameServers DEF IInv, AddLocked
    <2>4. TypeOK'
      BY <1>4, <1>5, <2>1 DEF IInv, TypeOK
    <2>5. Stages'
      BY <2>1, <1>1, ConstantsAssumption
      DEF IInv, Stages, ServerPCs, CallerPCs, MainPCs, Threads
    <2>6. Locals'
      BY <2>1, <1>1, ConstantsAssumption DEF IInv, TypeOK, Locals, Threads, AddLocked, Running
    <2> QED  BY <2>3, <2>4, <2>5, <2>6 DEF IInv
  <1>6. ASSUME NEW s \in Servers, pc[s] = "unborn", pc' = [p EXCEPT ![s] = "starting"],
               counter < parallelism, counter' = counter + 1, UNCHANGED process
        PROVE  IInv'
    <2>1. /\ pc' \in [Threads -> PCs]
          /\ pc'[c] = "check" /\ pc'[s] = "starting" /\ s # c
          /\ \A t \in Threads \ {c, s} : pc'[t] = pc[t]
      BY <1>6, <1>3, <1>1 DEF PCs, Threads
    <2>2. /\ LiveServers' = LiveServers \cup {s} /\ s \notin LiveServers
          /\ IdleServers' = IdleServers
      BY <2>1, <1>1, <1>6 DEF LiveServers, IdleServers, LivePC, IdlePC, Threads
    <2>3. CountsMatch'
      <3>1. Cardinality(LiveServers') = Cardinality(LiveServers) + 1
        BY <2>2, CardPlus, FiniteServers
      <3>2. /\ counter = Cardinality(LiveServers) /\ idle' = idle
            /\ idle = Cardinality(IdleServers) /\ parallelism \in Nat /\ counter \in Nat
        BY ConstantsAssumption DEF AddLocked, CountsMatch, TypeOK, IInv
      <3> QED  BY <3>1, <3>2, <2>2, <1>6 DEF CountsMatch
    <2>0. counter' \in Nat
      BY <1>6 DEF IInv, TypeOK
    <2>4. TypeOK'
      BY <1>4, <1>6, <2>0, <2>1 DEF IInv, TypeOK
    <2>5. Stages'
      BY <2>1, <1>1, ConstantsAssumption
      DEF IInv, Stages, ServerPCs, CallerPCs, MainPCs, Threads
    <2>6. Locals'
      BY <2>1, <1>1, ConstantsAssumption DEF IInv, TypeOK, Locals, Threads, AddLocked, Running
    <2> QED  BY <2>3, <2>4, <2>5, <2>6 DEF IInv
  <1>7. CASE /\ process' = "abort"
             /\ UNCHANGED <<pc, counter>>
    <2>1. LiveServers' = LiveServers /\ IdleServers' = IdleServers
      BY <1>7 DEF LiveServers, IdleServers
    <2>2. CountsMatch'
      BY <2>1, <1>7, SameServers DEF IInv, AddLocked
    <2>3. TypeOK'
      BY <1>4, <1>7 DEF IInv, TypeOK
    <2>4. Stages'
      BY <1>7 DEF IInv, Stages
    <2>5. Locals'
      BY <1>7 DEF IInv, Locals, Running, AddLocked
    <2> QED  BY <2>2, <2>3, <2>4, <2>5 DEF IInv
  <1>8. CASE pc' = p /\ UNCHANGED <<counter, process>>
    <2>1. LiveServers' = LiveServers /\ IdleServers' = IdleServers
      BY <1>8, <1>1 DEF LiveServers, IdleServers, Threads
    <2>2. CountsMatch'
      BY <2>1, <1>8, SameServers DEF IInv, AddLocked
    <2>3. TypeOK'
      BY <1>3, <1>4, <1>8 DEF IInv, TypeOK
    <2>4. Stages'
      BY <1>8, <1>1, ConstantsAssumption
      DEF IInv, Stages, ServerPCs, CallerPCs, MainPCs, Threads
    <2>5. Locals'
      BY <1>8, <1>1, ConstantsAssumption DEF IInv, TypeOK, Locals, Threads, AddLocked, Running
    <2> QED  BY <2>2, <2>3, <2>4, <2>5 DEF IInv
  <1> QED  BY <1>5, <1>6, <1>7, <1>8 DEF AddLocked, WakeOrCreate

\* A step of a thread that is no counted server, between two places where it
\* is not counted, that touches neither the queue nor the counters.
LEMMA OutsideIInv ==
  ASSUME IInv, NEW t \in Threads, NEW to \in PCs,
         pc[t] \notin LivePC \/ t \in Callers, to \notin LivePC \/ t \in Callers,
         pc' = [pc EXCEPT ![t] = to], UNCHANGED <<counter, idle>>
  PROVE  CountsMatch' /\ pc' \in [Threads -> PCs]
  <1>1. LiveServers' = LiveServers /\ IdleServers' = IdleServers
    BY ConstantsAssumption
    DEF IInv, TypeOK, LiveServers, IdleServers, LivePC, Threads
  <1>2. CountsMatch'
    BY <1>1, SameServers DEF IInv
  <1> QED  BY <1>2 DEF IInv, TypeOK

\* The steps of the callers preserve the invariant.
LEMMA CallerIInv ==
  ASSUME IInv, NEW c \in Callers, CallerStep(c)
  PROVE  IInv'
  <1>0. c \in Threads /\ c \notin Servers
    BY ConstantsAssumption DEF Threads
  <1>1. CASE AddCheck(c)
    <2>1. CASE \E to \in {"returned", "enqueue"} : pc' = [pc EXCEPT ![c] = to]
      <3>1. PICK to \in {"returned", "enqueue"} : pc' = [pc EXCEPT ![c] = to]
        BY <2>1
      <3>2. CountsMatch' /\ pc' \in [Threads -> PCs]
        BY <1>0, <1>1, <3>1, OutsideIInv DEF AddCheck, workq, PCs
      <3>3. TypeOK'
        BY <1>1, <3>2 DEF AddCheck, IInv, TypeOK, workq, engines, summary
      <3>4. Stages'
        BY <1>0, <1>1, <3>1, ConstantsAssumption
        DEF AddCheck, IInv, TypeOK, Stages, ServerPCs, CallerPCs, MainPCs, Threads
      <3>5. Locals'
        <4>1. to = "enqueue" => count[c] < ITERATIONS
          <5>1. to = "enqueue" => count[c] # ITERATIONS
            BY <1>0, <1>1, <3>1 DEF AddCheck, IInv, TypeOK
          <5>2. count[c] \in 0..ITERATIONS /\ ITERATIONS \in Nat
            BY ConstantsAssumption DEF IInv, TypeOK
          <5> QED  BY <5>1, <5>2
        <4> QED  BY <4>1, <1>0, <1>1, <3>1, ConstantsAssumption
                 DEF AddCheck, IInv, TypeOK, Locals, Running, Threads
      <3> QED  BY <3>2, <3>3, <3>4, <3>5 DEF IInv
    <2>2. CASE process' = "abort" /\ UNCHANGED pc
      BY <1>1, <2>2 DEF AddCheck, IInv, TypeOK, Stages, Locals, Running, CountsMatch,
                        LiveServers, IdleServers, workq, engines, summary
    <2> QED  BY <1>1, <2>1, <2>2 DEF AddCheck
  <1>2. CASE AddLocked(c)
    BY <1>2, AddIInv
  <1>3. CASE AddThroughNull(c)
    BY <1>3 DEF AddThroughNull, IInv, TypeOK, Stages, Locals, Running, CountsMatch,
                LiveServers, IdleServers, workq, engines, summary
  <1> QED  BY <1>1, <1>2, <1>3 DEF CallerStep

\* The steps of the servers preserve the invariant.
LEMMA ServerIInv ==
  ASSUME IInv, NEW s \in Servers, ServerStep(s)
  PROVE  IInv'
  <1>0. /\ s \in Threads /\ s \notin Callers
        /\ idle = Cardinality(IdleServers) /\ idle \in Nat
    BY ConstantsAssumption DEF Threads, IInv, CountsMatch, TypeOK
  <1>1. ASSUME pc[s] \in IdlePC
        PROVE  idle - 1 = Cardinality(IdleServers \ {s})
    BY <1>0, <1>1, CardMinus, FiniteServers DEF IdleServers
  <1>2. ASSUME pc[s] \notin IdlePC
        PROVE  idle = Cardinality(IdleServers \ {s})
    <2>1. IdleServers \ {s} = IdleServers
      BY <1>2 DEF IdleServers
    <2> QED  BY <2>1, <1>0
  <1>3. CASE ServerStart(s)
    <2>1. idle = Cardinality(IdleServers \ {s})
      BY <1>2, <1>3 DEF ServerStart, IdlePC
    <2> QED  BY <1>3, <2>1, LoopIInv DEF ServerStart, LivePC
  <1>4. CASE ServerWake(s)
    <2>1. idle - 1 = Cardinality(IdleServers \ {s})
      BY <1>1, <1>4 DEF ServerWake, IdlePC
    <2> QED  BY <1>4, <2>1, LoopIInv DEF ServerWake, LivePC, IdlePC
  <1>5. CASE ServerTimedOut(s)
    <2>1. idle - 1 = Cardinality(IdleServers \ {s})
      BY <1>1, <1>5 DEF ServerTimedOut, IdlePC
    <2> QED  BY <1>5, <2>1, LoopIInv DEF ServerTimedOut, LivePC, IdlePC
  <1>6. CASE ServerRelock(s)
    <2>1. idle = Cardinality(IdleServers \ {s})
      BY <1>2, <1>6 DEF ServerRelock, IdlePC
    <2>2. timedout[s] \in BOOLEAN /\ pc[s] \in LivePC /\ ServerUnchanged
      BY <1>6 DEF IInv, TypeOK, ServerRelock, LivePC
    <2>3. CASE ServerQuit(s, idle, timedout[s])
      <3>1. ServerLoop(s, idle, timedout[s])
        BY <2>3 DEF ServerLoop
      <3> QED  BY <2>1, <2>2, <3>1, LoopIInv
    <2>4. CASE ServerLoop(s, idle, FALSE)
      BY <2>1, <2>2, <2>4, LoopIInv
    <2> QED  BY <1>6, <2>3, <2>4 DEF ServerRelock
  <1>7. CASE Engine(s)
    <2>1. pc' = [pc EXCEPT ![s] = "relock"] /\ pc[s] = "engine"
      BY <1>7 DEF Engine
    <2>2. LiveServers' = LiveServers /\ IdleServers' = IdleServers
      BY <2>1, <1>0 DEF IInv, TypeOK, LiveServers, IdleServers, LivePC, IdlePC, Threads
    <2>3. CountsMatch'
      BY <1>7, <2>2, SameServers DEF IInv, Engine, workq
    <2>4. we[s] \in Items
      BY <2>1 DEF IInv, TypeOK, Locals
    <2>5. done' \in Seq(Items)
      BY <1>7, <2>4 DEF Engine, IInv, TypeOK
    <2>6. tsd' \in [Servers -> Nat]
      BY <1>7 DEF Engine, IInv, TypeOK
    <2>7. TypeOK'
      BY <1>7, <2>1, <2>5, <2>6, <1>0 DEF Engine, IInv, TypeOK, PCs, workq, summary
    <2>8. Stages' /\ Locals'
      BY <1>7, <2>1, <1>0, ConstantsAssumption
      DEF Engine, IInv, TypeOK, Stages, Locals, Running, ServerPCs, Threads
    <2> QED  BY <2>3, <2>7, <2>8 DEF IInv
  <1>8. CASE Destructor(s)
    <2>1. pc' = [pc EXCEPT ![s] = "unborn"] /\ pc[s] = "exiting"
      BY <1>8 DEF Destructor
    <2>2. CountsMatch' /\ pc' \in [Threads -> PCs]
      BY <1>0, <1>8, <2>1, OutsideIInv DEF Destructor, workq, PCs, LivePC, IdlePC
    <2>3. tsd[s] \in Nat /\ tsd' \in [Servers -> Nat]
      BY <1>8 DEF Destructor, IInv, TypeOK
    <2>4. engine_list' \in Seq(Nat)
      BY <1>8, <2>3 DEF Destructor, IInv, TypeOK
    <2>5. TypeOK'
      BY <1>8, <2>2, <2>3, <2>4 DEF Destructor, IInv, TypeOK, workq, summary
    <2>6. Stages' /\ Locals'
      BY <1>8, <2>1, <1>0, ConstantsAssumption
      DEF Destructor, IInv, TypeOK, Stages, Locals, Running, ServerPCs, Threads
    <2> QED  BY <2>2, <2>5, <2>6 DEF IInv
  <1> QED  BY <1>3, <1>4, <1>5, <1>6, <1>7, <1>8 DEF ServerStep

\* A server whose wait fails takes itself out of both counts.
LEMMA WaitFailedIInv ==
  ASSUME IInv, NEW s \in Servers, ServerWaitFailed(s)
  PROVE  IInv'
  <1>1. /\ s \in Threads /\ s \notin Callers /\ pc[s] = "waiting"
        /\ pc \in [Threads -> PCs] /\ pc' = [pc EXCEPT ![s] = "exiting"]
        /\ s \in LiveServers /\ s \in IdleServers
    BY ConstantsAssumption
    DEF ServerWaitFailed, IInv, TypeOK, Threads, LiveServers, IdleServers, LivePC, IdlePC
  <1>2. LiveServers' = LiveServers \ {s} /\ IdleServers' = IdleServers \ {s}
    BY <1>1 DEF LiveServers, IdleServers, LivePC, IdlePC, Threads
  <1>3. /\ Cardinality(LiveServers \ {s}) = Cardinality(LiveServers) - 1
        /\ Cardinality(IdleServers \ {s}) = Cardinality(IdleServers) - 1
        /\ Cardinality(LiveServers \ {s}) \in Nat /\ Cardinality(IdleServers \ {s}) \in Nat
    BY <1>1, CardMinus, FiniteServers
  <1>4. CountsMatch' /\ counter' \in Nat /\ idle' \in Nat
    <2>1. /\ counter' = counter - 1 /\ idle' = idle - 1
          /\ counter = Cardinality(LiveServers) /\ idle = Cardinality(IdleServers)
          /\ counter <= parallelism /\ parallelism \in Nat
      BY ConstantsAssumption DEF ServerWaitFailed, IInv, CountsMatch
    <2> QED  BY <1>2, <1>3, <2>1, FiniteServers DEF CountsMatch
  <1>5. failures' \in Nat
    BY DEF ServerWaitFailed, IInv, TypeOK
  <1>6. TypeOK'
    BY <1>1, <1>4, <1>5 DEF ServerWaitFailed, IInv, TypeOK, PCs, engines, summary
  <1>7. Stages' /\ Locals'
    BY <1>1, ConstantsAssumption
    DEF ServerWaitFailed, IInv, Stages, Locals, Running, ServerPCs, Threads
  <1> QED  BY <1>4, <1>6, <1>7 DEF IInv

\* The steps of main after its requests preserve the invariant.
LEMMA MainIInv ==
  ASSUME IInv, MainStep
  PROVE  IInv'
  <1>0. /\ Main \in Threads /\ Main \in Callers /\ Main \notin Servers
        /\ pc \in [Threads -> PCs]
    BY ConstantsAssumption DEF Threads, IInv, TypeOK
  <1>1. ASSUME NEW to \in {"destroy", "waiting", "destroyed", "walking"},
               pc' = [pc EXCEPT ![Main] = to],
               \A c \in Callers \ {Main} : pc[c] = "returned",
               valid' \in BOOLEAN, walk' \in Seq(Nat),
               UNCHANGED <<quit, counter, idle, queue, last, we, timedout, engines, count,
                           done, calls, failures, process>>
        PROVE  IInv'
    <2>1. CountsMatch' /\ pc' \in [Threads -> PCs]
      BY <1>0, <1>1, OutsideIInv DEF PCs
    <2>2. TypeOK'
      BY <1>1, <2>1 DEF IInv, TypeOK, engines
    <2>3. Stages' /\ Locals'
      BY <1>1, <1>0 DEF IInv, Stages, Locals, Running, MainPCs, CallerPCs, Threads
    <2> QED  BY <2>1, <2>2, <2>3 DEF IInv
  <1>2. ASSUME pc[Main] \in {"destroy", "woken", "destroyed"}
        PROVE  \A c \in Callers \ {Main} : pc[c] = "returned"
    BY <1>2 DEF IInv, Stages, CallerPCs
  <1>3. CASE Join
    BY <1>1, <1>3 DEF Join, IInv, TypeOK, workq, summary
  <1>4. CASE DestroyBegin
    <2>1. CASE counter > 0
      <3>1. /\ pc' = [pc EXCEPT ![Main] = "waiting"]
               \/ pc' = [Broadcast(pc) EXCEPT ![Main] = "waiting"]
            /\ UNCHANGED <<counter, idle>> /\ quit' = TRUE /\ valid' = FALSE
        BY <1>4, <2>1 DEF DestroyBegin
      <3>2. /\ pc' \in [Threads -> PCs] /\ pc'[Main] = "waiting"
            /\ \A t \in Threads \ {Main} :
                 pc'[t] = pc[t] \/ (pc[t] = "waiting" /\ pc'[t] = "woken")
        BY <3>1, <1>0 DEF Broadcast, PCs
      <3>3. LiveServers' = LiveServers /\ IdleServers' = IdleServers
        BY <3>2, <1>0 DEF LiveServers, IdleServers, LivePC, IdlePC, Threads
      <3>4. CountsMatch'
        BY <3>1, <3>3, SameServers DEF IInv
      <3>5. TypeOK'
        BY <1>4, <3>1, <3>2 DEF DestroyBegin, IInv, TypeOK, engines, summary
      <3>6. Stages' /\ Locals'
        BY <1>4, <1>2, <3>2, <1>0, ConstantsAssumption
        DEF DestroyBegin, IInv, Stages, Locals, Running, ServerPCs, CallerPCs, MainPCs, Threads
      <3> QED  BY <3>4, <3>5, <3>6 DEF IInv
    <2>2. CASE ~(counter > 0)
      BY <1>1, <1>2, <1>4, <2>2 DEF DestroyBegin, IInv, TypeOK, summary
    <2> QED  BY <2>1, <2>2
  <1>5. CASE DestroyWake
    <2>1. PICK to \in {"waiting", "destroyed"} : pc' = [pc EXCEPT ![Main] = to]
      BY <1>5 DEF DestroyWake
    <2> QED  BY <1>1, <1>2, <1>5, <2>1 DEF DestroyWake, IInv, TypeOK, workq, summary
  <1>6. CASE WalkBegin
    BY <1>1, <1>2, <1>6 DEF WalkBegin, IInv, TypeOK, workq, engines
  <1>7. CASE WalkNext
    <2>1. Head(walk) \in Nat /\ walk' \in Seq(Nat) /\ calls' \in Nat
      BY <1>7 DEF WalkNext, IInv, TypeOK
    <2>2. TypeOK'
      BY <1>7, <2>1 DEF WalkNext, IInv, TypeOK, workq, engines
    <2> QED  BY <1>7, <2>2 DEF WalkNext, IInv, Stages, Locals, Running, CountsMatch,
                               LiveServers, IdleServers, workq
  <1>8. CASE Exit
    BY <1>8 DEF Exit, IInv, TypeOK, Stages, Locals, Running, CountsMatch,
                LiveServers, IdleServers, workq, engines, summary
  <1> QED  BY <1>3, <1>4, <1>5, <1>6, <1>7, <1>8 DEF MainStep

\* Every step preserves the invariant.
LEMMA NextIInv == IInv /\ [Next]_vars => IInv'
  <1> SUFFICES ASSUME IInv, [Next]_vars PROVE IInv'
    OBVIOUS
  <1>1. ASSUME NEW c \in Callers, CallerStep(c) PROVE IInv'
    BY <1>1, CallerIInv
  <1>2. ASSUME NEW s \in Servers, ServerStep(s) PROVE IInv'
    BY <1>2, ServerIInv
  <1>3. ASSUME NEW s \in Servers, Timeout(s) PROVE IInv'
    BY <1>3, WakeIInv DEF Timeout, Threads
  <1>4. ASSUME NEW s \in Servers, ServerWaitFailed(s) PROVE IInv'
    BY <1>4, WaitFailedIInv
  <1>5. ASSUME NEW t \in Threads, SpuriousWakeup(t) PROVE IInv'
    BY <1>5, WakeIInv DEF SpuriousWakeup
  <1>6. CASE MainStep
    BY <1>6, MainIInv
  <1>7. CASE UNCHANGED vars
    BY <1>7 DEF vars, IInv, TypeOK, Stages, Locals, Running, CountsMatch,
                LiveServers, IdleServers, workq, engines, summary
  <1>8. CASE DestroyWaitFailed
    BY <1>8 DEF DestroyWaitFailed, IInv, TypeOK, Stages, Locals, Running, CountsMatch,
                LiveServers, IdleServers, workq, engines, summary
  <1> QED  BY <1>1, <1>2, <1>3, <1>4, <1>5, <1>6, <1>7, <1>8 DEF Next

\* The inductive invariant holds throughout every behaviour.
THEOREM Invariance == Spec => []IInv
  BY InitIInv, NextIInv, PTL DEF Spec

\* Every field of workq_t keeps its type, wq->counter and wq->idle, decremented
\* without a test, never go below zero, and the hand-kept counts of workq_server
\* and workq_add are exact within the limit on servers, whatever waits fail or
\* time out.
THEOREM QueueInvariant == Spec => []QueueInv
  <1>1. IInv => QueueInv
    BY DEF IInv, QueueInv
  <1> QED  BY <1>1, Invariance, PTL

-----------------------------------------------------------------------------
(* No lost wakeup.                                                         *)

\* A server that is on its way to the queue.
Awake == {s \in Servers : pc[s] \in LivePC \ {"waiting"}}

\* An awake server stays awake when the others only wake up.
LEMMA AwakeStays ==
  ASSUME NEW s \in Awake, pc'[s] = pc[s] \/ pc'[s] \in {"woken", "timedout", "relock"}
  PROVE  s \in Awake'
  BY DEF Awake, LivePC, IdlePC

\* Whatever workq_add finds, it leaves some server awake: one it signals, one
\* already on its way back from the wait, one it creates, or one at work.
LEMMA AddLeavesAwake ==
  ASSUME IInv, NEW c \in Callers, AddLocked(c), Running'
  PROVE  Awake' # {}
  <1> DEFINE p == [pc EXCEPT ![c] = "check"]
  <1>1. /\ c \in Threads /\ c \notin Servers /\ pc[c] = "enqueue"
        /\ pc \in [Threads -> PCs] /\ process = "running"
    BY ConstantsAssumption DEF AddLocked, Running, Threads, IInv, TypeOK
  <1>2. CASE idle > 0 /\ pc' \in Signal(p)
    <2>1. CASE Waiters(p) = {}
      <3>1. IdleServers # {}
        <4>1. idle = Cardinality(IdleServers) /\ Cardinality({}) = 0
          BY FS_EmptySet DEF IInv, CountsMatch
        <4> QED  BY <4>1, <1>2
      <3>2. PICK s \in IdleServers : TRUE
        BY <3>1
      <3>3. pc'[s] = pc[s] /\ pc[s] # "waiting" /\ s \in Servers
        BY <3>2, <2>1, <1>1, <1>2 DEF Signal, Waiters, IdleServers, Threads
      <3> QED  BY <3>2, <3>3 DEF Awake, IdleServers, LivePC
    <2>2. CASE Waiters(p) # {}
      <3>1. PICK w \in Waiters(p) : pc' = [p EXCEPT ![w] = "woken"]
        BY <2>2, <1>2 DEF Signal
      <3>2. w \in Threads /\ w # c /\ pc[w] = "waiting"
        BY <3>1, <1>1 DEF Waiters
      <3>3. w \notin Callers
        <4>1. CASE w = Main
          BY <4>1, <3>2, <1>1 DEF IInv, Stages, CallerPCs
        <4>2. CASE w \in Callers \ {Main}
          BY <4>2, <3>2 DEF IInv, Stages, CallerPCs
        <4> QED  BY <4>1, <4>2
      <3>4. w \in Servers /\ pc'[w] = "woken"
        BY <3>1, <3>2, <3>3, <1>1 DEF Threads
      <3> QED  BY <3>4 DEF Awake, LivePC, IdlePC
    <2> QED  BY <2>1, <2>2
  <1>3. ASSUME NEW s \in Servers, pc' = [p EXCEPT ![s] = "starting"]
        PROVE  Awake' # {}
    <2>1. pc'[s] = "starting"
      BY <1>3, <1>1 DEF Threads
    <2> QED  BY <2>1 DEF Awake, LivePC, IdlePC
  <1>4. CASE idle = 0 /\ counter >= parallelism /\ pc' = p
    <2>1. /\ counter = Cardinality(LiveServers) /\ idle = Cardinality(IdleServers)
          /\ parallelism \in Nat \ {0} /\ counter \in Nat
      BY ConstantsAssumption DEF IInv, CountsMatch, TypeOK
    <2>2. LiveServers # {}
      BY <2>1, <1>4, FS_EmptySet
    <2>3. IdleServers = {}
      BY <2>1, <1>4, FS_EmptySet, FiniteServers
    <2>4. PICK s \in LiveServers : TRUE
      BY <2>2
    <2>5. s \in Servers /\ pc'[s] = pc[s] /\ pc[s] \in LivePC /\ pc[s] \notin IdlePC
      BY <2>3, <2>4, <1>1, <1>4 DEF LiveServers, IdleServers, Threads
    <2> QED  BY <2>5 DEF Awake, IdlePC
  <1>5. process' # "abort"
    BY DEF Running
  <1> QED  BY <1>2, <1>3, <1>4, <1>5 DEF AddLocked, WakeOrCreate

\* A round of the server's loop leaves no work behind a sleeping server.
LEMMA LoopLeavesAwake ==
  ASSUME IInv, NEW s \in Servers, NEW i, NEW late, ServerLoop(s, i, late), queue' # <<>>
  PROVE  Awake' # {}
  <1>1. ServerTake(s, i, late)
    BY DEF ServerLoop, ServerWait, ServerQuit
  <1>2. pc'[s] = "engine"
    BY <1>1 DEF ServerTake, IInv, TypeOK, Threads
  <1> QED  BY <1>2 DEF Awake, LivePC

\* Every step keeps an awake server while there is work, until a wait fails.
LEMMA NextStranded ==
  ASSUME IInv, NoStrandedWork, [Next]_vars
  PROVE  NoStrandedWork'
  <1> SUFFICES ASSUME Running', failures' = 0, queue' # <<>> PROVE Awake' # {}
    BY DEF NoStrandedWork, Awake
  <1>0. /\ Servers \subseteq Threads /\ Servers \cap Callers = {} /\ Main \in Callers
        /\ pc \in [Threads -> PCs]
    BY ConstantsAssumption DEF Threads, IInv, TypeOK
  <1>1. ASSUME queue' = queue, Running, failures' = failures,
               \A s \in Awake : pc'[s] = pc[s] \/ pc'[s] \in {"woken", "timedout", "relock"}
        PROVE  Awake' # {}
    <2>1. PICK s \in Awake : TRUE
      BY <1>1 DEF NoStrandedWork, Awake
    <2> QED  BY <2>1, <1>1, AwakeStays
  <1>2. ASSUME NEW c \in Callers, CallerStep(c) PROVE Awake' # {}
    <2>1. CASE AddCheck(c)
      BY <2>1, <1>0, <1>1 DEF AddCheck, workq, Awake
    <2>2. CASE AddLocked(c)
      BY <2>2, AddLeavesAwake
    <2>3. CASE AddThroughNull(c)
      BY <2>3, <1>1 DEF AddThroughNull, workq
    <2> QED  BY <1>2, <2>1, <2>2, <2>3 DEF CallerStep
  <1>3. ASSUME NEW s \in Servers, ServerStep(s) PROVE Awake' # {}
    <2>1. CASE Engine(s)
      BY <2>1, <1>0, <1>1 DEF Engine, workq, Awake
    <2>2. CASE Destructor(s)
      BY <2>2, <1>0, <1>1 DEF Destructor, workq, Awake, LivePC, IdlePC
    <2>3. CASE \E i, late : ServerLoop(s, i, late)
      BY <2>3, LoopLeavesAwake
    <2>4. ServerStart(s) \/ ServerWake(s) \/ ServerTimedOut(s) \/ ServerRelock(s)
            => \E i, late : ServerLoop(s, i, late)
      BY DEF ServerStart, ServerWake, ServerTimedOut, ServerRelock, ServerLoop
    <2> QED  BY <1>3, <2>1, <2>2, <2>3, <2>4 DEF ServerStep
  <1>4. ASSUME NEW s \in Servers, Timeout(s) PROVE Awake' # {}
    BY <1>4, <1>0, <1>1 DEF Timeout, workq, Awake
  <1>5. ASSUME NEW s \in Servers PROVE ~ServerWaitFailed(s)  \* it would count a failure
    BY DEF ServerWaitFailed, IInv, TypeOK
  <1>9. ~ DestroyWaitFailed
    BY DEF DestroyWaitFailed, IInv, TypeOK
  <1>6. ASSUME NEW t \in Threads, SpuriousWakeup(t) PROVE Awake' # {}
    BY <1>6, <1>0, <1>1 DEF SpuriousWakeup, workq, Awake
  <1>7. CASE MainStep
    <2>1. \A s \in Servers : pc'[s] = pc[s] \/ pc'[s] = "woken"
      BY <1>7, <1>0 DEF MainStep, Join, DestroyBegin, DestroyWake, WalkBegin, WalkNext, Exit,
                        Broadcast
    <2>2. queue' = queue /\ Running /\ failures' = failures
      BY <1>7 DEF MainStep, Join, DestroyBegin, DestroyWake, WalkBegin, WalkNext, Exit, workq
    <2> QED  BY <1>1, <2>1, <2>2 DEF Awake
  <1>8. CASE UNCHANGED vars
    BY <1>8, <1>1 DEF vars, workq, Running
  <1> QED  BY <1>2, <1>3, <1>4, <1>5, <1>6, <1>7, <1>8, <1>9 DEF Next

\* No lost wakeup, for any number of servers and callers: as long as
\* pthread_cond_timedwait only times out or wakes, work on the queue always has
\* a server coming for it, although workq_add signals without looking at who is
\* waiting and servers leave when their wait times out.
THEOREM NoLostWakeup == Spec => []NoStrandedWork
  <1>1. Init => NoStrandedWork
    BY DEF Init, NoStrandedWork
  <1>2. IInv /\ NoStrandedWork /\ [Next]_vars => NoStrandedWork'
    BY NextStranded
  <1> QED  BY <1>1, <1>2, Invariance, PTL DEF Spec

-----------------------------------------------------------------------------
(* workq_destroy.                                                          *)

\* A round of the server's loop is entered by a live server.
LEMMA ServerStepLive ==
  ASSUME IInv, NEW s \in Servers, ServerStep(s), LiveServers = {}
  PROVE  pc' = [pc EXCEPT ![s] = "unborn"]
  BY DEF ServerStep, ServerStart, ServerWake, ServerTimedOut, Engine, ServerRelock,
         Destructor, LiveServers, LivePC, IdlePC

\* Once workq_destroy has returned nobody starts a server, and it returns
\* only when none is left.
LEMMA NextQuiescent ==
  ASSUME IInv, DestroyedQuiescent, [Next]_vars
  PROVE  DestroyedQuiescent'
  <1> SUFFICES ASSUME Destroyed' PROVE LiveServers' = {}
    BY DEF DestroyedQuiescent
  <1>0. /\ Servers \subseteq Threads /\ Servers \cap Callers = {} /\ Main \in Callers
        /\ Main \in Threads /\ Main \notin Servers /\ pc \in [Threads -> PCs]
        /\ counter = Cardinality(LiveServers) /\ counter \in Nat
    BY ConstantsAssumption DEF Threads, IInv, TypeOK, CountsMatch
  <1>1. CASE MainStep
    <2>1. CASE Destroyed
      <3>1. \A s \in Servers : pc'[s] = pc[s]
        BY <1>0, <1>1, <2>1 DEF MainStep, Join, DestroyBegin, DestroyWake, WalkBegin, WalkNext,
                                Exit, Destroyed
      <3> QED  BY <3>1, <2>1 DEF DestroyedQuiescent, LiveServers
    <2>2. CASE ~Destroyed
      <3>0. DestroyBegin \/ DestroyWake
        BY <1>0, <1>1, <2>2 DEF MainStep, Join, WalkBegin, WalkNext, Exit, Destroyed
      <3>1. ~(counter > 0) /\ pc' = [pc EXCEPT ![Main] = "destroyed"]
        <4>1. CASE counter > 0
          <5>1. pc'[Main] = "waiting"
            BY <1>0, <3>0, <4>1 DEF DestroyBegin, DestroyWake, Broadcast
          <5> QED  BY <5>1 DEF Destroyed
        <4> QED  BY <3>0, <4>1 DEF DestroyBegin, DestroyWake
      <3>2. LiveServers = {}
        BY <3>1, <1>0, FiniteServers, FS_EmptySet
      <3> QED  BY <3>1, <3>2, <1>0 DEF LiveServers
    <2> QED  BY <2>1, <2>2
  <1>2. ASSUME NEW c \in Callers, CallerStep(c) PROVE LiveServers' = {}
    <2>1. CASE Destroyed
      <3>1. pc[c] # "check" /\ pc[c] # "enqueue"
        BY <2>1 DEF Destroyed, IInv, Stages, CallerPCs
      <3> QED  BY <1>2, <3>1 DEF CallerStep, AddCheck, AddLocked, AddThroughNull
    <2>2. CASE ~Destroyed
      <3>1. pc'[Main] = pc[Main] \/ pc'[Main] \in {"returned", "enqueue", "check", "woken"}
        <4>1. CASE AddCheck(c)
          BY <4>1, <1>0 DEF AddCheck
        <4>2. CASE AddLocked(c)
          BY <4>2, <1>0 DEF AddLocked, WakeOrCreate, Signal, Waiters
        <4>3. CASE AddThroughNull(c)
          BY <4>3 DEF AddThroughNull
        <4> QED  BY <1>2, <4>1, <4>2, <4>3 DEF CallerStep
      <3> QED  BY <3>1, <2>2 DEF Destroyed
    <2> QED  BY <2>1, <2>2
  <1>3. ASSUME NEW s \in Servers, ServerStep(s) PROVE LiveServers' = {}
    <2>1. Destroyed
      <3>1. pc'[Main] = pc[Main] \/ pc'[Main] = "woken"
        <4>1. ASSUME NEW i, NEW late, ServerLoop(s, i, late) \/ ServerQuit(s, i, late)
              PROVE  pc'[Main] = pc[Main] \/ pc'[Main] = "woken"
          BY <4>1, <1>0 DEF ServerLoop, ServerWait, ServerTake, ServerQuit, Broadcast
        <4>2. CASE Engine(s) \/ Destructor(s)
          BY <4>2, <1>0 DEF Engine, Destructor
        <4> QED  BY <1>3, <4>1, <4>2 DEF ServerStep, ServerStart, ServerWake, ServerTimedOut,
                                         ServerRelock
      <3> QED  BY <3>1 DEF Destroyed
    <2>2. LiveServers = {}
      BY <2>1 DEF DestroyedQuiescent
    <2>3. pc' = [pc EXCEPT ![s] = "unborn"]
      BY <1>3, <2>2, ServerStepLive
    <2> QED  BY <2>2, <2>3, <1>0 DEF LiveServers, LivePC, IdlePC
  <1>4. ASSUME NEW t \in Threads, NEW to \in {"woken", "timedout", "exiting"},
               pc[t] = "waiting", pc' = [pc EXCEPT ![t] = to]
        PROVE  LiveServers' = {}
    <2>1. Destroyed
      BY <1>4, <1>0 DEF Destroyed
    <2>2. LiveServers = {}
      BY <2>1 DEF DestroyedQuiescent
    <2>3. t \notin Servers
      BY <2>2, <1>4 DEF LiveServers, LivePC, IdlePC
    <2> QED  BY <2>2, <2>3, <1>4, <1>0 DEF LiveServers
  <1>5. ASSUME NEW s \in Servers, Timeout(s) \/ ServerWaitFailed(s) PROVE LiveServers' = {}
    BY <1>5, <1>4, <1>0 DEF Timeout, ServerWaitFailed
  <1>6. ASSUME NEW t \in Threads, SpuriousWakeup(t) PROVE LiveServers' = {}
    BY <1>6, <1>4 DEF SpuriousWakeup
  <1>7. CASE UNCHANGED vars
    BY <1>7 DEF vars, DestroyedQuiescent, Destroyed, LiveServers
  <1>8. CASE DestroyWaitFailed
    BY <1>8 DEF DestroyWaitFailed, DestroyedQuiescent, Destroyed, LiveServers
  <1> QED  BY <1>1, <1>2, <1>3, <1>5, <1>6, <1>7, <1>8 DEF Next

\* workq_destroy destroys the mutex and the condition variable only when no
\* server can touch them again, even when waits fail.
THEOREM DestroySafe == Spec => []DestroyedQuiescent
  <1>1. Init => DestroyedQuiescent
    BY ConstantsAssumption DEF Init, DestroyedQuiescent, Destroyed, Threads
  <1>2. IInv /\ DestroyedQuiescent /\ [Next]_vars => DestroyedQuiescent'
    BY NextQuiescent
  <1> QED  BY <1>1, <1>2, Invariance, PTL DEF Spec

-----------------------------------------------------------------------------
(* Sums over finite sets, as FoldFunction builds them.                     *)

\* The element FoldFunction takes from a set.
One(s) == CHOOSE x \in s : TRUE

\* G gives the sum of f over every subset of D.
Sums(f, D, G) == G = [s \in SUBSET D |-> IF s = {} THEN 0 ELSE f[One(s)] + G[s \ {One(s)}]]

\* The sum of f over D.
SumOn(f, D) == (CHOOSE G : Sums(f, D, G))[D]

\* Folding with addition is this sum.
LEMMA FoldIsSum ==
  ASSUME NEW f
  PROVE  FoldFunction(LAMBDA x, y : x + y, 0, f) = SumOn(f, DOMAIN f)
  BY Zenon DEF FoldFunction, FoldFunctionOnSet, MapThenFoldSet, SumOn, Sums, One

\* A nonempty set of numbers has a least element.
LEMMA Least ==
  ASSUME NEW S \in SUBSET Nat, S # {}
  PROVE  \E n \in S : \A m \in S : n <= m
  <1>1. PICK n \in S : \A m \in S : <<m, n>> \notin OpToRel(<, Nat)
    BY NatLessThanWellFounded, WFMin, Zenon
  <1>2. \A m \in S : ~ (m < n)
    BY <1>1, Zenon DEF OpToRel
  <1> QED  BY <1>2

\* Taking an element out of a subset of a finite set leaves a smaller one.
LEMMA Smaller ==
  ASSUME NEW D, IsFiniteSet(D), NEW s \in SUBSET D
  PROVE  /\ IsFiniteSet(s) /\ Cardinality(s) \in Nat /\ Cardinality(s) <= Cardinality(D)
         /\ Cardinality(D) \in Nat
         /\ Cardinality(s) = 0 <=> s = {}
         /\ \A x \in s : /\ s \ {x} \in SUBSET D
                         /\ Cardinality(s \ {x}) = Cardinality(s) - 1
                         /\ Cardinality(s \ {x}) \in Nat
  <1>1. IsFiniteSet(s) /\ Cardinality(s) <= Cardinality(D)
    BY FS_Subset
  <1>2. Cardinality(s) \in Nat /\ Cardinality(D) \in Nat
    BY <1>1, FS_CardinalityType
  <1>3. Cardinality(s) = 0 <=> s = {}
    BY <1>1, FS_EmptySet
  <1>4. ASSUME NEW x \in s
        PROVE  Cardinality(s \ {x}) = Cardinality(s) - 1 /\ Cardinality(s \ {x}) \in Nat
    BY <1>1, FS_RemoveElement, FS_CardinalityType
  <1> QED  BY <1>1, <1>2, <1>3, <1>4

\* Induction over the subsets of a finite set by their size.
LEMMA BySize ==
  ASSUME NEW D, IsFiniteSet(D), NEW Good,
         \A s \in SUBSET D :
           (\A r \in SUBSET D : Cardinality(r) < Cardinality(s) => r \in Good) => s \in Good
  PROVE  \A s \in SUBSET D : s \in Good
  <1> DEFINE Wrong == {s \in SUBSET D : s \notin Good}
             Sizes == {Cardinality(s) : s \in Wrong}
  <1> SUFFICES ASSUME Wrong # {} PROVE FALSE
    OBVIOUS
  <1>1. Sizes \in SUBSET Nat /\ Sizes # {}
    BY Smaller
  <1>2. PICK n \in Sizes : \A m \in Sizes : n <= m
    <2> HIDE DEF Sizes
    <2> QED  BY <1>1, Least
  <1>3. PICK s \in Wrong : Cardinality(s) = n
    OBVIOUS
  <1>4. ASSUME NEW r \in SUBSET D, Cardinality(r) < Cardinality(s)
        PROVE  r \in Good
    <2>1. Cardinality(r) \in Nat /\ Cardinality(s) \in Nat
      BY Smaller
    <2>2. CASE r \in Wrong
      <3>1. Cardinality(s) <= Cardinality(r)
        BY <1>2, <1>3, <2>2
      <3> QED  BY <1>4, <2>1, <3>1
    <2> QED  BY <2>2
  <1> QED  BY <1>3, <1>4

\* The sums exist.
LEMMA SumsExist ==
  ASSUME NEW f, NEW D, IsFiniteSet(D)
  PROVE  \E G : Sums(f, D, G)
  <1> DEFINE Small(n) == {s \in SUBSET D : Cardinality(s) <= n}
             Next1(G, s) == IF s = {} THEN 0 ELSE f[One(s)] + G[s \ {One(s)}]
             Part(n, G) == G = [s \in Small(n) |-> Next1(G, s)]
             Wrong == {n \in Nat : ~ \E G : Part(n, G)}
  <1>0. \A s : s # {} => One(s) \in s
    BY Zenon DEF One
  <1>1. Wrong = {}
    <2> SUFFICES ASSUME Wrong # {} PROVE FALSE
      OBVIOUS
    <2>1. PICK n \in Wrong : \A m \in Wrong : n <= m
      <3>1. Wrong \in SUBSET Nat
        OBVIOUS
      <3> HIDE DEF Wrong
      <3> QED  BY <3>1, Least
    <2>2. n \in Nat /\ ~ \E G : Part(n, G)
      OBVIOUS
    <2>3. CASE n = 0
      <3> DEFINE G == [s \in Small(0) |-> 0]
      <3>1. \A s \in Small(0) : s = {}
        BY Smaller
      <3>2. \A s \in Small(0) : Next1(G, s) = 0
        BY <3>1
      <3> HIDE DEF Next1, Small
      <3>3. Part(0, G)
        BY <3>2
      <3> QED  BY <2>2, <2>3, <3>3
    <2>4. CASE n # 0
      <3>1. n - 1 \in Nat /\ n - 1 \notin Wrong
        <4>1. n - 1 \in Nat /\ ~ (n <= n - 1)
          BY <2>2, <2>4
        <4> HIDE DEF Wrong
        <4> QED  BY <2>1, <4>1
      <3>2. PICK G : Part(n - 1, G)
        BY <3>1
      <3> DEFINE H == [s \in Small(n) |-> Next1(G, s)]
      <3>3. ASSUME NEW s \in Small(n), s # {}
            PROVE  s \ {One(s)} \in Small(n - 1)
        <4> DEFINE x == One(s)
        <4>1. s \in SUBSET D /\ Cardinality(s) <= n /\ x \in s
          BY <1>0, <3>3
        <4> HIDE DEF x
        <4>2. s \ {x} \in SUBSET D /\ Cardinality(s \ {x}) = Cardinality(s) - 1 /\ Cardinality(s) \in Nat
          BY <4>1, Smaller
        <4>3. Cardinality(s \ {x}) <= n - 1
          BY <2>2, <4>1, <4>2
        <4> QED  BY <4>2, <4>3 DEF x
      <3>4. \A s \in Small(n - 1) : s \in Small(n)
        BY <2>2, Smaller
      <3>5. \A s \in Small(n - 1) : G[s] = Next1(G, s)
        <4> HIDE DEF Next1, Small
        <4> QED  BY <3>2
      <3>6. \A s \in Small(n) : H[s] = Next1(G, s)
        OBVIOUS
      <3> HIDE DEF H, Small
      <3>7. \A s \in Small(n - 1) : H[s] = G[s]
        <4> HIDE DEF Next1
        <4> QED  BY <3>4, <3>5, <3>6
      <3>8. \A s \in Small(n) : Next1(H, s) = Next1(G, s)
        BY <3>3, <3>7
      <3>9. Part(n, H)
        <4> HIDE DEF Next1
        <4>1. H = [s \in Small(n) |-> Next1(G, s)]
          BY DEF H
        <4> QED  BY <3>8, <4>1
      <3> QED  BY <2>2, <3>9
    <2> QED  BY <2>3, <2>4
  <1>2. Cardinality(D) \in Nat /\ Small(Cardinality(D)) = SUBSET D
    BY Smaller
  <1>3. PICK G : Part(Cardinality(D), G)
    BY <1>1, <1>2
  <1>4. G = [s \in SUBSET D |-> Next1(G, s)]
    <2> HIDE DEF Next1, Small
    <2> QED  BY <1>2, <1>3
  <1> QED  BY <1>4, Zenon DEF Sums

\* What the sums are, element by element.
AddsUp(f, D, G) ==
  /\ G[{}] = 0
  /\ \A s \in SUBSET D : s # {} => One(s) \in s /\ G[s] = f[One(s)] + G[s \ {One(s)}]

\* A sum over a set and one over the set without a member.
LEMMA SumsStep ==
  ASSUME NEW f, NEW D, NEW G, Sums(f, D, G)
  PROVE  AddsUp(f, D, G)
  <1>1. \A s \in SUBSET D : G[s] = IF s = {} THEN 0 ELSE f[One(s)] + G[s \ {One(s)}]
    BY Zenon DEF Sums
  <1>2. \A s : s # {} => One(s) \in s
    BY Zenon DEF One
  <1>3. {} \in SUBSET D
    OBVIOUS
  <1> QED  BY <1>1, <1>2, <1>3, Zenon DEF AddsUp

\* They are numbers.
LEMMA SumsInt ==
  ASSUME NEW f, NEW D, IsFiniteSet(D), NEW G, Sums(f, D, G), \A x \in D : f[x] \in Int
  PROVE  \A s \in SUBSET D : G[s] \in Int
  <1>0. G[{}] = 0 /\ \A s \in SUBSET D : s # {} => One(s) \in s /\ G[s] = f[One(s)] + G[s \ {One(s)}]
    <2>1. AddsUp(f, D, G)
      BY SumsStep, Zenon
    <2> QED  BY <2>1 DEF AddsUp
  <1> DEFINE Good == {s \in SUBSET D : G[s] \in Int}
  <1>1. ASSUME NEW s \in SUBSET D,
               \A r \in SUBSET D : Cardinality(r) < Cardinality(s) => r \in Good
        PROVE  s \in Good
    <2>1. CASE s = {}
      BY <1>0, <2>1
    <2>2. CASE s # {}
      <3> DEFINE x == One(s)
      <3>1. x \in s /\ G[s] = f[x] + G[s \ {x}]
        BY <1>0, <2>2
      <3> HIDE DEF x
      <3>2. s \ {x} \in SUBSET D /\ Cardinality(s \ {x}) = Cardinality(s) - 1 /\ Cardinality(s) \in Nat
        BY <3>1, Smaller
      <3>3. s \ {x} \in Good
        BY <1>1, <3>2
      <3> QED  BY <3>1, <3>3
    <2> QED  BY <2>1, <2>2
  <1>2. \A s \in SUBSET D : s \in Good
    <2> HIDE DEF Good
    <2> QED  BY <1>1, BySize
  <1> QED  BY <1>2

\* Any element may be taken out of the sum, not only the one taken first.
AnyOrder(f, D, G) == \A s \in SUBSET D : \A x \in s : G[s] = f[x] + G[s \ {x}]

\* The member taken off does not matter.
LEMMA SumsAny ==
  ASSUME NEW f, NEW D, IsFiniteSet(D), NEW G, Sums(f, D, G), \A x \in D : f[x] \in Int
  PROVE  AnyOrder(f, D, G)
  <1>0. G[{}] = 0 /\ \A s \in SUBSET D : s # {} => One(s) \in s /\ G[s] = f[One(s)] + G[s \ {One(s)}]
    <2>1. AddsUp(f, D, G)
      BY SumsStep, Zenon
    <2> QED  BY <2>1 DEF AddsUp
  <1> DEFINE Good == {s \in SUBSET D : \A x \in s : G[s] = f[x] + G[s \ {x}]}
  <1>1. ASSUME NEW s \in SUBSET D,
               \A r \in SUBSET D : Cardinality(r) < Cardinality(s) => r \in Good
        PROVE  s \in Good
    <2> SUFFICES ASSUME NEW x \in s PROVE G[s] = f[x] + G[s \ {x}]
      OBVIOUS
    <2> DEFINE y == One(s)
    <2>1. y \in s /\ G[s] = f[y] + G[s \ {y}]
      BY <1>0
    <2> HIDE DEF y
    <2>2. /\ s \ {y} \in SUBSET D /\ s \ {x} \in SUBSET D /\ Cardinality(s) \in Nat
          /\ Cardinality(s \ {y}) = Cardinality(s) - 1 /\ Cardinality(s \ {x}) = Cardinality(s) - 1
      BY <2>1, Smaller
    <2>3. s \ {y} \in Good /\ s \ {x} \in Good
      BY <1>1, <2>2
    <2>4. CASE x # y
      <3>1. x \in s \ {y} /\ y \in s \ {x}
        BY <2>1, <2>4
      <3>2. G[s \ {y}] = f[x] + G[(s \ {y}) \ {x}]
        BY <2>3, <3>1
      <3>3. G[s \ {x}] = f[y] + G[(s \ {x}) \ {y}]
        BY <2>3, <3>1
      <3>4. (s \ {y}) \ {x} = (s \ {x}) \ {y} /\ (s \ {x}) \ {y} \in SUBSET D
        OBVIOUS
      <3>5. f[x] \in Int /\ f[y] \in Int /\ G[(s \ {x}) \ {y}] \in Int
        BY <2>1, <3>4, SumsInt
      <3>6. G[s] = f[y] + (f[x] + G[(s \ {x}) \ {y}])
        BY <2>1, <3>2, <3>4, Zenon
      <3>7. f[y] + (f[x] + G[(s \ {x}) \ {y}]) = f[x] + (f[y] + G[(s \ {x}) \ {y}])
        BY ONLY <3>5
      <3>8. f[x] + G[s \ {x}] = f[x] + (f[y] + G[(s \ {x}) \ {y}])
        BY <3>3, Zenon
      <3> QED  BY <3>6, <3>7, <3>8, Zenon
    <2> QED  BY <2>1, <2>4
  <1>2. \A s \in SUBSET D : s \in Good
    <2> HIDE DEF Good
    <2> QED  BY <1>1, BySize
  <1> QED  BY <1>2 DEF AnyOrder

\* The sum over a set depends on the values there and on nothing else.
LEMMA SumsAgree ==
  ASSUME NEW f, NEW D, IsFiniteSet(D), NEW G, Sums(f, D, G), NEW h, NEW H, Sums(h, D, H),
         NEW A \in SUBSET D, \A x \in A : f[x] = h[x]
  PROVE  G[A] = H[A]
  <1>0. G[{}] = 0 /\ \A s \in SUBSET D : s # {} => One(s) \in s /\ G[s] = f[One(s)] + G[s \ {One(s)}]
    <2>1. AddsUp(f, D, G)
      BY SumsStep, Zenon
    <2> QED  BY <2>1 DEF AddsUp
  <1>00. H[{}] = 0 /\ \A s \in SUBSET D : s # {} => One(s) \in s /\ H[s] = h[One(s)] + H[s \ {One(s)}]
    <2>1. AddsUp(h, D, H)
      BY SumsStep, Zenon
    <2> QED  BY <2>1 DEF AddsUp
  <1> DEFINE Good == {s \in SUBSET D : s \subseteq A => G[s] = H[s]}
  <1>1. ASSUME NEW s \in SUBSET D,
               \A r \in SUBSET D : Cardinality(r) < Cardinality(s) => r \in Good
        PROVE  s \in Good
    <2> SUFFICES ASSUME s \subseteq A PROVE G[s] = H[s]
      OBVIOUS
    <2>1. CASE s = {}
      BY <1>0, <1>00, <2>1
    <2>2. CASE s # {}
      <3> DEFINE x == One(s)
      <3>1. x \in s /\ G[s] = f[x] + G[s \ {x}]
        BY <1>0, <1>00, <2>2
      <3>2. H[s] = h[x] + H[s \ {x}]
        BY <1>0, <1>00, <2>2
      <3> HIDE DEF x
      <3>3. s \ {x} \in SUBSET D /\ Cardinality(s \ {x}) = Cardinality(s) - 1 /\ Cardinality(s) \in Nat
        BY <3>1, Smaller
      <3>4. s \ {x} \in Good
        BY <1>1, <3>3
      <3> QED  BY <3>1, <3>2, <3>4
    <2> QED  BY <2>1, <2>2
  <1>2. \A s \in SUBSET D : s \in Good
    <2> HIDE DEF Good
    <2> QED  BY <1>1, BySize
  <1> QED  BY <1>2

\* The sum over D is a number.
LEMMA SumInt ==
  ASSUME NEW D, IsFiniteSet(D), NEW f \in [D -> Int]
  PROVE  SumOn(f, D) \in Int
  <1> DEFINE G == CHOOSE e : Sums(f, D, e)
  <1>1. Sums(f, D, G)
    BY SumsExist, Zenon
  <1>2. SumOn(f, D) = G[D]
    BY DEF SumOn
  <1> HIDE DEF G
  <1>3. D \in SUBSET D /\ \A x \in D : f[x] \in Int
    OBVIOUS
  <1>4. G[D] \in Int
    BY <1>1, <1>3, SumsInt, Zenon
  <1> QED  BY <1>2, <1>4

\* What a change of one value does to the sum.
Differ(f, h, D, x) ==
  /\ f \in [D -> Int] /\ h \in [D -> Int] /\ x \in D
  /\ \A y \in D \ {x} : f[y] = h[y]

\* The sum after one value changes.
LEMMA SumChange ==
  ASSUME NEW D, IsFiniteSet(D), NEW f, NEW h, NEW x, Differ(f, h, D, x)
  PROVE  SumOn(h, D) = SumOn(f, D) - f[x] + h[x]
  <1> USE DEF Differ
  <1> DEFINE G == CHOOSE e : Sums(f, D, e)
             H == CHOOSE e : Sums(h, D, e)
  <1>1. Sums(f, D, G) /\ Sums(h, D, H)
    BY SumsExist, Zenon
  <1>2. SumOn(f, D) = G[D] /\ SumOn(h, D) = H[D]
    BY DEF SumOn
  <1> HIDE DEF G, H
  <1>3. D \in SUBSET D /\ D \ {x} \in SUBSET D
    OBVIOUS
  <1>4. G[D \ {x}] = H[D \ {x}]
    BY <1>1, <1>3, SumsAgree
  <1>5. G[D] = f[x] + G[D \ {x}] /\ H[D] = h[x] + H[D \ {x}]
    <2>1. AnyOrder(f, D, G) /\ AnyOrder(h, D, H)
      BY <1>1, SumsAny, Zenon
    <2> QED  BY <1>3, <2>1 DEF AnyOrder
  <1>6. G[D \ {x}] \in Int
    BY <1>1, <1>3, SumsInt
  <1> QED  BY <1>2, <1>4, <1>5, <1>6

\* The sum of a function that is 0 everywhere.
LEMMA SumZero ==
  ASSUME NEW D, IsFiniteSet(D), NEW f \in [D -> Int], \A x \in D : f[x] = 0
  PROVE  SumOn(f, D) = 0
  <1> DEFINE G == CHOOSE e : Sums(f, D, e)
             Good == {s \in SUBSET D : G[s] = 0}
  <1>1. Sums(f, D, G)
    BY SumsExist, Zenon
  <1>2. SumOn(f, D) = G[D]
    BY DEF SumOn
  <1> HIDE DEF G
  <1>0. G[{}] = 0 /\ \A s \in SUBSET D : s # {} => One(s) \in s /\ G[s] = f[One(s)] + G[s \ {One(s)}]
    <2>1. AddsUp(f, D, G)
      BY <1>1, SumsStep, Zenon
    <2> QED  BY <2>1 DEF AddsUp
  <1>3. ASSUME NEW s \in SUBSET D,
               \A r \in SUBSET D : Cardinality(r) < Cardinality(s) => r \in Good
        PROVE  s \in Good
    <2>1. CASE s = {}
      BY <1>0, <2>1
    <2>2. CASE s # {}
      <3> DEFINE x == One(s)
      <3>1. x \in s /\ G[s] = f[x] + G[s \ {x}]
        BY <1>0, <2>2
      <3> HIDE DEF x
      <3>2. s \ {x} \in SUBSET D /\ Cardinality(s \ {x}) = Cardinality(s) - 1 /\ Cardinality(s) \in Nat
        BY <3>1, Smaller
      <3>3. s \ {x} \in Good
        BY <1>3, <3>2
      <3> QED  BY <3>1, <3>3
    <2> QED  BY <2>1, <2>2
  <1>4. D \in Good
    <2>1. \A s \in SUBSET D : s \in Good
      <3> HIDE DEF Good
      <3> QED  BY <1>3, BySize
    <2> QED  BY <2>1
  <1> QED  BY <1>2, <1>4

\* Summing a sequence.
LEMMA TotalIs ==
  ASSUME NEW q \in Seq(Nat)
  PROVE  Total(q) = SumOn(q, 1..Len(q))
  <1>1. DOMAIN q = 1..Len(q)
    OBVIOUS
  <1>2. Total(q) = SumOn(q, DOMAIN q)
    BY FoldIsSum, Zenon DEF Total, FoldSeq
  <1> QED  BY <1>1, <1>2

\* The engine_t that a destructor puts in front adds its calls to the total.
LEMMA TotalCons ==
  ASSUME NEW q \in Seq(Nat), NEW v \in Nat
  PROVE  Total(q) \in Int /\ Total(<<v>> \o q) = v + Total(q)
  <1> DEFINE p == <<v>> \o q
             n == Len(q)
             D == 1..n
             E == 1 .. n + 1
  <1>1. /\ n \in Nat /\ p \in Seq(Nat) /\ Len(p) = n + 1 /\ p[1] = v
        /\ (\A i \in D : p[i + 1] = q[i] /\ q[i] \in Int)
        /\ \A i \in E : p[i] \in Int
    <2>1. n \in Nat /\ p \in Seq(Nat) /\ Len(p) = n + 1
      OBVIOUS
    <2>2. p[1] = v /\ \A i \in D : p[i + 1] = q[i] /\ q[i] \in Int
      OBVIOUS
    <2>3. \A i \in 1..Len(p) : p[i] \in Nat
      <3> HIDE DEF p
      <3> QED  BY <2>1
    <2> QED  BY <2>1, <2>2, <2>3
  <1> DEFINE G == CHOOSE e : Sums(q, D, e)
             H == CHOOSE e : Sums(p, E, e)
  <1>2. Total(q) = G[D] /\ Total(p) = H[E]
    <2> HIDE DEF p
    <2>1. Total(q) = SumOn(q, 1..Len(q)) /\ Total(p) = SumOn(p, 1..Len(p))
      BY <1>1, TotalIs
    <2> QED  BY <1>1, <2>1 DEF SumOn
  <1>3. IsFiniteSet(D) /\ IsFiniteSet(E)
    BY <1>1, FS_Interval
  <1> HIDE DEF p, n, D, E
  <1>4. Sums(q, D, G) /\ Sums(p, E, H)
    BY <1>3, SumsExist, Zenon
  <1> HIDE DEF G, H
  <1>5. /\ \A s \in SUBSET D : G[s] \in Int
        /\ \A s \in SUBSET D : \A x \in s : G[s] = q[x] + G[s \ {x}]
    <2>1. \A x \in D : q[x] \in Int
      BY <1>1
    <2>2. \A s \in SUBSET D : G[s] \in Int
      BY <1>3, <1>4, <2>1, SumsInt, Zenon
    <2>3. AnyOrder(q, D, G)
      BY <1>3, <1>4, <2>1, SumsAny, Zenon
    <2> QED  BY <2>2, <2>3 DEF AnyOrder
  <1>6. /\ \A s \in SUBSET E : H[s] \in Int
        /\ \A s \in SUBSET E : \A x \in s : H[s] = p[x] + H[s \ {x}]
    <2>1. \A x \in E : p[x] \in Int
      BY <1>1
    <2>2. \A s \in SUBSET E : H[s] \in Int
      BY <1>3, <1>4, <2>1, SumsInt, Zenon
    <2>3. AnyOrder(p, E, H)
      BY <1>3, <1>4, <2>1, SumsAny, Zenon
    <2> QED  BY <2>2, <2>3 DEF AnyOrder
  <1>7. G[{}] = 0 /\ H[{}] = 0
    <2>1. AddsUp(q, D, G) /\ AddsUp(p, E, H)
      BY <1>4, SumsStep, Zenon
    <2> QED  BY <2>1 DEF AddsUp
  <1> DEFINE Wrong == {k \in 0..n : H[2 .. k + 1] # G[1..k]}
  <1>8. Wrong = {}
    <2> SUFFICES ASSUME Wrong # {} PROVE FALSE
      OBVIOUS
    <2>1. PICK k \in Wrong : \A m \in Wrong : k <= m
      <3>1. Wrong \in SUBSET Nat
        BY <1>1
      <3> HIDE DEF Wrong
      <3> QED  BY <3>1, Least
    <2>2. k \in 0..n /\ H[2 .. k + 1] # G[1..k]
      OBVIOUS
    <2>3. k # 0
      <3>1. 2 .. 0 + 1 = {} /\ 1..0 = {}
        OBVIOUS
      <3> QED  BY <1>7, <2>2, <3>1
    <2>4. k - 1 \in 0..n /\ ~ (k <= k - 1) /\ (k - 1) + 1 = k /\ k \in Nat
      BY <1>1, <2>2, <2>3
    <2>5. H[2 .. k] = G[1 .. k - 1]
      <3>1. k - 1 \notin Wrong
        <4> HIDE DEF Wrong
        <4> QED  BY <2>1, <2>4
      <3> QED  BY <2>4, <3>1
    <2>6. /\ 2 .. k + 1 \in SUBSET E /\ k + 1 \in 2 .. k + 1 /\ (2 .. k + 1) \ {k + 1} = 2 .. k
          /\ 1..k \in SUBSET D /\ k \in 1..k /\ (1..k) \ {k} = 1 .. k - 1 /\ k \in D
      <3>1. k \in Nat /\ n \in Nat /\ k <= n /\ k >= 1
        BY <1>1, <2>2, <2>3
      <3>2. k + 1 \in 2 .. k + 1 /\ k \in 1..k /\ k \in 1..n
        BY <3>1
      <3>3. \A i \in 2 .. k + 1 : i \in 1 .. n + 1
        BY <3>1
      <3>4. \A i \in 1..k : i \in 1..n
        BY <3>1
      <3>5. (2 .. k + 1) \ {k + 1} = 2 .. k
        BY <3>1
      <3>6. (1..k) \ {k} = 1 .. k - 1
        BY <3>1
      <3> QED  BY <3>2, <3>3, <3>4, <3>5, <3>6 DEF D, E
    <2>7. H[2 .. k + 1] = p[k + 1] + H[2 .. k]
      BY <1>6, <2>6
    <2>8. G[1..k] = q[k] + G[1 .. k - 1]
      BY <1>5, <2>6
    <2> QED  BY <1>1, <2>2, <2>5, <2>6, <2>7, <2>8
  <1>9. H[2 .. n + 1] = G[D]
    <2>1. n \in 0..n
      BY <1>1
    <2> QED  BY <1>8, <2>1 DEF D
  <1>10. E \in SUBSET E /\ 1 \in E /\ E \ {1} = 2 .. n + 1 /\ D \in SUBSET D
    BY <1>1 DEF E
  <1>11. H[E] = p[1] + H[2 .. n + 1]
    BY <1>6, <1>10
  <1> QED  BY <1>1, <1>2, <1>5, <1>9, <1>10, <1>11 DEF p

\* An empty list has no calls.
LEMMA TotalEmpty == Total(<<>>) = 0
  <1>1. <<>> \in Seq(Nat) /\ 1..Len(<<>>) = {}
    OBVIOUS
  <1>2. Total(<<>>) = SumOn(<<>>, {})
    BY <1>1, TotalIs
  <1>3. IsFiniteSet({})
    BY FS_EmptySet
  <1>4. Sums(<<>>, {}, CHOOSE e : Sums(<<>>, {}, e))
    BY <1>3, SumsExist, Zenon
  <1>5. AddsUp(<<>>, {}, CHOOSE e : Sums(<<>>, {}, e))
    BY <1>4, SumsStep, Zenon
  <1> QED  BY <1>2, <1>5 DEF AddsUp, SumOn

-----------------------------------------------------------------------------
(* Where the requests are.                                                 *)

\* Steps that move no request: not the engine, and no server leaves it.
NothingMoves ==
  /\ UNCHANGED <<queue, we, done, tsd, engine_list, count>>
  /\ \A s \in Servers : pc[s] = "engine" => pc'[s] = "engine"

\* A server not in the engine takes the first request.
Takes(s) ==
  /\ pc[s] # "engine" /\ queue # <<>> /\ queue' = Tail(queue)
  /\ we' = [we EXCEPT ![s] = Head(queue)]
  /\ pc' = [pc EXCEPT ![s] = "engine"]
  /\ UNCHANGED <<done, tsd, engine_list, count>>

\* What the steps do to the requests and to the calls counted.
LEMMA Effects ==
  ASSUME IInv, [Next]_vars
  PROVE  \/ \E c \in Callers : AddLocked(c)
         \/ \E s \in Servers : Takes(s) \/ Engine(s) \/ Destructor(s)
         \/ NothingMoves
  <1>0. /\ Servers \subseteq Threads /\ Servers \cap Callers = {} /\ Main \in Callers
        /\ Main \in Threads /\ Main \notin Servers /\ pc \in [Threads -> PCs]
        /\ Callers \subseteq Threads
    BY ConstantsAssumption DEF Threads, IInv, TypeOK
  <1>1. ASSUME NEW c \in Callers, AddCheck(c) \/ AddThroughNull(c)
        PROVE  NothingMoves
    BY <1>0, <1>1 DEF AddCheck, AddThroughNull, NothingMoves, workq, engines
  <1>2. ASSUME NEW s \in Servers, NEW i, NEW late, pc[s] # "engine",
               ServerLoop(s, i, late) \/ ServerQuit(s, i, late), ServerUnchanged
        PROVE  Takes(s) \/ NothingMoves
    <2>1. CASE ServerTake(s, i, late)
      BY <1>2, <2>1 DEF ServerTake, ServerUnchanged, Takes, engines
    <2>2. CASE ServerWait(s, i)
      BY <1>0, <1>2, <2>2 DEF ServerWait, ServerUnchanged, NothingMoves, engines
    <2>3. CASE ServerQuit(s, i, late)
      BY <1>0, <1>2, <2>3 DEF ServerQuit, ServerUnchanged, NothingMoves, engines, Broadcast
    <2> QED  BY <1>2, <2>1, <2>2, <2>3 DEF ServerLoop
  <1>3. ASSUME NEW s \in Servers, ServerStart(s) \/ ServerWake(s) \/ ServerTimedOut(s) \/ ServerRelock(s)
        PROVE  Takes(s) \/ NothingMoves
    <2>1. pc[s] # "engine" /\ ServerUnchanged
      BY <1>3 DEF ServerStart, ServerWake, ServerTimedOut, ServerRelock
    <2>2. \E i, late : ServerLoop(s, i, late) \/ ServerQuit(s, i, late)
      BY <1>3, Zenon DEF ServerStart, ServerWake, ServerTimedOut, ServerRelock
    <2> QED  BY <1>2, <2>1, <2>2, Zenon
  <1>4. ASSUME NEW s \in Servers, Timeout(s) \/ ServerWaitFailed(s) PROVE NothingMoves
    BY <1>0, <1>4 DEF Timeout, ServerWaitFailed, NothingMoves, workq, engines
  <1>5. ASSUME NEW t \in Threads, SpuriousWakeup(t) PROVE NothingMoves
    BY <1>0, <1>5 DEF SpuriousWakeup, NothingMoves, workq, engines
  <1>6. CASE MainStep
    <2>1. CASE DestroyBegin
      BY <1>0, <2>1 DEF DestroyBegin, NothingMoves, engines, Broadcast
    <2>2. CASE Join \/ DestroyWake \/ WalkBegin \/ WalkNext \/ Exit
      BY <1>0, <2>2 DEF Join, DestroyWake, WalkBegin, WalkNext, Exit, NothingMoves, workq, engines
    <2> QED  BY <1>6, <2>1, <2>2 DEF MainStep
  <1>7. CASE UNCHANGED vars
    BY <1>7 DEF vars, workq, engines, NothingMoves
  <1>8. CASE DestroyWaitFailed
    BY <1>8 DEF DestroyWaitFailed, workq, engines, NothingMoves
  <1> QED  BY <1>1, <1>3, <1>4, <1>5, <1>6, <1>7, <1>8, Zenon DEF Next, CallerStep, ServerStep

\* A caller that has returned has made all its requests.
AllMade == \A c \in Callers : pc[c] \notin {"check", "enqueue"} => count[c] = ITERATIONS

\* Every step preserves AllMade.
LEMMA NextAllMade ==
  ASSUME IInv, AllMade, [Next]_vars
  PROVE  AllMade'
  <1>0. /\ Servers \subseteq Threads /\ Servers \cap Callers = {} /\ Main \in Callers
        /\ pc \in [Threads -> PCs] /\ Callers \subseteq Threads
        /\ count \in [Callers -> 0..ITERATIONS]
    BY ConstantsAssumption DEF Threads, IInv, TypeOK
  <1>1. ASSUME NEW c \in Callers, AddCheck(c) \/ AddThroughNull(c)
        PROVE  AllMade'
    BY <1>0, <1>1 DEF AllMade, AddCheck, AddThroughNull
  <1>2. ASSUME NEW c \in Callers, AddLocked(c)
        PROVE  AllMade'
    <2> DEFINE p == [pc EXCEPT ![c] = "check"]
    <2>1. pc' = pc \/ \A t \in Callers : pc'[t] = p[t] \/ p[t] = "waiting"
      BY <1>0, <1>2 DEF AddLocked, WakeOrCreate, Signal, Waiters
    <2>2. pc[c] = "enqueue" /\ count' = [count EXCEPT ![c] = @ + 1]
      BY <1>2 DEF AddLocked
    <2>3. pc'[c] \in {"check", "enqueue"}
      BY <1>0, <2>1, <2>2
    <2>4. ASSUME NEW t \in Callers, t # c, pc'[t] \notin {"check", "enqueue"}
          PROVE  count'[t] = ITERATIONS
      <3>1. pc[t] \notin {"check", "enqueue"}
        BY <1>0, <2>1, <2>4
      <3> QED  BY <1>0, <2>2, <2>4, <3>1 DEF AllMade
    <2> QED  BY <2>3, <2>4 DEF AllMade
  <1>3. ASSUME count' = count,
               \A c \in Callers : pc'[c] = pc[c] \/ pc[c] \notin {"check", "enqueue"}
        PROVE  AllMade'
    BY <1>3 DEF AllMade
  <1>4. ASSUME NEW s \in Servers, NEW i, NEW late,
               ServerLoop(s, i, late) \/ ServerQuit(s, i, late), ServerUnchanged
        PROVE  AllMade'
    <2>1. count' = count
      BY <1>4 DEF ServerUnchanged
    <2>2. \A c \in Callers : pc'[c] = pc[c] \/ pc[c] \notin {"check", "enqueue"}
      BY <1>0, <1>4 DEF ServerLoop, ServerWait, ServerTake, ServerQuit, Broadcast
    <2> QED  BY <1>3, <2>1, <2>2
  <1>5. ASSUME NEW s \in Servers, ServerStart(s) \/ ServerWake(s) \/ ServerTimedOut(s) \/ ServerRelock(s)
        PROVE  AllMade'
    <2>1. ServerUnchanged
      BY <1>5 DEF ServerStart, ServerWake, ServerTimedOut, ServerRelock
    <2>2. \E i, late : ServerLoop(s, i, late) \/ ServerQuit(s, i, late)
      BY <1>5, Zenon DEF ServerStart, ServerWake, ServerTimedOut, ServerRelock
    <2> QED  BY <1>4, <2>1, <2>2, Zenon
  <1>6. ASSUME NEW s \in Servers, Engine(s) \/ Destructor(s) \/ Timeout(s) \/ ServerWaitFailed(s)
        PROVE  AllMade'
    BY <1>0, <1>3, <1>6 DEF Engine, Destructor, Timeout, ServerWaitFailed
  <1>7. ASSUME NEW t \in Threads, SpuriousWakeup(t) PROVE AllMade'
    BY <1>0, <1>3, <1>7 DEF SpuriousWakeup
  <1>8. CASE MainStep
    <2>1. CASE DestroyBegin
      BY <1>0, <1>3, <2>1 DEF DestroyBegin, Broadcast
    <2>2. CASE Join \/ DestroyWake \/ WalkBegin \/ WalkNext \/ Exit
      BY <1>0, <1>3, <2>2 DEF Join, DestroyWake, WalkBegin, WalkNext, Exit
    <2> QED  BY <1>8, <2>1, <2>2 DEF MainStep
  <1>9. CASE UNCHANGED vars
    BY <1>3, <1>9 DEF vars
  <1>10. CASE DestroyWaitFailed
    BY <1>3, <1>10 DEF DestroyWaitFailed
  <1> QED  BY <1>1, <1>2, <1>5, <1>6, <1>7, <1>8, <1>9, <1>10, Zenon DEF Next, CallerStep, ServerStep

\* The engine_t records before and after a step that keeps or moves calls.
LEMMA EngineTotals ==
  ASSUME IInv
  PROVE  /\ FoldFunction(LAMBDA x, y : x + y, 0, tsd) = SumOn(tsd, Servers)
         /\ SumOn(tsd, Servers) \in Int /\ Total(engine_list) \in Int /\ Len(done) \in Nat
  <1>1. tsd \in [Servers -> Int] /\ DOMAIN tsd = Servers /\ engine_list \in Seq(Nat) /\ done \in Seq(Items)
    BY DEF IInv, TypeOK
  <1>2. FoldFunction(LAMBDA x, y : x + y, 0, tsd) = SumOn(tsd, Servers)
    BY <1>1, FoldIsSum, Zenon
  <1>3. SumOn(tsd, Servers) \in Int
    BY <1>1, SumInt, ConstantsAssumption, Zenon
  <1>4. Total(engine_list) \in Int
    BY <1>1, TotalCons
  <1>5. Len(done) \in Nat
    BY <1>1
  <1> QED  BY <1>2, <1>3, <1>4, <1>5

\* Every call of the engine is in one record, on the list once its server ends.
LEMMA NextAccounting ==
  ASSUME IInv, IInv', EngineAccounting, [Next]_vars
  PROVE  EngineAccounting'
  <1>0. /\ tsd \in [Servers -> Nat] /\ engine_list \in Seq(Nat) /\ done \in Seq(Items)
        /\ tsd' \in [Servers -> Nat] /\ IsFiniteSet(Servers)
    BY ConstantsAssumption DEF IInv, TypeOK
  <1>1. /\ SumOn(tsd, Servers) \in Int /\ Total(engine_list) \in Int
        /\ SumOn(tsd, Servers) + Total(engine_list) = Len(done)
    BY EngineTotals, Zenon DEF EngineAccounting
  <1>2. SUFFICES SumOn(tsd', Servers) + Total(engine_list') = Len(done')
    <2>1. DOMAIN tsd' = Servers
      BY <1>0
    <2>2. FoldFunction(LAMBDA x, y : x + y, 0, tsd') = SumOn(tsd', Servers)
      BY <2>1, FoldIsSum, Zenon
    <2>3. FoldFunction(LAMBDA x, y : x + y, 0, tsd') + Total(engine_list') = Len(done')
      BY <1>2, <2>2, Zenon
    <2> QED  BY <2>3, Zenon DEF EngineAccounting, Total, FoldSeq, FoldFunction, FoldFunctionOnSet, MapThenFoldSet
  <1> DEFINE f == tsd
             h == tsd'
  <1>3. f \in [Servers -> Int] /\ h \in [Servers -> Int]
    BY <1>0
  <1>4. CASE UNCHANGED <<done, tsd, engine_list>>
    BY <1>1, <1>4
  <1>5. ASSUME NEW c \in Callers, AddLocked(c)
        PROVE  UNCHANGED <<done, tsd, engine_list>>
    BY <1>5 DEF AddLocked, engines
  <1>6. ASSUME NEW s \in Servers, Engine(s)
        PROVE  SumOn(tsd', Servers) + Total(engine_list') = Len(done')
    <2>1. /\ tsd' = [tsd EXCEPT ![s] = @ + 1] /\ engine_list' = engine_list
          /\ Len(done') = Len(done) + 1 /\ Len(done) \in Nat
      BY <1>0, <1>6 DEF Engine
    <2>2. h[s] = f[s] + 1 /\ f[s] \in Int /\ \A y \in Servers \ {s} : f[y] = h[y]
      BY <1>0, <2>1
    <2> HIDE DEF f, h
    <2>3. SumOn(h, Servers) = SumOn(f, Servers) - f[s] + h[s]
      <3>1. Differ(f, h, Servers, s)
        BY <1>3, <2>2 DEF Differ
      <3>2. IsFiniteSet(Servers)
        BY <1>0
      <3> QED  BY <3>1, <3>2, SumChange
    <2>4. SumOn(h, Servers) = SumOn(f, Servers) + 1
      <3>1. SumOn(f, Servers) \in Int
        BY <1>1 DEF f
      <3> QED  BY <2>2, <2>3, <3>1
    <2>5. SumOn(tsd', Servers) = SumOn(tsd, Servers) + 1
      BY <2>4 DEF f, h
    <2> QED  BY <1>1, <2>1, <2>5
  <1>7. ASSUME NEW s \in Servers, Destructor(s)
        PROVE  SumOn(tsd', Servers) + Total(engine_list') = Len(done')
    <2>1. /\ tsd' = [tsd EXCEPT ![s] = 0] /\ done' = done
          /\ engine_list' = IF tsd[s] = 0 THEN engine_list ELSE <<tsd[s]>> \o engine_list
      BY <1>7 DEF Destructor
    <2>2. h[s] = 0 /\ f[s] \in Nat /\ \A y \in Servers \ {s} : f[y] = h[y]
      BY <1>0, <2>1
    <2>3. Total(engine_list') = f[s] + Total(engine_list)
      <3>1. CASE tsd[s] = 0
        BY <1>1, <2>1, <3>1
      <3>2. CASE tsd[s] # 0
        BY <1>0, <2>1, <2>2, <3>2, TotalCons
      <3> QED  BY <3>1, <3>2
    <2> HIDE DEF f, h
    <2>4. SumOn(h, Servers) = SumOn(f, Servers) - f[s] + h[s]
      <3>1. Differ(f, h, Servers, s)
        BY <1>3, <2>2 DEF Differ
      <3>2. IsFiniteSet(Servers)
        BY <1>0
      <3> QED  BY <3>1, <3>2, SumChange
    <2>5. SumOn(h, Servers) = SumOn(f, Servers) - f[s]
      <3>1. SumOn(f, Servers) \in Int
        BY <1>1 DEF f
      <3> QED  BY <2>2, <2>4, <3>1
    <2>6. SumOn(tsd', Servers) = SumOn(tsd, Servers) - f[s]
      BY <2>5 DEF f, h
    <2> QED  BY <1>1, <2>1, <2>2, <2>3, <2>6
  <1> QED  BY <1>4, <1>5, <1>6, <1>7, Effects, Zenon DEF Takes, NothingMoves

\* Who holds a request is in the engine with it.
HoldersBusy == \A s \in Servers : we[s] # NULL => pc[s] = "engine"

\* Where the requests are: the inductive part of RequestsAccounted.
Places == EachRequestOnce /\ HoldersBusy /\ IsFiniteSet(Added)

\* A request taken from the queue, or put behind it or behind those done.
LEMMA ItemsOf ==
  /\ \A q \in Seq(Items), x \in Items :
       ItemsIn(Append(q, x)) = ItemsIn(q) \cup {x} /\ Len(Append(q, x)) = Len(q) + 1
  /\ \A q \in Seq(Items) :
       q # <<>> => /\ ItemsIn(q) = {Head(q)} \cup ItemsIn(Tail(q))
                   /\ Len(Tail(q)) = Len(q) - 1 /\ Head(q) \in Items
  <1>1. ASSUME NEW q \in Seq(Items), NEW x \in Items
        PROVE  ItemsIn(Append(q, x)) = ItemsIn(q) \cup {x} /\ Len(Append(q, x)) = Len(q) + 1
    <2> DEFINE r == Append(q, x)
    <2>1. /\ Len(r) = Len(q) + 1 /\ Len(q) \in Nat /\ r[Len(q) + 1] = x
          /\ \A i \in 1..Len(q) : r[i] = q[i]
      OBVIOUS
    <2> HIDE DEF r
    <2>2. 1..Len(r) = 1..Len(q) \cup {Len(q) + 1}
      BY <2>1
    <2>3. ItemsIn(r) = ItemsIn(q) \cup {x}
      BY <2>1, <2>2 DEF ItemsIn
    <2> QED  BY <2>1, <2>3 DEF r
  <1>2. ASSUME NEW q \in Seq(Items), q # <<>>
        PROVE  /\ ItemsIn(q) = {Head(q)} \cup ItemsIn(Tail(q))
               /\ Len(Tail(q)) = Len(q) - 1 /\ Head(q) \in Items
    <2> DEFINE r == Tail(q)
    <2>1. /\ Len(q) \in Nat /\ Len(q) >= 1 /\ Len(r) = Len(q) - 1 /\ Head(q) = q[1] /\ Head(q) \in Items
          /\ \A i \in 1..Len(r) : r[i] = q[i + 1]
      BY <1>2
    <2> HIDE DEF r
    <2>2. \A i \in 1..Len(q) : i = 1 \/ (i - 1 \in 1..Len(r) /\ r[i - 1] = q[i])
      BY <2>1
    <2>3. \A i \in 1..Len(r) : i + 1 \in 1..Len(q) /\ r[i] = q[i + 1]
      BY <2>1
    <2>4. 1 \in 1..Len(q)
      BY <2>1
    <2>5. ItemsIn(q) = {q[1]} \cup ItemsIn(r)
      <3>1. \A y \in ItemsIn(q) : y = q[1] \/ y \in ItemsIn(r)
        BY <2>2 DEF ItemsIn
      <3>2. \A y \in ItemsIn(r) : y \in ItemsIn(q)
        BY <2>3 DEF ItemsIn
      <3>3. q[1] \in ItemsIn(q)
        BY <2>4 DEF ItemsIn
      <3> QED  BY <3>1, <3>2, <3>3
    <2> QED  BY <2>1, <2>5 DEF r
  <1> QED  BY <1>1, <1>2

\* Every step keeps the requests where they are or moves one of them.
LEMMA NextPlaces ==
  ASSUME IInv, Places, [Next]_vars
  PROVE  Places'
  <1>0. /\ queue \in Seq(Items) /\ done \in Seq(Items) /\ we \in [Servers -> Items \cup {NULL}]
        /\ pc \in [Threads -> PCs] /\ Servers \subseteq Threads /\ Servers \cap Callers = {}
        /\ NULL \notin Items /\ Len(queue) \in Nat /\ Len(done) \in Nat
        /\ count \in [Callers -> 0..ITERATIONS]
    BY ConstantsAssumption DEF Threads, IInv, TypeOK
  <1>1. /\ Added = ItemsIn(queue) \cup {we[s] : s \in Holders} \cup ItemsIn(done)
        /\ Cardinality(Added) = Len(queue) + Cardinality(Holders) + Len(done)
        /\ HoldersBusy /\ IsFiniteSet(Added)
    BY DEF Places, EachRequestOnce
  <1>2. IsFiniteSet(Holders) /\ Cardinality(Holders) \in Nat
    <2>1. Holders \subseteq Servers
      BY DEF Holders
    <2> QED  BY <2>1, FS_Subset, FS_CardinalityType, ConstantsAssumption
  <1>3. ASSUME UNCHANGED <<queue, we, done, count>>
        PROVE  EachRequestOnce' /\ IsFiniteSet(Added')
    BY <1>1, <1>3 DEF EachRequestOnce, Added, Holders, ItemsIn
  <1>4. CASE NothingMoves
    <2>1. HoldersBusy'
      BY <1>1, <1>4 DEF HoldersBusy, NothingMoves
    <2> QED  BY <1>3, <1>4, <2>1 DEF Places, NothingMoves
  <1>5. ASSUME NEW c \in Callers, AddLocked(c) PROVE Places'
    <2> DEFINE item == <<c, count[c] + 1>>
    <2>1. /\ queue' = Append(queue, item) /\ count' = [count EXCEPT ![c] = @ + 1]
          /\ we' = we /\ done' = done /\ Running /\ pc[c] = "enqueue"
      BY <1>5 DEF AddLocked
    <2>2. count[c] < ITERATIONS /\ item \in Items /\ count[c] \in Nat
      <3>1. count[c] < ITERATIONS
        BY <2>1 DEF IInv, Locals
      <3> QED  BY <1>0, <3>1, ConstantsAssumption DEF Items
    <2>3. Added' = Added \cup {item} /\ item \notin Added
      <3>1. ASSUME NEW i \in Items
            PROVE  i[2] <= count'[i[1]] <=> (i[2] <= count[i[1]] \/ i = item)
        <4>1. PICK d \in Callers, k \in 1..ITERATIONS : i = <<d, k>>
          BY DEF Items
        <4>2. i[1] = d /\ i[2] = k /\ (i = item <=> d = c /\ k = count[c] + 1)
          BY <4>1
        <4>3. CASE d = c
          <5>1. count'[d] = count[c] + 1
            BY <1>0, <2>1, <4>3
          <5> QED  BY <2>2, <4>2, <4>3, <5>1
        <4>4. CASE d # c
          <5>1. count'[d] = count[d]
            BY <1>0, <2>1, <4>4
          <5> QED  BY <4>2, <4>4, <5>1
        <4> QED  BY <4>3, <4>4
      <3>2. item[1] = c /\ item[2] = count[c] + 1
        OBVIOUS
      <3>3. item \notin Added
        BY <2>2, <3>2 DEF Added
      <3> HIDE DEF item
      <3> QED  BY <2>2, <3>1, <3>3 DEF Added
    <2> HIDE DEF item
    <2>4. Cardinality(Added') = Cardinality(Added) + 1 /\ IsFiniteSet(Added')
      <3> DEFINE A == Added
      <3>1. IsFiniteSet(A) /\ item \notin A
        BY <1>1, <2>3
      <3> HIDE DEF A
      <3>2. Cardinality(A \cup {item}) = Cardinality(A) + 1 /\ IsFiniteSet(A \cup {item})
        BY <3>1, FS_AddElement
      <3> QED  BY <2>3, <3>2 DEF A
    <2>5. ItemsIn(queue') = ItemsIn(queue) \cup {item} /\ Len(queue') = Len(queue) + 1
      BY <1>0, <2>1, <2>2, ItemsOf
    <2>6. Holders' = Holders /\ {we'[s] : s \in Holders'} = {we[s] : s \in Holders}
      BY <2>1 DEF Holders
    <2>7. ItemsIn(queue)' = ItemsIn(queue') /\ ItemsIn(done)' = ItemsIn(done)
      BY <2>1 DEF ItemsIn
    <2>8. Added' = ItemsIn(queue)' \cup {we'[s] : s \in Holders'} \cup ItemsIn(done)'
      BY <1>1, <2>3, <2>5, <2>6, <2>7
    <2>9. Cardinality(Added') = Len(queue') + Cardinality(Holders') + Len(done')
      BY <1>0, <1>1, <1>2, <2>1, <2>4, <2>5, <2>6
    <2>10. HoldersBusy'
      <3>1. \A s \in Servers : pc[s] = "engine" => pc'[s] = "engine"
        BY <1>0, <1>5 DEF AddLocked, WakeOrCreate, Signal, Waiters
      <3> QED  BY <1>1, <2>1, <3>1 DEF HoldersBusy
    <2> QED  BY <2>4, <2>8, <2>9, <2>10 DEF Places, EachRequestOnce
  <1>6. ASSUME NEW s \in Servers, Takes(s) PROVE Places'
    <2> DEFINE x == Head(queue)
    <2>1. /\ pc[s] # "engine" /\ queue # <<>> /\ queue' = Tail(queue)
          /\ we' = [we EXCEPT ![s] = x] /\ pc' = [pc EXCEPT ![s] = "engine"]
          /\ done' = done /\ count' = count
      BY <1>6 DEF Takes
    <2>2. /\ ItemsIn(queue) = {x} \cup ItemsIn(Tail(queue)) /\ x \in Items
          /\ Len(Tail(queue)) = Len(queue) - 1
      BY <1>0, <2>1, ItemsOf
    <2> HIDE DEF x
    <2>3. s \notin Holders /\ x # NULL
      BY <1>0, <1>1, <2>1, <2>2 DEF HoldersBusy, Holders
    <2>4. Holders' = Holders \cup {s} /\ {we'[t] : t \in Holders'} = {we[t] : t \in Holders} \cup {x}
      <3>1. we'[s] = x /\ \A t \in Servers \ {s} : we'[t] = we[t]
        BY <1>0, <2>1
      <3>2. Holders' = Holders \cup {s}
        BY <2>3, <3>1 DEF Holders
      <3>3. \A t \in Holders : we'[t] = we[t]
        BY <2>3, <3>1 DEF Holders
      <3> QED  BY <3>1, <3>2, <3>3
    <2>5. Cardinality(Holders') = Cardinality(Holders) + 1
      BY <1>2, <2>3, <2>4, FS_AddElement
    <2>6. Added' = Added
      BY <2>1 DEF Added
    <2>7. ItemsIn(queue)' = ItemsIn(Tail(queue)) /\ ItemsIn(done)' = ItemsIn(done)
      BY <2>1 DEF ItemsIn
    <2>8. Added' = ItemsIn(queue)' \cup {we'[t] : t \in Holders'} \cup ItemsIn(done)'
      BY <1>1, <2>2, <2>4, <2>6, <2>7
    <2>9. Cardinality(Added') = Len(queue') + Cardinality(Holders') + Len(done')
      <3>1. Cardinality(Added') = Len(queue) + Cardinality(Holders) + Len(done)
        BY <1>1, <2>6
      <3>2. /\ Len(queue') = Len(queue) - 1 /\ Cardinality(Holders') = Cardinality(Holders) + 1
            /\ Len(done') = Len(done)
        BY <2>1, <2>2, <2>5
      <3>3. Len(queue) \in Nat /\ Cardinality(Holders) \in Nat /\ Len(done) \in Nat
        BY <1>0, <1>2
      <3> QED  BY ONLY <3>1, <3>2, <3>3
    <2>10. HoldersBusy'
      BY <1>0, <1>1, <2>1 DEF HoldersBusy
    <2> QED  BY <1>1, <2>6, <2>8, <2>9, <2>10 DEF Places, EachRequestOnce
  <1>7. ASSUME NEW s \in Servers, Engine(s) PROVE Places'
    <2> DEFINE x == we[s]
    <2>1. /\ pc[s] = "engine" /\ done' = Append(done, x) /\ we' = [we EXCEPT ![s] = NULL]
          /\ pc' = [pc EXCEPT ![s] = "relock"] /\ queue' = queue /\ count' = count
      BY <1>7 DEF Engine, workq
    <2>2. x \in Items /\ s \in Holders
      BY <1>0, <2>1 DEF IInv, Locals, Holders
    <2>3. ItemsIn(Append(done, x)) = ItemsIn(done) \cup {x} /\ Len(Append(done, x)) = Len(done) + 1
      BY <1>0, <2>2, ItemsOf
    <2>4. Holders' = Holders \ {s} /\ {we'[t] : t \in Holders'} \cup {x} = {we[t] : t \in Holders}
      <3>1. we'[s] = NULL /\ \A t \in Servers \ {s} : we'[t] = we[t]
        BY <1>0, <2>1
      <3>2. Holders' = Holders \ {s}
        BY <3>1 DEF Holders
      <3>3. \A t \in Holders \ {s} : we'[t] = we[t]
        BY <3>1 DEF Holders
      <3> QED  BY <2>2, <3>2, <3>3
    <2> HIDE DEF x
    <2>5. Cardinality(Holders') = Cardinality(Holders) - 1
      BY <1>2, <2>2, <2>4, FS_RemoveElement
    <2>6. Added' = Added
      BY <2>1 DEF Added
    <2>7. ItemsIn(queue)' = ItemsIn(queue) /\ ItemsIn(done)' = ItemsIn(Append(done, x))
      BY <2>1 DEF ItemsIn
    <2>8. Added' = ItemsIn(queue)' \cup {we'[t] : t \in Holders'} \cup ItemsIn(done)'
      BY <1>1, <2>3, <2>4, <2>6, <2>7
    <2>9. Cardinality(Added') = Len(queue') + Cardinality(Holders') + Len(done')
      <3>1. Cardinality(Added') = Len(queue) + Cardinality(Holders) + Len(done)
        BY <1>1, <2>6
      <3>2. /\ Len(queue') = Len(queue) /\ Cardinality(Holders') = Cardinality(Holders) - 1
            /\ Len(done') = Len(done) + 1
        BY <2>1, <2>3, <2>5
      <3>3. Len(queue) \in Nat /\ Cardinality(Holders) \in Nat /\ Len(done) \in Nat
        BY <1>0, <1>2
      <3> QED  BY ONLY <3>1, <3>2, <3>3
    <2>10. HoldersBusy'
      BY <1>0, <1>1, <2>1 DEF HoldersBusy
    <2> QED  BY <1>1, <2>6, <2>8, <2>9, <2>10 DEF Places, EachRequestOnce
  <1>8. ASSUME NEW s \in Servers, Destructor(s) PROVE Places'
    <2>1. /\ UNCHANGED <<queue, we, done, count>>
          /\ pc[s] = "exiting" /\ pc' = [pc EXCEPT ![s] = "unborn"]
      BY <1>8 DEF Destructor, workq
    <2>2. HoldersBusy'
      BY <1>0, <1>1, <2>1 DEF HoldersBusy
    <2> QED  BY <1>3, <2>1, <2>2 DEF Places
  <1> QED  BY <1>4, <1>5, <1>6, <1>7, <1>8, Effects, Zenon

-----------------------------------------------------------------------------
(* All of RequestsAccounted.                                               *)

\* When workq_destroy has returned nothing is left on the queue.
Drained == Destroyed /\ failures = 0 => queue = <<>>

\* Every step preserves Drained.
LEMMA NextDrained ==
  ASSUME IInv, NoStrandedWork', DestroyedQuiescent', Drained, [Next]_vars
  PROVE  Drained'
  <1> SUFFICES ASSUME Destroyed', failures' = 0 PROVE queue' = <<>>
    BY DEF Drained
  <1>1. CASE Running'
    <2>1. LiveServers' = {}
      BY DEF DestroyedQuiescent
    <2>2. \A s \in Servers : pc'[s] \notin LivePC
      BY <2>1 DEF LiveServers
    <2> QED  BY <1>1, <2>2 DEF NoStrandedWork
  <1>2. CASE ~ Running
    <2>1. UNCHANGED vars
      BY <1>2 DEF Next, CallerStep, AddCheck, AddLocked, AddThroughNull, ServerStep, ServerStart,
                  ServerWake, ServerTimedOut, Engine, ServerRelock, Destructor, Timeout,
                  ServerWaitFailed, SpuriousWakeup, MainStep, Join, DestroyBegin, DestroyWake,
                  WalkBegin, WalkNext, Exit, DestroyWaitFailed
    <2> QED  BY <2>1 DEF vars, workq, Drained, Destroyed
  <1>3. CASE Running /\ ~ Running'
    <2>1. \/ \E c \in Callers : CallerStep(c)
          \/ Exit \/ DestroyWaitFailed
      BY <1>3 DEF Next, ServerStep, ServerStart, ServerUnchanged,
                  ServerWake, ServerTimedOut, Engine, ServerRelock, Destructor, Timeout,
                  ServerWaitFailed, SpuriousWakeup, MainStep, Join, DestroyBegin, DestroyWake,
                  WalkBegin, WalkNext, vars, Running
    <2>2. CASE Exit
      BY <2>2 DEF Exit, Drained, Destroyed, workq
    <2>3. ASSUME NEW c \in Callers, CallerStep(c) PROVE FALSE
      <3>1. pc' = pc /\ pc[c] \in {"check", "enqueue"}
        BY <1>3, <2>3 DEF CallerStep, AddCheck, AddLocked, AddThroughNull, WakeOrCreate, Running
      <3>2. pc[Main] \in {"destroyed", "walking"}
        BY <3>1 DEF Destroyed
      <3> QED  BY <3>1, <3>2 DEF IInv, Stages, CallerPCs
    <2>4. ~ DestroyWaitFailed
      BY DEF DestroyWaitFailed, IInv, TypeOK
    <2> QED  BY <2>1, <2>2, <2>3, <2>4
  <1> QED  BY <1>1, <1>2, <1>3

\* All of it together, from the first state on.
Accounts == EngineAccounting /\ Places /\ AllMade /\ Drained

\* Init establishes the accounts.
LEMMA InitAccounts == Init => Accounts
  <1> SUFFICES ASSUME Init PROVE Accounts
    OBVIOUS
  <1>1. EngineAccounting
    <2>1. tsd \in [Servers -> Int] /\ (\A s \in Servers : tsd[s] = 0) /\ DOMAIN tsd = Servers
      BY DEF Init
    <2>2. SumOn(tsd, Servers) = 0
      BY <2>1, SumZero, ConstantsAssumption, Zenon
    <2>3. FoldFunction(LAMBDA x, y : x + y, 0, tsd) = SumOn(tsd, Servers)
      BY <2>1, FoldIsSum, Zenon
    <2>4. Total(engine_list) = 0 /\ Len(done) = 0
      BY TotalEmpty DEF Init
    <2>5. SumOn(tsd, Servers) + Total(engine_list) = Len(done)
      BY <2>2, <2>4
    <2> QED  BY <2>3, <2>5, Zenon DEF EngineAccounting
  <1>2. Places
    <2>1. Holders = {} /\ ItemsIn(queue) = {} /\ ItemsIn(done) = {} /\ Len(queue) = 0 /\ Len(done) = 0
      BY DEF Init, Holders, ItemsIn
    <2>2. Added = {}
      <3>1. \A i \in Items : i[1] \in Callers /\ i[2] \in 1..ITERATIONS
        BY DEF Items
      <3> QED  BY <3>1, ConstantsAssumption DEF Init, Added
    <2>3. Cardinality(Added) = 0 /\ Cardinality(Holders) = 0 /\ IsFiniteSet(Added)
      BY <2>1, <2>2, FS_EmptySet
    <2>4. EachRequestOnce
      BY <2>1, <2>2, <2>3 DEF EachRequestOnce
    <2>5. HoldersBusy
      BY DEF Init, HoldersBusy
    <2> QED  BY <2>3, <2>4, <2>5 DEF Places
  <1>3. AllMade /\ Drained
    BY ConstantsAssumption DEF Init, AllMade, Drained, Threads
  <1> QED  BY <1>1, <1>2, <1>3 DEF Accounts

\* What is drained has been done: the requests are all made, none is queued, and
\* no server is left to hold one.
LEMMA DrainedDone ==
  ASSUME IInv, DestroyedQuiescent, Accounts
  PROVE  RequestsAccounted
  <1>1. ASSUME Destroyed, failures = 0 PROVE queue = <<>> /\ ItemsIn(done) = Items
    <2>1. queue = <<>> /\ LiveServers = {}
      BY <1>1 DEF Accounts, Drained, DestroyedQuiescent
    <2>2. Holders = {}
      BY <2>1 DEF Accounts, Places, HoldersBusy, Holders, LiveServers, LivePC
    <2>3. ItemsIn(queue) = {}
      BY <2>1 DEF ItemsIn
    <2>4. \A c \in Callers : count[c] = ITERATIONS
      BY <1>1, ConstantsAssumption DEF Destroyed, Accounts, AllMade, IInv, Stages, CallerPCs
    <2>5. Added = Items
      <3>1. \A i \in Items : i[1] \in Callers /\ i[2] \in 1..ITERATIONS
        BY DEF Items
      <3> QED  BY <2>4, <3>1, ConstantsAssumption DEF Added
    <2> QED  BY <2>1, <2>2, <2>3, <2>5 DEF Accounts, Places, EachRequestOnce
  <1>2. DestroyedDrained
    BY <1>1 DEF DestroyedDrained
  <1> QED  BY <1>2 DEF Accounts, Places, RequestsAccounted

\* For every number of servers, callers and requests: what workq_add accepts is
\* on the queue, in one server's hands or processed, once; the engine_t records
\* add up to the calls of engine_routine, however servers come and go; and when
\* workq_destroy returns all requests are done, unless a wait has failed.
THEOREM RequestsKept == Spec => []RequestsAccounted
  <1>1. IInv /\ IInv' /\ NoStrandedWork' /\ DestroyedQuiescent' /\ Accounts /\ [Next]_vars => Accounts'
    <2> SUFFICES ASSUME IInv, IInv', NoStrandedWork', DestroyedQuiescent', Accounts, [Next]_vars
                 PROVE  Accounts'
      OBVIOUS
    <2>1. EngineAccounting'
      BY NextAccounting DEF Accounts
    <2>2. Places' /\ AllMade' /\ Drained'
      BY NextPlaces, NextAllMade, NextDrained DEF Accounts
    <2> QED  BY <2>1, <2>2 DEF Accounts
  <1>2. IInv /\ DestroyedQuiescent /\ Accounts => RequestsAccounted
    BY DrainedDone
  <1> QED  BY <1>1, <1>2, InitAccounts, Invariance, NoLostWakeup, DestroySafe, PTL DEF Spec
=============================================================================
